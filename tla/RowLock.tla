------------------------------- MODULE RowLock -------------------------------
(***************************************************************************)
(* Two-phase locking in DBx1000: the lock manager of a row (Row_lock), the *)
(* access path above it (row_t::get_row and return_row, txn_man::get_row,  *)
(* cleanup and finish) and the worker loop that runs and retries the       *)
(* transactions (thread_t::run), for the three locking values of CC_ALG.   *)
(*                                                                         *)
(* A row has a latch, and every lock_get and lock_release runs under it,   *)
(* so each of them is one action.  All that happens between two latched    *)
(* sections (the spin on lock_ready, the resets of the flags, the work on  *)
(* the row) is an action of its own.                                       *)
(*                                                                         *)
(* A thread has one txn_man for its whole life, so a thread stands for the *)
(* txn pointer of a LockEntry.                                             *)
(***************************************************************************)
EXTENDS Naturals, FiniteSets, SequencesExt

CONSTANTS Threads,           \* worker threads
          Rows,              \* rows of the database
          Queries,           \* sequences of [row, type], no row twice
          Ts,                \* txn_man::timestamp, never renewed
          CC_ALG,            \* "NO_WAIT", "WAIT_DIE" or "DL_DETECT"
          MAX_TXN_PER_PART   \* commits after which a thread ends the run

LOCK_EX   == "LOCK_EX"
LOCK_SH   == "LOCK_SH"
LOCK_NONE == "LOCK_NONE"
lock_t    == {LOCK_EX, LOCK_SH, LOCK_NONE}

\* The access types a query uses; XP is what cleanup turns WR into.
AccessType == {"RD", "WR", "SCAN"}

ASSUME QueriesAssumption ==
  \A q \in Queries :
     /\ q \in Seq([row : Rows, type : AccessType])
     /\ \A i, j \in DOMAIN q : q[i].row = q[j].row => i = j

ASSUME TsAssumption == Ts \in [Threads -> Nat]

ASSUME AlgAssumption == CC_ALG \in {"NO_WAIT", "WAIT_DIE", "DL_DETECT"}

ASSUME BoundAssumption == MAX_TXN_PER_PART \in Nat \ {0}

VARIABLES
  \* Row_lock
  owners,       \* row -> the threads in its owner list
  waiters,      \* row -> its waiter list, head first: [txn, type] entries
  lock_type,    \* row -> mode of the owners
  \* row_t
  data,         \* row -> its value, updated in place
  \* txn_man
  lock_ready,   \* thread -> set by whoever hands it the lock
  lock_abort,   \* thread -> set by a timeout or by the deadlock detector
  query,        \* thread -> the query it runs
  accesses,     \* thread -> accesses[0 .. row_cnt-1], each [row, type, orig_data]
  rc,           \* thread -> the argument of cleanup
  \* thread_t and workload
  pc,           \* thread -> where it is in the code
  txn_cnt,      \* thread -> its committed transactions
  sim_done,     \* the workload's flag that ends the run
  \* history
  out           \* thread -> what its last committed transaction read

lockVars   == <<owners, waiters, lock_type>>
threadVars == <<query, txn_cnt, sim_done>>
vars == <<owners, waiters, lock_type, data, lock_ready, lock_abort, query,
          accesses, rc, pc, txn_cnt, sim_done, out>>

PC == {"idle", "run", "granted", "wait", "spin", "leave", "giveup",
       "cleanup", "penalty", "finished"}

\* A thread whose request sits in a waiter list, or did until it was handed
\* the lock, and that has not yet acted on it.
Waiting == {"wait", "spin", "leave", "giveup"}

NoOutput == [query |-> <<>>, saw |-> <<>>]

Init ==
  /\ owners = [r \in Rows |-> {}]
  /\ waiters = [r \in Rows |-> <<>>]
  /\ lock_type = [r \in Rows |-> LOCK_NONE]
  /\ data = [r \in Rows |-> 0]
  /\ lock_ready = [t \in Threads |-> FALSE]
  /\ lock_abort = [t \in Threads |-> FALSE]
  /\ query = [t \in Threads |-> <<>>]
  /\ accesses = [t \in Threads |-> <<>>]
  /\ rc = [t \in Threads |-> "RCOK"]
  /\ pc = [t \in Threads |-> "idle"]
  /\ txn_cnt = [t \in Threads |-> 0]
  /\ sim_done = FALSE
  /\ out = [t \in Threads |-> NoOutput]

------------------------------------------------------------------------------
(***************************************************************************)
(* Row_lock                                                                *)
(***************************************************************************)

\* Mutant of conflict_lock: a reader and a writer do not conflict.
conflict_lock_Writers(l1, l2) == l1 = LOCK_EX /\ l2 = LOCK_EX

conflict_lock(l1, l2) ==
  /\ l1 # LOCK_NONE /\ l2 # LOCK_NONE
  /\ l1 = LOCK_EX \/ l2 = LOCK_EX

LockMode(type) == IF type \in {"RD", "SCAN"} THEN LOCK_SH ELSE LOCK_EX

\* The access thread t asks the lock manager for.
Cur(t)    == query[t][Len(accesses[t]) + 1]
CurRow(t) == Cur(t).row
CurMode(t) == LockMode(Cur(t).type)

\* Mutant of MustYield: only the owners are looked at.
MustYield_Owners(t, r, mode) == conflict_lock(lock_type[r], mode)

\* lock_get does not put t among the owners of r.
MustYield(t, r, mode) ==
  \/ conflict_lock(lock_type[r], mode)
  \/ /\ CC_ALG = "WAIT_DIE"
     /\ waiters[r] # <<>> /\ Ts[t] < Ts[Head(waiters[r]).txn]
  \/ CC_ALG = "DL_DETECT" /\ waiters[r] # <<>>

\* Mutants of CanWait: the age of the owners is not looked at, or no owner is
\* ever young enough.
CanWait_Always(t, r) == CC_ALG # "NO_WAIT"
CanWait_Never(t, r)  == owners[r] = {}

\* ... and t may queue for r instead of aborting.
CanWait(t, r) ==
  \/ CC_ALG = "DL_DETECT"
  \/ CC_ALG = "WAIT_DIE" /\ \A o \in owners[r] : ~ (Ts[o] < Ts[t])

\* The walk from the head of list ws stops at place i for thread t, which is
\* inserted there.  DL_DETECT always appends.
InsertsAt(t, ws, i) ==
  IF CC_ALG = "DL_DETECT"
  THEN i = Len(ws) + 1
  ELSE /\ \A j \in 1..(i - 1) : Ts[t] < Ts[ws[j].txn]
       /\ i <= Len(ws) => ~ (Ts[t] < Ts[ws[i].txn])

\* Mutant of Joins: an `if` in place of the `while`.
Joins_Head(lt, ws, k) ==
  k = IF ws # <<>> /\ ~ conflict_lock(lt, Head(ws).type) THEN 1 ELSE 0

\* With lock mode lt, the loop that lets waiters join the owners pops exactly
\* the first k entries of ws.
Joins(lt, ws, k) ==
  LET mode(i) == IF i = 1 THEN lt ELSE ws[i - 1].type
  IN /\ \A i \in 1..k : ~ conflict_lock(mode(i), ws[i].type)
     /\ k < Len(ws) => conflict_lock(mode(k + 1), ws[k + 1].type)

\* The mode of a row that keeps the owners own.
ModeWith(r, own) == IF own = {} THEN LOCK_NONE ELSE lock_type[r]

\* lock_ready once the threads in joined have been handed the lock.
Woken(joined) == [u \in Threads |-> lock_ready[u] \/ u \in joined]

\* The end of lock_release: own and ws are what is left of the lists of row r
\* once the caller's entry is gone.
LetJoin(r, own, lt, ws) ==
  \E k \in 0..Len(ws) :
    LET joined == {ws[i].txn : i \in 1..k}
    IN /\ Joins(lt, ws, k)
       /\ owners' = [owners EXCEPT ![r] = own \union joined]
       /\ waiters' = [waiters EXCEPT ![r] = SubSeq(ws, k + 1, Len(ws))]
       /\ lock_type' = [lock_type EXCEPT ![r] = IF k = 0 THEN lt ELSE ws[k].type]
       /\ lock_ready' = Woken(joined)

lock_release(t, r) ==
  IF t \in owners[r]
  THEN LET own == owners[r] \ {t}
       IN LetJoin(r, own, ModeWith(r, own), waiters[r])
  ELSE \E i \in 1..Len(waiters[r]) :
         /\ waiters[r][i].txn = t
         /\ LetJoin(r, owners[r], lock_type[r], RemoveAt(waiters[r], i))

------------------------------------------------------------------------------
(***************************************************************************)
(* The access path of a transaction                                        *)
(***************************************************************************)

Goto(t, label) == pc' = [pc EXCEPT ![t] = label]

\* run_txn reaches its next access.
Requests(t) == pc[t] = "run" /\ Len(accesses[t]) < Len(query[t])

\* lock_get returns RCOK.
LockGranted(t) ==
  /\ Requests(t)
  /\ ~ MustYield(t, CurRow(t), CurMode(t))
  /\ owners' = [owners EXCEPT ![CurRow(t)] = @ \union {t}]
  /\ lock_type' = [lock_type EXCEPT ![CurRow(t)] = CurMode(t)]
  /\ Goto(t, "granted")
  /\ UNCHANGED <<waiters, data, lock_ready, lock_abort, accesses, rc, out,
                 threadVars>>

\* Mutant of NotReady: the flag of an earlier wait is left set.
NotReady_Stale(t) == lock_ready

\* lock_ready once thread t has been queued.
NotReady(t) == [lock_ready EXCEPT ![t] = FALSE]

\* lock_get returns WAIT: t is in the waiter list of the row.
LockWaits(t) ==
  /\ Requests(t)
  /\ MustYield(t, CurRow(t), CurMode(t))
  /\ CanWait(t, CurRow(t))
  /\ \E i \in 1..(Len(waiters[CurRow(t)]) + 1) :
       /\ InsertsAt(t, waiters[CurRow(t)], i)
       /\ waiters' = [waiters EXCEPT ![CurRow(t)] =
                        InsertAt(@, i, [txn |-> t, type |-> CurMode(t)])]
  /\ lock_ready' = NotReady(t)
  /\ Goto(t, "wait")
  /\ UNCHANGED <<owners, lock_type, data, lock_abort, accesses, rc, out,
                 threadVars>>

\* lock_get returns Abort: run_txn calls finish(Abort).
LockAborts(t) ==
  /\ Requests(t)
  /\ MustYield(t, CurRow(t), CurMode(t))
  /\ ~ CanWait(t, CurRow(t))
  /\ rc' = [rc EXCEPT ![t] = "Abort"]
  /\ Goto(t, "cleanup")
  /\ UNCHANGED <<lockVars, data, lock_ready, lock_abort, accesses, out,
                 threadVars>>

\* row_t::get_row clears lock_abort only after lock_get gave the latch back.
EnterSpin(t) ==
  /\ pc[t] = "wait"
  /\ lock_abort' = [lock_abort EXCEPT ![t] = FALSE]
  /\ Goto(t, "spin")
  /\ UNCHANGED <<lockVars, data, lock_ready, accesses, rc, out, threadVars>>

\* while (!lock_ready && !lock_abort) ends.
LeaveSpin(t) ==
  /\ pc[t] = "spin"
  /\ lock_ready[t] \/ lock_abort[t]
  /\ Goto(t, "leave")
  /\ UNCHANGED <<lockVars, data, lock_ready, lock_abort, accesses, rc, out,
                 threadVars>>

\* A turn of the DL_DETECT loop found lock_ready clear, then the time out.
Timeout(t) ==
  /\ pc[t] = "spin" /\ CC_ALG = "DL_DETECT"
  /\ lock_abort' = [lock_abort EXCEPT ![t] = TRUE]
  /\ Goto(t, "leave")
  /\ UNCHANGED <<lockVars, data, lock_ready, accesses, rc, out, threadVars>>

\* detect_cycle, run by a spinning thread, picks thread v as its victim.  It
\* checks that v still runs the transaction before it sets the flag, so v may
\* be anywhere by then (DLDetect has the detector itself).
Victim(t, v) ==
  /\ pc[t] = "spin" /\ CC_ALG = "DL_DETECT"
  /\ lock_abort' = [lock_abort EXCEPT ![v] = TRUE]
  /\ UNCHANGED <<lockVars, data, lock_ready, accesses, rc, pc, out, threadVars>>

\* After the loop lock_ready is read once more, and wins over lock_abort.
AfterSpin(t) ==
  /\ pc[t] = "leave"
  /\ Goto(t, IF lock_ready[t] THEN "granted" ELSE "giveup")
  /\ UNCHANGED <<lockVars, data, lock_ready, lock_abort, accesses, rc, out,
                 threadVars>>

\* Mutant of GiveUp: the request stays in the lists of the row.
GiveUp_Leak(t) ==
  /\ pc[t] = "giveup"
  /\ rc' = [rc EXCEPT ![t] = "Abort"]
  /\ Goto(t, "cleanup")
  /\ UNCHANGED <<lockVars, lock_ready, data, lock_abort, accesses, out,
                 threadVars>>

\* return_row(type, txn, NULL) withdraws the request, which may have been
\* granted since.
GiveUp(t) ==
  /\ pc[t] = "giveup"
  /\ lock_release(t, CurRow(t))
  /\ rc' = [rc EXCEPT ![t] = "Abort"]
  /\ Goto(t, "cleanup")
  /\ UNCHANGED <<data, lock_abort, accesses, out, threadVars>>

\* txn_man::get_row saves the row before a write, and run_txn works on it: a
\* write adds one to what it finds.
UseRow(t) ==
  /\ pc[t] = "granted"
  /\ accesses' = [accesses EXCEPT ![t] =
                    Append(@, [row |-> CurRow(t), type |-> Cur(t).type,
                               orig_data |-> data[CurRow(t)]])]
  /\ data' = IF Cur(t).type = "WR"
             THEN [data EXCEPT ![CurRow(t)] = @ + 1] ELSE data
  /\ Goto(t, "run")
  /\ UNCHANGED <<lockVars, lock_ready, lock_abort, rc, out, threadVars>>

\* run_txn has made all its accesses and calls finish(RCOK).
FinishTxn(t) ==
  /\ pc[t] = "run" /\ Len(accesses[t]) = Len(query[t])
  /\ rc' = [rc EXCEPT ![t] = "RCOK"]
  /\ out' = [out EXCEPT ![t] =
               [query |-> query[t],
                saw |-> [i \in DOMAIN accesses[t] |-> accesses[t][i].orig_data]]]
  /\ Goto(t, "cleanup")
  /\ UNCHANGED <<lockVars, data, lock_ready, lock_abort, accesses, threadVars>>

\* Mutant of Restored: an aborted write is not undone.
Restored_Dirty(t, a) == data[a.row]

\* The value return_row leaves in the row of access a: an aborted write (XP)
\* copies the saved row back.
Restored(t, a) ==
  IF rc[t] = "Abort" /\ a.type = "WR" THEN a.orig_data ELSE data[a.row]

\* cleanup has returned every row.
Returned(t) == accesses[t] = <<>>

\* One turn of cleanup's loop, which runs from the last access to the first.
ReturnRow(t) ==
  /\ pc[t] = "cleanup" /\ ~ Returned(t)
  /\ LET a == Last(accesses[t])
     IN /\ data' = [data EXCEPT ![a.row] = Restored(t, a)]
        /\ lock_release(t, a.row)
  /\ accesses' = [accesses EXCEPT ![t] = Front(@)]
  /\ UNCHANGED <<lock_abort, rc, pc, out, threadVars>>

------------------------------------------------------------------------------
(***************************************************************************)
(* thread_t::run                                                           *)
(***************************************************************************)

GetNextQuery(t) ==
  /\ pc[t] = "idle"
  /\ \E q \in Queries : query' = [query EXCEPT ![t] = q]
  /\ Goto(t, "run")
  /\ UNCHANGED <<lockVars, data, lock_ready, lock_abort, accesses, rc, txn_cnt,
                 sim_done, out>>

\* Mutant of LastTxn: one transaction too many.
LastTxn_Late(n) == n > MAX_TXN_PER_PART

\* The run is over for a thread that has done its share, or finds that
\* another one has.
LastTxn(n) == n >= MAX_TXN_PER_PART

TxnCommitted(t) ==
  /\ pc[t] = "cleanup" /\ Returned(t) /\ rc[t] = "RCOK"
  /\ accesses' = [accesses EXCEPT ![t] = <<>>]
  /\ LET n == txn_cnt[t] + 1
         done == sim_done \/ LastTxn(n)
     IN /\ txn_cnt' = [txn_cnt EXCEPT ![t] = n]
        /\ sim_done' = done
        /\ Goto(t, IF done THEN "finished" ELSE "idle")
  /\ UNCHANGED <<lockVars, data, lock_ready, lock_abort, query, rc, out>>

TxnAborted(t) ==
  /\ pc[t] = "cleanup" /\ Returned(t) /\ rc[t] = "Abort"
  /\ accesses' = [accesses EXCEPT ![t] = <<>>]
  /\ Goto(t, "penalty")
  /\ UNCHANGED <<lockVars, data, lock_ready, lock_abort, rc, out, threadVars>>

\* The penalty is over; the same query starts again.
Retry(t) ==
  /\ pc[t] = "penalty"
  /\ rc' = [rc EXCEPT ![t] = "RCOK"]
  /\ Goto(t, "run")
  /\ UNCHANGED <<lockVars, data, lock_ready, lock_abort, accesses, out,
                 threadVars>>

LockGet(t) == LockGranted(t) \/ LockWaits(t) \/ LockAborts(t)

Step(t) == \/ GetNextQuery(t) \/ LockGet(t)
           \/ EnterSpin(t) \/ LeaveSpin(t) \/ AfterSpin(t) \/ GiveUp(t)
           \/ UseRow(t) \/ FinishTxn(t) \/ ReturnRow(t)
           \/ TxnCommitted(t) \/ TxnAborted(t) \/ Retry(t)

\* All threads have returned from run().
Terminated == (\A t \in Threads : pc[t] = "finished") /\ UNCHANGED vars

Next == \/ \E t \in Threads : Step(t) \/ Timeout(t)
        \/ \E t, v \in Threads : Victim(t, v)
        \/ Terminated

Spec == Init /\ [][Next]_vars

\* Every worker is an operating system thread that keeps running.
FairSpec == Spec /\ \A t \in Threads : WF_vars(Step(t))

------------------------------------------------------------------------------
(***************************************************************************)
(* Correctness                                                             *)
(***************************************************************************)

Entry == [txn : Threads, type : {LOCK_EX, LOCK_SH}]
Access == [row : Rows, type : AccessType, orig_data : Nat]

\* Every variable has the type of the field it stands for, and no thread
\* commits more than MAX_TXN_PER_PART transactions (thread.cpp:152-153).
TypeOK ==
  /\ owners \in [Rows -> SUBSET Threads]
  /\ waiters \in [Rows -> Seq(Entry)]
  /\ lock_type \in [Rows -> lock_t]
  /\ data \in [Rows -> Nat]
  /\ lock_ready \in [Threads -> BOOLEAN]
  /\ lock_abort \in [Threads -> BOOLEAN]
  /\ query \in [Threads -> Queries \union {<<>>}]
  /\ accesses \in [Threads -> Seq(Access)]
  /\ rc \in [Threads -> {"RCOK", "Abort"}]
  /\ pc \in [Threads -> PC]
  /\ txn_cnt \in [Threads -> 0..MAX_TXN_PER_PART]
  /\ sim_done \in BOOLEAN

\* The mode lt of a lock is enough for an access of mode m.
Covers(lt, m) == lt = LOCK_EX \/ (lt = LOCK_SH /\ m = LOCK_SH)

\* Row r is locked for t in mode m or in a stronger one.
Holds(t, r, m) == t \in owners[r] /\ Covers(lock_type[r], m)

\* Two-phase locking is strict: from its access until cleanup returns it, a
\* transaction owns the row in a mode that covers the access, and a row owned
\* in exclusive mode has one owner.  Broken by a grant that ignores an owner,
\* a waiter woken next to a conflicting one, or a release of the wrong entry.
StrictTwoPhase ==
  /\ \A t \in Threads :
       /\ \A i \in DOMAIN accesses[t] :
            Holds(t, accesses[t][i].row, LockMode(accesses[t][i].type))
       /\ pc[t] = "granted" => Holds(t, CurRow(t), CurMode(t))
  /\ \A r \in Rows : lock_type[r] = LOCK_EX => \A t, u \in owners[r] : t = u

\* Thread t sits in the waiter list of row r.
Queued(t, r) == \E i \in DOMAIN waiters[r] : waiters[r][i].txn = t

\* The hand-over of a lock loses no wake-up: as long as a thread waits, its
\* request is either in the waiter list with lock_ready clear or among the
\* owners with lock_ready set, whatever the order in which the releasing
\* thread sets the flag and the waiter clears, reads and gives up.
WakeupNotLost ==
  \A t \in Threads :
    pc[t] \in Waiting =>
      IF lock_ready[t]
      THEN Holds(t, CurRow(t), CurMode(t)) /\ ~ Queued(t, CurRow(t))
      ELSE Queued(t, CurRow(t)) /\ t \notin owners[CurRow(t)]

\* The rows thread t has an entry for, as owner or as waiter.
RowsOf(t) == {accesses[t][i].row : i \in DOMAIN accesses[t]}
             \union (IF pc[t] \in Waiting \union {"granted"}
                     THEN {CurRow(t)} ELSE {})

\* No entry is leaked: a thread is in the lists of a row only while its
\* transaction still has that row to return, so an idle or finished thread
\* holds nothing and an aborted one starts again from nothing.
NoLeakedEntry ==
  \A t \in Threads, r \in Rows :
    t \in owners[r] \/ Queued(t, r) => r \in RowsOf(t)

\* Nobody waits without a reason: the head of a waiter list conflicts with the
\* mode of the owners, so in particular a row with waiters has an owner whose
\* release will look at them.
HeadMustWait ==
  \A r \in Rows :
    /\ waiters[r] # <<>> => conflict_lock(lock_type[r], Head(waiters[r]).type)
    /\ lock_type[r] = LOCK_NONE <=> owners[r] = {}

\* WAIT_DIE lets a transaction wait only for younger ones: no waiter of a row
\* is younger than an owner or than a waiter ahead of it, whatever has been
\* granted, promoted and inserted meanwhile (row_lock.cpp:62-65, 91-115).
WaitsForYounger ==
  CC_ALG = "WAIT_DIE" =>
    \A r \in Rows : \A i \in DOMAIN waiters[r] :
      /\ \A o \in owners[r] : Ts[waiters[r][i].txn] <= Ts[o]
      /\ \A j \in 1..(i - 1) : Ts[waiters[r][i].txn] <= Ts[waiters[r][j].txn]

\* Thread t cannot go on before thread u does.
WaitsFor(t, u) ==
  \E r \in Rows : \E i \in DOMAIN waiters[r] :
    /\ waiters[r][i].txn = t
    /\ \/ u \in owners[r]
       \/ \E j \in 1..(i - 1) : waiters[r][j].txn = u

\* No deadlock: among any threads, one is not waiting for another of them.
NoDeadlock ==
  \A S \in SUBSET Threads :
    S # {} => \E t \in S : \A u \in S : ~ WaitsFor(t, u)

\* First come, first served under DL_DETECT: whoever becomes an owner of a row
\* while others queue for it was at the head of the queue, or behind others
\* that become owners in the same step (row_lock.cpp:66-68).
NoBarging ==
  [][CC_ALG = "DL_DETECT" =>
       \A r \in Rows : \A u \in owners'[r] \ owners[r] :
         waiters[r] # <<>> =>
           \E i \in DOMAIN waiters[r] :
             /\ waiters[r][i].txn = u
             /\ \A j \in 1..i : waiters[r][j].txn \in owners'[r]
                                \/ ~ \E k \in DOMAIN waiters'[r] :
                                       waiters'[r][k] = waiters[r][j]]_vars

(***************************************************************************)
(* The committed value of a row is the saved one as long as a transaction  *)
(* that wrote it can still abort.  A transaction commits when it calls     *)
(* finish(RCOK), before it gives any lock back.                            *)
(***************************************************************************)
Committing(t) == pc[t] = "cleanup" /\ rc[t] = "RCOK"

\* Access i of thread t is a write that is not committed.
Uncommitted(t, i) == accesses[t][i].type = "WR" /\ ~ Committing(t)

CommittedData ==
  [r \in Rows |->
     IF \E t \in Threads : \E i \in DOMAIN accesses[t] :
          accesses[t][i].row = r /\ Uncommitted(t, i)
     THEN LET t == CHOOSE t \in Threads : \E i \in DOMAIN accesses[t] :
                     accesses[t][i].row = r /\ Uncommitted(t, i)
              i == CHOOSE i \in DOMAIN accesses[t] : accesses[t][i].row = r
          IN accesses[t][i].orig_data
     ELSE data[r]]

Serial == INSTANCE SerialStore WITH store <- CommittedData

\* Transactions are serializable and atomic: the locking schemes implement the
\* store that runs one transaction at a time.  No committed transaction read
\* what an aborted one wrote, saw two states of a row, or lost its write.
Serializable == Serial!Spec

\* Thread t runs a transaction that only writes, or none.
OnlyWrites(t) == \A i \in DOMAIN query[t] : query[t][i].type = "WR"

\* If transactions only write, every thread ends its run: the oldest one never
\* has to abort for ever.  Readers that take turns can keep a writer out.
WritersFinish ==
  [](\A t \in Threads : OnlyWrites(t)) => <>(\A t \in Threads : pc[t] = "finished")

==============================================================================
