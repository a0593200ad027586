------------------------------ MODULE DLDetect ------------------------------
(***************************************************************************)
(* The deadlock detector of DBx1000 (DL_detect) and the spin loop that     *)
(* runs it, under CC_ALG = DL_DETECT without NO_DL.                        *)
(*                                                                         *)
(* A thread that spins for a lock enters the transactions it waits for in  *)
(* its node of a shared graph and searches the graph for a loop, again and *)
(* again.  The search latches one node at a time, while the others enter,  *)
(* end and begin transactions.  On a loop it sets lock_abort of the        *)
(* transaction with the fewest locks.                                      *)
(*                                                                         *)
(* Row_lock is reduced to what the detector depends on: a request is       *)
(* granted or waits for some transactions that have not given their locks  *)
(* back yet, and lock_ready is set once they have.  RowLock has the lists  *)
(* that decide which they are.                                             *)
(*                                                                         *)
(* Transaction numbers are never used twice, so only one thing matters of  *)
(* a number that somebody has copied: whether its thread still runs that   *)
(* transaction.  A set of numbers is here the set of the threads of those  *)
(* that are current: a thread that takes a new number leaves all of them.  *)
(* Of a number itself only the size matters: nextNode compares it through  *)
(* 32 bits.                                                                *)
(***************************************************************************)
EXTENDS Naturals, FiniteSets, SequencesExt

CONSTANTS Threads,      \* worker threads
          Sizes,        \* bound: thread -> whether its transactions have numbers
                        \* of 2^31 or more: {FALSE}, {TRUE}, or first not, then so
          MAX_WAITS,    \* bound: thread -> how often a transaction of it waits
          MAX_SEARCHES  \* bound: searches at a time

ASSUME ConfigAssumption ==
  /\ IsFiniteSet(Threads) /\ Threads # {}
  /\ Sizes \in [Threads -> (SUBSET BOOLEAN) \ {{}}]
  /\ MAX_WAITS \in [Threads -> Nat]
  /\ MAX_SEARCHES \in Nat \ {0}

VARIABLES
  pc,
  large,        \* thread -> its transaction has a number of 2^31 or more
  wait_cnt,     \* thread -> how often its transaction has waited
  waits_for,    \* thread -> those it has to wait for before lock_ready is set
  lock_abort,   \* thread -> the flag that ends its spin
  \* DL_detect
  dependency,   \* thread -> DepThd: [txnid, adj]; txnid tells whether
                \* the node has the number of the thread's transaction
  txnids,       \* thread -> those that lock_get said it waits for
  search,       \* thread -> its spin loop and its detect_cycle
  \* history
  gave_up       \* some transaction was told to abort or timed out

txnVars == <<pc, large, wait_cnt, waits_for, gave_up>>
detectVars == <<dependency, txnids, search>>
vars == <<txnVars, lock_abort, detectVars>>

PC == {"run", "wait", "spin", "cleanup"}

NoDep == [txnid |-> FALSE, adj |-> {}]
NoId  == [thd |-> CHOOSE t \in Threads : TRUE, live |-> FALSE]

\* The spin loop before its first turn.
NewSearch == [at |-> "test", visited |-> {},
              stack |-> <<>>, victim |-> NoId]

\* Nobody runs a transaction, be it at the beginning or later.
Init ==
  /\ pc = [t \in Threads |-> "run"]
  /\ large \in {f \in [Threads -> BOOLEAN] : \A t \in Threads : f[t] \in Sizes[t]}
  /\ wait_cnt = [t \in Threads |-> 0]
  /\ waits_for = [t \in Threads |-> {}]
  /\ lock_abort = [t \in Threads |-> FALSE]
  /\ dependency = [t \in Threads |-> NoDep]
  /\ txnids = [t \in Threads |-> {}]
  /\ search = [t \in Threads |-> NewSearch]
  /\ gave_up = FALSE

Goto(t, label) == pc' = [pc EXCEPT ![t] = label]

------------------------------------------------------------------------------
(***************************************************************************)
(* The transaction                                                         *)
(***************************************************************************)

Requests(t) == pc[t] = "run" /\ wait_cnt[t] < MAX_WAITS[t]

\* lock_get puts t behind the transactions in W and returns them: they own the
\* row or wait for it.
LockWaits(t, W) ==
  /\ Requests(t)
  /\ W # {} /\ t \notin W
  /\ waits_for' = [waits_for EXCEPT ![t] = W]
  /\ txnids' = [txnids EXCEPT ![t] = W]
  /\ Goto(t, "wait")
  /\ UNCHANGED <<large, wait_cnt, gave_up, lock_abort, dependency, search>>

Waiters(t) == {u \in Threads : t \in waits_for[u]}

\* t gives back a row, or the place it waited at: those in S have waited for t
\* because of it.
Returned(t, S) == waits_for' =
  [u \in Threads |-> IF u = t THEN {} ELSE waits_for[u] \ (IF u \in S THEN {t} ELSE {})]

\* run_txn ends, well or not.
FinishTxn(t) ==
  /\ pc[t] = "run"
  /\ Goto(t, "cleanup")
  /\ UNCHANGED <<large, wait_cnt, waits_for, gave_up, lock_abort, detectVars>>

\* cleanup gives the rows back one after the other, each under its own latch.
ReturnRow(t) ==
  /\ pc[t] = "cleanup"
  /\ \E S \in SUBSET Waiters(t) : S # {} /\ Returned(t, S)
  /\ UNCHANGED <<pc, large, wait_cnt, gave_up, lock_abort, detectVars>>

clear_dep(node) == [node EXCEPT !.adj = {}, !.txnid = FALSE]

\* A search looks no more at t, whose number is stale.
LooksNoMore(call, t) == [call EXCEPT !.todo = @ \ {t}]

\* All rows are back.  The node of t is cleared, and thread_t::run gives t a new
\* number, which is greater: the copies of the old one are stale.
EndTxn(t) ==
  /\ pc[t] = "cleanup" /\ Waiters(t) = {}
  /\ \E b \in Sizes[t] : (large[t] => b) /\ large' = [large EXCEPT ![t] = b]
  /\ dependency' = [u \in Threads |->
       IF u = t THEN clear_dep(dependency[t])
       ELSE [dependency[u] EXCEPT !.adj = @ \ {t}]]
  /\ txnids' = [u \in Threads |-> txnids[u] \ {t}]
  /\ search' = [u \in Threads |->
       [search[u] EXCEPT
          !.stack = [i \in DOMAIN @ |-> LooksNoMore(@[i], t)],
          !.victim.live = @ /\ search[u].victim.thd # t]]
  /\ wait_cnt' = [wait_cnt EXCEPT ![t] = 0]
  /\ Goto(t, "run")
  /\ UNCHANGED <<waits_for, gave_up, lock_abort>>

------------------------------------------------------------------------------
(***************************************************************************)
(* The spin loop of row_t::get_row                                         *)
(***************************************************************************)

\* lock_abort is cleared after lock_get has given the latch back.
EnterSpin(t) ==
  /\ pc[t] = "wait"
  /\ lock_abort' = [lock_abort EXCEPT ![t] = FALSE]
  /\ Goto(t, "spin")
  /\ UNCHANGED <<large, wait_cnt, waits_for, gave_up, detectVars>>

lock_ready(t) == waits_for[t] = {}

\* Nobody reads the flag, the list and the search of t until its next wait,
\* which begins by setting them.
Forgotten(t) ==
  /\ lock_abort' = [lock_abort EXCEPT ![t] = FALSE]
  /\ txnids' = [txnids EXCEPT ![t] = {}]
  /\ search' = [search EXCEPT ![t] = NewSearch]

Spins(t, label) == pc[t] = "spin" /\ search[t].at = label

\* The loop finds lock_ready set, ...
LeaveSpin(t) ==
  /\ Spins(t, "test") /\ lock_ready(t)
  /\ wait_cnt' = [wait_cnt EXCEPT ![t] = @ + 1]
  /\ Goto(t, "run")
  /\ Forgotten(t)
  /\ UNCHANGED <<large, waits_for, gave_up, dependency>>

\* ... or lock_abort: the request is withdrawn and the transaction aborts.
GiveUp(t) ==
  /\ Spins(t, "test") /\ lock_abort[t] /\ ~ lock_ready(t)
  /\ \E S \in SUBSET Waiters(t) : Returned(t, S)
  /\ gave_up' = TRUE
  /\ Goto(t, "cleanup")
  /\ Forgotten(t)
  /\ UNCHANGED <<large, wait_cnt, dependency>>

------------------------------------------------------------------------------
(***************************************************************************)
(* DL_detect                                                               *)
(***************************************************************************)

\* Mutant of add_dep: only the dependencies of a first wait are entered.
add_dep_Once(t) ==
  dependency' = [dependency EXCEPT ![t] =
    [txnid |-> TRUE, adj |-> IF @.txnid THEN @.adj ELSE txnids[t]]]

\* The dependencies of earlier waits of the transaction stay.  Under DL_DETECT
\* nobody who comes later gets ahead of a waiter (NoBarging in RowLock), so t
\* waits for nobody else until the wait ends.
add_dep(t) ==
  dependency' = [dependency EXCEPT ![t] =
    [txnid |-> TRUE, adj |-> @.adj \union txnids[t]]]

\* A call of nextNode: it copies the dependencies of the node under its latch.
Call(u, node) == [thd |-> u, todo |-> node.adj]

\* The calls of nextNode that go on: one with nothing left to look at returns,
\* unless it is waiting for an inner one.
Trim(stack) ==
  LET open == {i \in DOMAIN stack : stack[i].todo # {}}
  IN SubSeq(stack, 1, CHOOSE n \in open \union {0} : \A i \in open : i <= n)

\* The search of t goes on with the calls in stack, or has found no loop.
Continues(t, visited, stack) ==
  LET done == Trim(stack) = <<>>
  IN search' = [search EXCEPT ![t] =
       [@ EXCEPT !.at = IF done THEN "test" ELSE "look",
                 !.visited = IF done THEN {} ELSE visited, !.stack = Trim(stack)]]

MayDetect ==
  Cardinality({u \in Threads : search[u].at \notin {"test", "add"}}) < MAX_SEARCHES

\* A turn of the loop: the flags are clear and DL_LOOP_DETECT is over.  The
\* first time t has to enter its node, ...
AddDep(t) ==
  /\ Spins(t, "add")
  /\ add_dep(t)
  /\ txnids' = [txnids EXCEPT ![t] = {}]
  /\ search' = [search EXCEPT ![t].at = "test"]
  /\ UNCHANGED <<txnVars, lock_abort>>

\* ... and detect_cycle begins with it.
TakeTurn(t) ==
  /\ Spins(t, "test") /\ ~ lock_ready(t) /\ ~ lock_abort[t]
  /\ IF txnids[t] = {}
     THEN MayDetect /\ Continues(t, {t}, <<Call(t, dependency[t])>>)
     ELSE search' = [search EXCEPT ![t].at = "add"]
  /\ UNCHANGED <<txnVars, lock_abort, dependency, txnids>>

\* Mutant of Victims: the way to the loop counts as part of it.
Victims_Outer(stack, first) == {stack[i].thd : i \in DOMAIN stack}

\* The calls on the loop, which begins at the first one.  The victim is the one
\* of them with the fewest locks.
Victims(stack, first) == {stack[i].thd : i \in first..Len(stack)}

\* (SInt32)txnids[n] == dependency[nextthd].txnid: the number of the node, cut to
\* 32 bits with a sign, is compared with all of it.
SameTxn32(u) == dependency[u].txnid /\ ~ large[u]

\* nextNode looks at one more dependency u of the innermost call: it closes a
\* loop (recStack), or is a node to go on with, or is stale or visited before.
\* (That u is not stale is checked again under the latch of its node; if it has
\* ended since, it counts as visited, for this search only.)
LookAt(t, u) ==
  /\ Spins(t, "look")
  /\ LET top   == Len(search[t].stack)
         stack == [search[t].stack EXCEPT ![top].todo = @ \ {u}]
         onstack == {i \in DOMAIN stack : stack[i].thd = u}
     IN /\ u \in search[t].stack[top].todo
        /\ \/ /\ SameTxn32(u)
              /\ \E first \in onstack : \E v \in Victims(stack, first) :
                   search' = [search EXCEPT ![t] =
                     [@ EXCEPT !.at = "check", !.visited = {}, !.stack = <<>>,
                               !.victim = [thd |-> v, live |-> TRUE]]]
           \/ /\ dependency[u].txnid /\ u \notin search[t].visited
              /\ Continues(t, search[t].visited \union {u},
                           Append(stack, Call(u, dependency[u])))
           \/ /\ onstack = {} \/ ~ SameTxn32(u)
              /\ u \in search[t].visited \/ ~ dependency[u].txnid
              /\ Continues(t, search[t].visited, stack)
  /\ UNCHANGED <<txnVars, lock_abort, dependency, txnids>>

\* What was left to look at has become stale.
NothingLeft(t) ==
  /\ Spins(t, "look") /\ Last(search[t].stack).todo = {}
  /\ Continues(t, search[t].visited, search[t].stack)
  /\ UNCHANGED <<txnVars, lock_abort, dependency, txnids>>

\* detect_cycle checks that the victim still runs its transaction ...
CheckVictim(t) ==
  /\ Spins(t, "check")
  /\ LET id == search[t].victim
     IN search' = [search EXCEPT ![t] =
          IF id.live /\ dependency[id.thd].txnid THEN [@ EXCEPT !.at = "abort"]
          ELSE [@ EXCEPT !.at = "test", !.victim = NoId]]
  /\ UNCHANGED <<txnVars, lock_abort, dependency, txnids>>

\* ... and then tells it to abort.  A thread that does not spin clears the flag
\* before it looks at it.
AbortVictim(t) ==
  /\ Spins(t, "abort")
  /\ LET v == search[t].victim.thd
     IN lock_abort' = [lock_abort EXCEPT ![v] = @ \/ pc[v] = "spin"]
  /\ search' = [search EXCEPT ![t].at = "test", ![t].victim = NoId]
  /\ UNCHANGED <<txnVars, dependency, txnids>>

Detect(t) == \/ TakeTurn(t) \/ AddDep(t) \/ NothingLeft(t) \/ CheckVictim(t)
             \/ AbortVictim(t) \/ \E u \in Threads : LookAt(t, u)

Step(t) == \/ FinishTxn(t) \/ ReturnRow(t)
           \/ EndTxn(t) \/ EnterSpin(t) \/ LeaveSpin(t) \/ GiveUp(t)
           \/ Detect(t)
           \/ \E W \in SUBSET Threads : LockWaits(t, W)

Next == \E t \in Threads : Step(t)

Spec == Init /\ [][Next]_vars

\* Threads keep running.  That a search has to begin when others do not search
\* comes from the bound MAX_SEARCHES only; it does not keep a thread from its
\* turn for ever.
FairSpec == Spec /\ \A t \in Threads : WF_vars(Step(t)) /\ SF_vars(TakeTurn(t))

------------------------------------------------------------------------------
(***************************************************************************)
(* Correctness                                                             *)
(***************************************************************************)

\* t waits for itself, directly or not: it is in every set that has all those
\* it waits for and all those that its members wait for.
OnLoop(t) ==
  \A S \in SUBSET Threads :
    waits_for[t] \subseteq S /\ (\A u \in S : waits_for[u] \subseteq S) => t \in S

\* The first alarm is not false: until some transaction has given up, what the
\* detector takes for a victim is on a loop of transactions that wait for each
\* other, although it keeps the dependencies of waits that are over and reads
\* the nodes at different times (dl_detect.cpp:27-28, 100).  Afterwards it may
\* see a loop that is gone.
FirstAlarmRight ==
  ~ gave_up =>
    \A t \in Threads : pc[t] = "spin" /\ search[t].at \in {"check", "abort"} =>
      OnLoop(search[t].victim.thd)

\* The detector breaks every deadlock, without a timeout, that has a transaction
\* with a number below 2^31 on it (of the others it finds no loop,
\* dl_detect.cpp:67): its victim may be gone or may miss the flag,
\* which get_row clears late (row.cpp:145), and the search may stop at a loop that
\* is no more, but then it searches again.
DeadlockBroken == []<>(\A t \in Threads : OnLoop(t) => large[t])
==============================================================================
