---------------------------- MODULE RowLockProofs ----------------------------
(***************************************************************************)
(* Proofs about RowLock for every set of threads, rows and queries, every  *)
(* assignment of timestamps and all three values of CC_ALG.                *)
(*                                                                         *)
(* The argument: the two lists of a row are determined by where the        *)
(* threads are.  A thread is an owner of exactly the rows it Has and       *)
(* sits in the waiter list of exactly the row it is Pending on.  This,     *)
(* with the mode of each row and the rule that its first waiter conflicts  *)
(* with it, is inductive, and the properties follow from it.               *)
(***************************************************************************)
EXTENDS RowLock, SeqLemmas, SequenceTheorems, FiniteSetTheorems, WellFoundedInduction, TLAPS

------------------------------------------------------------------------------
(***************************************************************************)
(* The inductive invariant                                                 *)
(***************************************************************************)

\* The lock of the current request is t's.
Got(t) == pc[t] = "granted" \/ (pc[t] \in Waiting /\ lock_ready[t])

\* The current request of t is queued.
Pending(t) == pc[t] \in Waiting /\ ~ lock_ready[t]

\* Thread t has, by its own account, a lock on row r, or an exclusive one.
Has(t, r) ==
  \/ \E i \in 1..Len(accesses[t]) : accesses[t][i].row = r
  \/ Got(t) /\ CurRow(t) = r

HasExclusive(t, r) ==
  \/ \E i \in 1..Len(accesses[t]) :
       accesses[t][i].row = r /\ LockMode(accesses[t][i].type) = LOCK_EX
  \/ Got(t) /\ CurRow(t) = r /\ CurMode(t) = LOCK_EX

\* The accesses of t are a prefix of its query, and it runs only as long as it
\* may still commit.
Progress(t) ==
  /\ Len(accesses[t]) <= Len(query[t])
  /\ \A i \in 1..Len(accesses[t]) :
       /\ accesses[t][i].row = query[t][i].row
       /\ accesses[t][i].type = query[t][i].type
  /\ pc[t] \in Waiting \union {"granted"} => Len(accesses[t]) < Len(query[t])
  /\ pc[t] \in {"idle", "penalty", "finished"} => accesses[t] = <<>>
  /\ pc[t] # "finished" => txn_cnt[t] < MAX_TXN_PER_PART

\* The owners of r are the threads that have it; its mode fits them.
OwnersExact(r) ==
  /\ \A t \in Threads : t \in owners[r] <=> Has(t, r)
  /\ \A t \in Threads : HasExclusive(t, r) => lock_type[r] = LOCK_EX

\* The entries ws of a waiter list are of different threads.
OneEach(ws) == \A i, j \in 1..Len(ws) : ws[i].txn = ws[j].txn => i = j

\* The waiter list of r holds the pending requests for r, one each.
WaitersExact(r) ==
  /\ OneEach(waiters[r])
  /\ \A i \in 1..Len(waiters[r]) :
       LET w == waiters[r][i]
       IN Pending(w.txn) /\ CurRow(w.txn) = r /\ CurMode(w.txn) = w.type
  /\ \A t \in Threads :
       Pending(t) /\ CurRow(t) = r =>
         \E i \in 1..Len(waiters[r]) : waiters[r][i].txn = t

\* A mode and a set of owners that go together.
ModeFits(own, lt) ==
  /\ lt = LOCK_NONE <=> own = {}
  /\ lt = LOCK_EX => \A a, b \in own : a = b

\* The first of the waiters ws conflicts with the mode.
Blocked(lt, ws) == ws # <<>> => conflict_lock(lt, Head(ws).type)

RowInv(r) ==
  /\ OwnersExact(r)
  /\ WaitersExact(r)
  /\ ModeFits(owners[r], lock_type[r])
  /\ Blocked(lock_type[r], waiters[r])

IInv == /\ TypeOK
        /\ \A t \in Threads : Progress(t)
        /\ \A r \in Rows : RowInv(r)

------------------------------------------------------------------------------
(***************************************************************************)
(* Queries and requests                                                    *)
(***************************************************************************)

\* What a waiter list holds.
LEMMA EntryLemma ==
  ASSUME NEW ws \in Seq(Entry)
  PROVE  /\ Len(ws) \in Nat
         /\ \A i \in 1..Len(ws) : /\ ws[i] \in Entry /\ ws[i].txn \in Threads
                                  /\ ws[i].type \in {LOCK_EX, LOCK_SH}
  <1>1. \A i \in 1..Len(ws) : ws[i] \in Entry
    BY ElementOfSeq
  <1> QED BY <1>1 DEF Entry

\* A request is for a row of the database, in one of the two modes, and the
\* row is none of those the transaction has already accessed.
LEMMA RequestLemma ==
  ASSUME TypeOK, NEW t \in Threads, Progress(t), Len(accesses[t]) < Len(query[t])
  PROVE  /\ Len(accesses[t]) \in Nat /\ Len(accesses[t]) + 1 \in 1..Len(query[t])
         /\ query[t] \in Queries
         /\ Cur(t) \in [row : Rows, type : AccessType]
         /\ CurRow(t) \in Rows
         /\ CurMode(t) \in {LOCK_EX, LOCK_SH}
         /\ \A i \in 1..Len(accesses[t]) : accesses[t][i].row # CurRow(t)
  <1>1. accesses[t] \in Seq(Access) /\ Len(accesses[t]) \in Nat
    BY DEF TypeOK
  <1>2. query[t] \in Queries
    <2>1. query[t] \in Queries \union {<<>>}
      BY DEF TypeOK
    <2>2. query[t] # <<>>
      BY <1>1
    <2> QED BY <2>1, <2>2
  <1>3. /\ query[t] \in Seq([row : Rows, type : AccessType])
        /\ \A i, j \in DOMAIN query[t] :
             query[t][i].row = query[t][j].row => i = j
    BY <1>2, QueriesAssumption
  <1>4. /\ Len(query[t]) \in Nat /\ DOMAIN query[t] = 1..Len(query[t])
        /\ Len(accesses[t]) + 1 \in 1..Len(query[t])
    BY <1>1, <1>3
  <1>5. Cur(t) \in [row : Rows, type : AccessType]
    <2>1. query[t][Len(accesses[t]) + 1] \in [row : Rows, type : AccessType]
      BY <1>3, <1>4, ElementOfSeq
    <2> QED BY <2>1 DEF Cur
  <1>6. CurRow(t) \in Rows /\ CurMode(t) \in {LOCK_EX, LOCK_SH}
    BY <1>5 DEF CurRow, CurMode, LockMode
  <1>7. ASSUME NEW i \in 1..Len(accesses[t])
        PROVE  accesses[t][i].row # CurRow(t)
    <2>1. i \in 1..Len(query[t]) /\ i # Len(accesses[t]) + 1
      BY <1>1, <1>4
    <2>2. accesses[t][i].row = query[t][i].row
      BY DEF Progress
    <2> QED BY <2>1, <2>2, <1>3, <1>4 DEF CurRow, Cur
  <1> QED BY <1>1, <1>2, <1>4, <1>5, <1>6, <1>7

------------------------------------------------------------------------------
(***************************************************************************)
(* The loop that lets waiters join                                         *)
(***************************************************************************)

\* The waiters that join have all the same mode; it is the mode of the owners
\* that were left, if any, it fits the new owners, and the next waiter
\* conflicts with it.
LEMMA JoinLemma ==
  ASSUME NEW own \in SUBSET Threads, NEW lt \in lock_t, NEW ws \in Seq(Entry),
         ModeFits(own, lt), NEW k \in 0..Len(ws), Joins(lt, ws, k)
  PROVE  LET joined == {ws[i].txn : i \in 1..k}
             mode == IF k = 0 THEN lt ELSE ws[k].type
             rest == SubSeq(ws, k + 1, Len(ws))
         IN /\ mode \in lock_t
            /\ \A i \in 1..k : ws[i].type = mode
            /\ own # {} => mode = lt
            /\ ModeFits(own \union joined, mode)
            /\ Blocked(mode, rest)
  <1> DEFINE joined == {ws[i].txn : i \in 1..k}
             mode == IF k = 0 THEN lt ELSE ws[k].type
             rest == SubSeq(ws, k + 1, Len(ws))
             before(i) == IF i = 1 THEN lt ELSE ws[i - 1].type
  <1> USE DEF LOCK_EX, LOCK_SH, LOCK_NONE, lock_t, conflict_lock
  <1>1. \A i \in 1..Len(ws) : ws[i].txn \in Threads /\ ws[i].type \in {LOCK_EX, LOCK_SH}
    BY EntryLemma
  <1>2. /\ \A i \in 1..k : ~ conflict_lock(before(i), ws[i].type)
        /\ k < Len(ws) => conflict_lock(before(k + 1), ws[k + 1].type)
    BY DEF Joins
  <1>3. \A i \in 2..k : ws[i - 1].type = LOCK_SH /\ ws[i].type = LOCK_SH
    <2> TAKE i \in 2..k
    <2>1. i \in 1..k /\ i # 1 /\ i - 1 \in 1..Len(ws) /\ i \in 1..Len(ws)
      OBVIOUS
    <2>2. ~ conflict_lock(ws[i - 1].type, ws[i].type)
      BY <2>1, <1>2
    <2> QED BY <2>1, <2>2, <1>1
  <1>4. k > 1 => \A i \in 1..k : ws[i].type = LOCK_SH
    <2> SUFFICES ASSUME k > 1, NEW i \in 1..k PROVE ws[i].type = LOCK_SH
      OBVIOUS
    <2>1. CASE i = 1
      <3>1. 2 \in 2..k /\ 2 - 1 = 1
        OBVIOUS
      <3> QED BY <3>1, <2>1, <1>3
    <2>2. CASE i # 1
      BY <2>2, <1>3
    <2> QED BY <2>1, <2>2
  <1>5. \A i \in 1..k : ws[i].type = mode
    <2> TAKE i \in 1..k
    <2>1. CASE k > 1
      BY <2>1, <1>4
    <2>2. CASE k = 1
      BY <2>2
    <2> QED BY <2>1, <2>2
  <1>6. mode \in lock_t
    BY <1>1
  <1>7. k > 0 => lt = LOCK_NONE \/ (lt = LOCK_SH /\ mode = LOCK_SH)
    <2> SUFFICES ASSUME k > 0 PROVE lt = LOCK_NONE \/ (lt = LOCK_SH /\ mode = LOCK_SH)
      OBVIOUS
    <2>1. 1 \in 1..k /\ 1 \in 1..Len(ws)
      OBVIOUS
    <2>2. ~ conflict_lock(lt, ws[1].type) /\ ws[1].type = mode
      BY <2>1, <1>2, <1>5
    <2> QED BY <2>1, <2>2, <1>1
  <1>8. own # {} => mode = lt
    BY <1>7 DEF ModeFits
  <1>9. ModeFits(own \union joined, mode)
    <2>1. CASE k = 0
      <3>1. joined = {} /\ mode = lt
        BY <2>1
      <3> QED BY <3>1
    <2>2. CASE k > 0
      <3>1. ws[1].txn \in joined /\ mode # LOCK_NONE
        BY <2>2, <1>1
      <3>2. mode = LOCK_EX => own = {} /\ k = 1
        <4>1. k > 1 => mode = LOCK_SH
          BY <1>4
        <4> QED BY <2>2, <1>7, <4>1 DEF ModeFits
      <3>3. k = 1 => joined = {ws[1].txn}
        OBVIOUS
      <3> QED BY <3>1, <3>2, <3>3 DEF ModeFits
    <2> QED BY <2>1, <2>2
  <1>10. Blocked(mode, rest)
    <2> SUFFICES ASSUME rest # <<>> PROVE conflict_lock(mode, Head(rest).type)
      BY DEF Blocked
    <2>1. rest \in Seq(Entry) /\ Len(rest) = Len(ws) - k
          /\ \A i \in 1..(Len(ws) - k) : rest[i] = ws[k + i]
      BY SuffixLemma
    <2>2. k < Len(ws) /\ Head(rest) = ws[k + 1]
      BY <2>1
    <2>3. before(k + 1) = mode
      OBVIOUS
    <2> QED BY <2>2, <2>3, <1>2
  <1> QED BY <1>5, <1>6, <1>8, <1>9, <1>10

------------------------------------------------------------------------------
(***************************************************************************)
(* lock_release                                                            *)
(***************************************************************************)

\* List v is list w without some of its entries, in the order they had.
Thinned(v, w) ==
  /\ \A i \in 1..Len(v) : \E a \in 1..Len(w) : v[i] = w[a]
  /\ \A i, j \in 1..Len(v) :
       i < j => \E a, b \in 1..Len(w) : a < b /\ v[i] = w[a] /\ v[j] = w[b]

\* Whoever is not in U stays in the list.
KeepsBut(v, w, U) ==
  \A a \in 1..Len(w) : w[a].txn \notin U => \E i \in 1..Len(v) : v[i] = w[a]

\* What a release by t does to row r, where the threads in joined are handed
\* the lock: everything the other actions need to know of it.
Released(t, r, joined) ==
  /\ owners' = [owners EXCEPT ![r] = (owners[r] \ {t}) \union joined]
  /\ waiters' \in [Rows -> Seq(Entry)]
  /\ lock_type' \in [Rows -> lock_t]
  /\ lock_ready' = [u \in Threads |-> lock_ready[u] \/ u \in joined]
  /\ \A q \in Rows \ {r} : waiters'[q] = waiters[q] /\ lock_type'[q] = lock_type[q]
  /\ t \notin joined
  /\ \A u \in joined : \E a \in 1..Len(waiters[r]) :
       waiters[r][a].txn = u /\ waiters[r][a].type = lock_type'[r]
  /\ \A i \in 1..Len(waiters'[r]) :
       /\ waiters'[r][i].txn \notin joined \union {t}
       /\ \A u \in joined : \E a, b \in 1..Len(waiters[r]) :
            a < b /\ waiters[r][a].txn = u /\ waiters[r][b] = waiters'[r][i]
  /\ Thinned(waiters'[r], waiters[r])
  /\ KeepsBut(waiters'[r], waiters[r], joined \union {t})
  /\ owners[r] \ {t} # {} => lock_type'[r] = lock_type[r]
  /\ ModeFits(owners'[r], lock_type'[r])
  /\ Blocked(lock_type'[r], waiters'[r])

\* The same for the part of lock_release that follows the removal of the
\* caller's entry, which leaves the owners own, the mode lt and the waiters ws.
LEMMA LetJoinLemma ==
  ASSUME TypeOK, NEW t \in Threads, NEW r \in Rows,
         NEW lt \in lock_t, NEW ws \in Seq(Entry),
         LetJoin(r, owners[r] \ {t}, lt, ws),
         ModeFits(owners[r] \ {t}, lt),
         owners[r] \ {t} # {} => lt = lock_type[r],
         OneEach(ws), Thinned(ws, waiters[r]),
         KeepsBut(ws, waiters[r], {t}),
         \A i \in 1..Len(ws) : ws[i].txn # t
  PROVE  \E joined \in SUBSET Threads : Released(t, r, joined)
  <1> DEFINE own == owners[r] \ {t}
  <1>1. PICK k \in 0..Len(ws) :
          /\ Joins(lt, ws, k)
          /\ owners' = [owners EXCEPT ![r] = own \union {ws[i].txn : i \in 1..k}]
          /\ waiters' = [waiters EXCEPT ![r] = SubSeq(ws, k + 1, Len(ws))]
          /\ lock_type' = [lock_type EXCEPT ![r] = IF k = 0 THEN lt ELSE ws[k].type]
          /\ lock_ready' = [u \in Threads |->
                              lock_ready[u] \/ u \in {ws[i].txn : i \in 1..k}]
    BY DEF LetJoin, Woken
  <1> DEFINE joined == {ws[i].txn : i \in 1..k}
             mode == IF k = 0 THEN lt ELSE ws[k].type
             rest == SubSeq(ws, k + 1, Len(ws))
  <1>2. /\ owners \in [Rows -> SUBSET Threads]
        /\ waiters \in [Rows -> Seq(Entry)]
        /\ lock_type \in [Rows -> lock_t]
    BY DEF TypeOK
  <1>3. \A i \in 1..Len(ws) : ws[i] \in Entry /\ ws[i].txn \in Threads
    BY EntryLemma
  <1>4. /\ mode \in lock_t
        /\ \A i \in 1..k : ws[i].type = mode
        /\ own # {} => mode = lt
        /\ ModeFits(own \union joined, mode)
        /\ Blocked(mode, rest)
    BY <1>1, <1>2, JoinLemma
  <1>5. /\ rest \in Seq(Entry) /\ Len(rest) = Len(ws) - k
        /\ \A i \in 1..(Len(ws) - k) : rest[i] = ws[k + i]
    BY SuffixLemma
  <1> HIDE DEF rest, mode
  <1>5a. Len(ws) \in Nat
    OBVIOUS
  <1>5b. ASSUME NEW i \in 1..Len(rest)
         PROVE  k + i \in 1..Len(ws) /\ rest[i] = ws[k + i]
    <2>1. i \in 1..(Len(ws) - k)
      BY <1>5
    <2>2. k + i \in 1..Len(ws)
      BY <2>1, <1>5a
    <2> QED BY <2>1, <2>2, <1>5
  <1>6. owners'[r] = own \union joined /\ waiters'[r] = rest /\ lock_type'[r] = mode
    BY <1>1, <1>2 DEF rest, mode
  <1>7. /\ waiters' \in [Rows -> Seq(Entry)] /\ lock_type' \in [Rows -> lock_t]
        /\ \A q \in Rows \ {r} : waiters'[q] = waiters[q] /\ lock_type'[q] = lock_type[q]
    BY <1>1, <1>2, <1>4, <1>5 DEF rest, mode
  <1>8. joined \in SUBSET Threads /\ t \notin joined
    BY <1>3
  <1>9. ASSUME NEW u \in joined
        PROVE  \E a \in 1..Len(waiters[r]) :
                 waiters[r][a].txn = u /\ waiters[r][a].type = mode
    <2>1. PICK i \in 1..k : ws[i].txn = u
      OBVIOUS
    <2>2. i \in 1..Len(ws) /\ ws[i].type = mode
      BY <1>4
    <2> QED BY <2>1, <2>2 DEF Thinned
  <1>10. ASSUME NEW i \in 1..Len(rest)
         PROVE  /\ rest[i].txn \notin joined \union {t}
                /\ \A u \in joined : \E a, b \in 1..Len(waiters[r]) :
                     a < b /\ waiters[r][a].txn = u /\ waiters[r][b] = rest[i]
    <2>1. k + i \in 1..Len(ws) /\ rest[i] = ws[k + i]
      BY <1>5b
    <2>2. ASSUME NEW j \in 1..k
          PROVE  /\ rest[i].txn # ws[j].txn
                 /\ \E a, b \in 1..Len(waiters[r]) :
                      a < b /\ waiters[r][a] = ws[j] /\ waiters[r][b] = rest[i]
      <3>1. j \in 1..Len(ws) /\ j < k + i
        OBVIOUS
      <3>2. ws[j].txn # ws[k + i].txn
        BY <2>1, <3>1 DEF OneEach
      <3>3. \E a, b \in 1..Len(waiters[r]) :
               a < b /\ ws[j] = waiters[r][a] /\ ws[k + i] = waiters[r][b]
        BY <2>1, <3>1 DEF Thinned
      <3> QED BY <2>1, <3>2, <3>3
    <2>3. rest[i].txn # t
      BY <2>1
    <2>4. ASSUME NEW u \in joined
          PROVE  /\ rest[i].txn # u
                 /\ \E a, b \in 1..Len(waiters[r]) :
                      a < b /\ waiters[r][a].txn = u /\ waiters[r][b] = rest[i]
      <3>1. PICK j \in 1..k : ws[j].txn = u
        OBVIOUS
      <3>2. PICK a \in 1..Len(waiters[r]), b \in 1..Len(waiters[r]) :
              a < b /\ waiters[r][a] = ws[j] /\ waiters[r][b] = rest[i]
        BY <2>2
      <3> QED BY <2>2, <3>1, <3>2
    <2> HIDE DEF joined
    <2> QED BY <2>3, <2>4
  <1>11. Thinned(rest, waiters[r])
    <2>1. ASSUME NEW i \in 1..Len(rest)
          PROVE  k + i \in 1..Len(ws) /\ rest[i] = ws[k + i]
      BY <1>5b
    <2>2. ASSUME NEW i \in 1..Len(rest)
          PROVE  \E a \in 1..Len(waiters[r]) : rest[i] = waiters[r][a]
      BY <2>1 DEF Thinned
    <2>3. ASSUME NEW i \in 1..Len(rest), NEW j \in 1..Len(rest), i < j
          PROVE  \E a, b \in 1..Len(waiters[r]) :
                   a < b /\ rest[i] = waiters[r][a] /\ rest[j] = waiters[r][b]
      <3>1. k + i < k + j
        <4>1. i \in Int /\ j \in Int /\ k \in Int
          OBVIOUS
        <4> QED BY <2>3, <4>1
      <3>2. /\ k + i \in 1..Len(ws) /\ rest[i] = ws[k + i]
            /\ k + j \in 1..Len(ws) /\ rest[j] = ws[k + j]
        BY <2>1
      <3>3. \E a, b \in 1..Len(waiters[r]) :
               a < b /\ ws[k + i] = waiters[r][a] /\ ws[k + j] = waiters[r][b]
        BY <3>1, <3>2 DEF Thinned
      <3> QED BY <3>2, <3>3
    <2> QED BY <2>2, <2>3 DEF Thinned
  <1>12. KeepsBut(rest, waiters[r], joined \union {t})
    <2> SUFFICES ASSUME NEW a \in 1..Len(waiters[r]),
                        waiters[r][a].txn \notin joined \union {t}
                 PROVE  \E i \in 1..Len(rest) : rest[i] = waiters[r][a]
      BY DEF KeepsBut
    <2>1. PICK i \in 1..Len(ws) : ws[i] = waiters[r][a]
      BY DEF KeepsBut
    <2>2. ~ (i \in 1..k)
      BY <2>1
    <2>3. i - k \in 1..Len(rest) /\ k + (i - k) = i
      BY <2>2, <1>5
    <2>4. rest[i - k] = ws[i]
      BY <2>3, <1>5
    <2> QED BY <2>1, <2>3, <2>4
  <1>13. /\ owners' = [owners EXCEPT ![r] = (owners[r] \ {t}) \union joined]
         /\ lock_ready' = [u \in Threads |-> lock_ready[u] \/ u \in joined]
    BY <1>1
  <1>14. /\ owners[r] \ {t} # {} => lock_type'[r] = lock_type[r]
         /\ ModeFits(owners'[r], lock_type'[r])
         /\ Blocked(lock_type'[r], waiters'[r])
    BY <1>4, <1>6
  <1> HIDE DEF joined
  <1>15. /\ \A u \in joined : \E a \in 1..Len(waiters[r]) :
             waiters[r][a].txn = u /\ waiters[r][a].type = lock_type'[r]
         /\ \A i \in 1..Len(waiters'[r]) :
             /\ waiters'[r][i].txn \notin joined \union {t}
             /\ \A u \in joined : \E a, b \in 1..Len(waiters[r]) :
                  a < b /\ waiters[r][a].txn = u /\ waiters[r][b] = waiters'[r][i]
         /\ Thinned(waiters'[r], waiters[r])
         /\ KeepsBut(waiters'[r], waiters[r], joined \union {t})
    BY <1>6, <1>9, <1>10, <1>11, <1>12
  <1>16. Released(t, r, joined)
    BY <1>7, <1>8, <1>13, <1>14, <1>15 DEF Released
  <1> QED BY <1>8, <1>16

\* A thread is never both an owner of a row and in its waiter list.
LEMMA OwnerNotQueued ==
  ASSUME IInv, NEW t \in Threads, NEW r \in Rows, t \in owners[r],
         NEW i \in 1..Len(waiters[r])
  PROVE  waiters[r][i].txn # t
  <1> SUFFICES ASSUME waiters[r][i].txn = t PROVE FALSE
    OBVIOUS
  <1>1. Pending(t) /\ CurRow(t) = r
    BY DEF IInv, RowInv, WaitersExact
  <1>2. PICK j \in 1..Len(accesses[t]) : accesses[t][j].row = r
    <2>1. Has(t, r)
      BY DEF IInv, RowInv, OwnersExact
    <2> QED BY <2>1, <1>1 DEF Has, Got, Pending, Waiting
  <1>3. Progress(t) /\ TypeOK /\ Len(accesses[t]) < Len(query[t])
    BY <1>1 DEF IInv, Progress, Pending
  <1> QED BY <1>1, <1>2, <1>3, RequestLemma

\* The release of any entry, an owner's or a waiter's.
LEMMA ReleaseLemma ==
  ASSUME IInv, NEW t \in Threads, NEW r \in Rows, lock_release(t, r)
  PROVE  \E joined \in SUBSET Threads : Released(t, r, joined)
  <1>1. /\ TypeOK
        /\ owners \in [Rows -> SUBSET Threads]
        /\ waiters[r] \in Seq(Entry)
        /\ lock_type[r] \in lock_t
    BY DEF IInv, TypeOK
  <1>2. /\ OneEach(waiters[r])
        /\ ModeFits(owners[r], lock_type[r])
    BY DEF IInv, RowInv, WaitersExact
  <1>3. CASE t \in owners[r]
    <2> DEFINE lt == ModeWith(r, owners[r] \ {t})
    <2>1. LetJoin(r, owners[r] \ {t}, lt, waiters[r])
      BY <1>3 DEF lock_release
    <2>2. /\ lt \in lock_t /\ ModeFits(owners[r] \ {t}, lt)
          /\ owners[r] \ {t} # {} => lt = lock_type[r]
      BY <1>1, <1>2 DEF ModeWith, ModeFits, lock_t, LOCK_NONE, LOCK_EX, LOCK_SH
    <2>3. \A i \in 1..Len(waiters[r]) : waiters[r][i].txn # t
      BY <1>3, OwnerNotQueued
    <2>4. Thinned(waiters[r], waiters[r]) /\ KeepsBut(waiters[r], waiters[r], {t})
      BY DEF Thinned, KeepsBut
    <2> HIDE DEF lt
    <2> QED BY <1>1, <1>2, <2>1, <2>2, <2>3, <2>4, LetJoinLemma
  <1>4. CASE t \notin owners[r]
    <2>1. PICK n \in 1..Len(waiters[r]) :
            /\ waiters[r][n].txn = t
            /\ LetJoin(r, owners[r], lock_type[r], RemoveAt(waiters[r], n))
      BY <1>4 DEF lock_release
    <2> DEFINE w == waiters[r]
               ws == RemoveAt(waiters[r], n)
    <2>2. /\ ws \in Seq(Entry) /\ Len(ws) = Len(w) - 1
          /\ \A i \in 1..(Len(w) - 1) : ws[i] = IF i < n THEN w[i] ELSE w[i + 1]
      BY <1>1, RemoveLemma
    <2>3. owners[r] \ {t} = owners[r]
      BY <1>4
    <2> HIDE DEF ws
    <2>4. ASSUME NEW i \in 1..Len(ws)
          PROVE  \E a \in 1..Len(w) :
                   a # n /\ ws[i] = w[a] /\ a = IF i < n THEN i ELSE i + 1
      <3>1. CASE i < n
        BY <3>1, <2>2
      <3>2. CASE ~ (i < n)
        <4>1. i + 1 \in 1..Len(w) /\ i + 1 # n
          BY <3>2, <2>2
        <4> QED BY <3>2, <4>1, <2>2
      <3> QED BY <3>1, <3>2
    <2>5. \A i \in 1..Len(ws) : ws[i].txn # t
      BY <2>1, <2>4, <1>2 DEF OneEach
    <2>6. Thinned(ws, w)
      <3>1. ASSUME NEW i \in 1..Len(ws), NEW j \in 1..Len(ws), i < j
            PROVE  \E a, b \in 1..Len(w) : a < b /\ ws[i] = w[a] /\ ws[j] = w[b]
        <4>1. PICK a \in 1..Len(w) : ws[i] = w[a] /\ a = IF i < n THEN i ELSE i + 1
          BY <2>4
        <4>2. PICK b \in 1..Len(w) : ws[j] = w[b] /\ b = IF j < n THEN j ELSE j + 1
          BY <2>4
        <4>3. a < b
          BY <3>1, <4>1, <4>2
        <4> QED BY <4>1, <4>2, <4>3
      <3> QED BY <2>4, <3>1 DEF Thinned
    <2>7. KeepsBut(ws, w, {t})
      <3> SUFFICES ASSUME NEW a \in 1..Len(w), w[a].txn \notin {t}
                   PROVE  \E i \in 1..Len(ws) : ws[i] = w[a]
        BY DEF KeepsBut
      <3>1. a # n
        BY <2>1
      <3>2. CASE a < n
        <4>1. a \in 1..(Len(w) - 1)
          BY <3>2
        <4> QED BY <3>2, <4>1, <2>2
      <3>3. CASE ~ (a < n)
        <4>1. a - 1 \in 1..(Len(w) - 1) /\ ~ (a - 1 < n) /\ (a - 1) + 1 = a
          BY <3>1, <3>3
        <4> QED BY <4>1, <2>2
      <3> QED BY <3>2, <3>3
    <2>8. OneEach(ws)
      <3>1. ASSUME NEW i \in 1..Len(ws), NEW j \in 1..Len(ws), ws[i].txn = ws[j].txn
            PROVE  i = j
        <4>1. PICK a \in 1..Len(w) : ws[i] = w[a] /\ a = IF i < n THEN i ELSE i + 1
          BY <2>4
        <4>2. PICK b \in 1..Len(w) : ws[j] = w[b] /\ b = IF j < n THEN j ELSE j + 1
          BY <2>4
        <4>3. a = b
          BY <3>1, <4>1, <4>2, <1>2 DEF OneEach
        <4> QED BY <4>1, <4>2, <4>3
      <3> QED BY <3>1 DEF OneEach
    <2>9. LetJoin(r, owners[r] \ {t}, lock_type[r], ws)
      BY <2>1, <2>3 DEF ws
    <2> QED BY <1>1, <1>2, <2>2, <2>3, <2>5, <2>6, <2>7, <2>8, <2>9, LetJoinLemma
  <1> QED BY <1>3, <1>4

------------------------------------------------------------------------------
(***************************************************************************)
(* What a step leaves alone                                                *)
(***************************************************************************)

\* The step leaves thread u where it is.
Untouched(u) ==
  /\ pc'[u] = pc[u] /\ lock_ready'[u] = lock_ready[u]
  /\ accesses'[u] = accesses[u] /\ query'[u] = query[u] /\ txn_cnt'[u] = txn_cnt[u]

\* The step changes nothing in what u has of row q or asks of it.
SameClaim(u, q) ==
  /\ Has(u, q)' <=> Has(u, q)
  /\ HasExclusive(u, q)' => HasExclusive(u, q)
  /\ (Pending(u) /\ CurRow(u) = q)' <=> (Pending(u) /\ CurRow(u) = q)
  /\ Pending(u) /\ CurRow(u) = q => CurMode(u)' = CurMode(u)

LEMMA UntouchedLemma ==
  ASSUME NEW u, Untouched(u)
  PROVE  /\ \A q : SameClaim(u, q)
         /\ Progress(u) => Progress(u)'
  <1> USE DEF Untouched
  <1>1. /\ Got(u)' <=> Got(u)
        /\ Pending(u)' <=> Pending(u)
        /\ CurRow(u)' = CurRow(u)
        /\ CurMode(u)' = CurMode(u)
    BY DEF Got, Pending, Waiting, CurRow, CurMode, LockMode, Cur
  <1>2. \A q : SameClaim(u, q)
    BY <1>1 DEF SameClaim, Has, HasExclusive, LockMode
  <1>3. Progress(u) => Progress(u)'
    BY DEF Progress, Waiting
  <1> QED BY <1>2, <1>3

\* A row whose lists and mode stay, and of which no thread's claim changes.
LEMMA SameRow ==
  ASSUME NEW r \in Rows, RowInv(r), TypeOK,
         owners'[r] = owners[r], waiters'[r] = waiters[r],
         lock_type'[r] = lock_type[r],
         \A u \in Threads : SameClaim(u, r)
  PROVE  RowInv(r)'
  <1>1. OwnersExact(r)'
    BY DEF RowInv, OwnersExact, SameClaim
  <1>2. WaitersExact(r)'
    <2>1. \A i \in 1..Len(waiters[r]) : waiters[r][i].txn \in Threads
      <3>1. waiters[r] \in Seq(Entry)
        BY DEF TypeOK
      <3> QED BY <3>1, EntryLemma
    <2>2. OneEach(waiters[r])'
      BY DEF RowInv, WaitersExact, OneEach
    <2>3. ASSUME NEW i \in 1..Len(waiters[r])
          PROVE  LET w == waiters[r][i]
                 IN Pending(w.txn)' /\ CurRow(w.txn)' = r /\ CurMode(w.txn)' = w.type
      <3>1. /\ Pending(waiters[r][i].txn) /\ CurRow(waiters[r][i].txn) = r
            /\ CurMode(waiters[r][i].txn) = waiters[r][i].type
        BY DEF RowInv, WaitersExact
      <3>2. SameClaim(waiters[r][i].txn, r)
        BY <2>1
      <3> QED BY <3>1, <3>2 DEF SameClaim
    <2>4. ASSUME NEW t \in Threads, Pending(t)', CurRow(t)' = r
          PROVE  \E i \in 1..Len(waiters[r]) : waiters[r][i].txn = t
      <3>1. Pending(t) /\ CurRow(t) = r
        BY <2>4 DEF SameClaim
      <3> QED BY <3>1 DEF RowInv, WaitersExact
    <2> QED BY <2>2, <2>3, <2>4 DEF WaitersExact
  <1>3. ModeFits(owners[r], lock_type[r])' /\ Blocked(lock_type[r], waiters[r])'
    BY DEF RowInv, ModeFits, Blocked
  <1> QED BY <1>1, <1>2, <1>3 DEF RowInv

\* A step of t that touches no lock.
LEMMA LocalStep ==
  ASSUME IInv, TypeOK', NEW t \in Threads, UNCHANGED lockVars,
         \A u \in Threads \ {t} : Untouched(u),
         \A q \in Rows : SameClaim(t, q), Progress(t)'
  PROVE  IInv'
  <1>1. \A u \in Threads : Progress(u)'
    BY UntouchedLemma DEF IInv
  <1>2. \A u \in Threads, q \in Rows : SameClaim(u, q)
    BY UntouchedLemma
  <1>3. \A r \in Rows : RowInv(r)'
    BY <1>2, SameRow DEF IInv, lockVars
  <1> QED BY <1>1, <1>3 DEF IInv

------------------------------------------------------------------------------
(***************************************************************************)
(* Type correctness                                                        *)
(***************************************************************************)

LEMMA TypeLemma ==
  ASSUME IInv, [Next]_vars
  PROVE  TypeOK'
  <1> USE DEF TypeOK, PC, Goto
  <1>1. ASSUME NEW t \in Threads, GetNextQuery(t) PROVE TypeOK'
    BY <1>1 DEF IInv, GetNextQuery, lockVars
  <1>2. ASSUME NEW t \in Threads, LockGranted(t) PROVE TypeOK'
    <2>1. CurRow(t) \in Rows /\ CurMode(t) \in lock_t
      BY <1>2, RequestLemma DEF IInv, LockGranted, Requests, lock_t
    <2> QED BY <1>2, <2>1 DEF IInv, LockGranted, threadVars
  <1>3. ASSUME NEW t \in Threads, LockWaits(t) PROVE TypeOK'
    <2>1. CurRow(t) \in Rows /\ CurMode(t) \in {LOCK_EX, LOCK_SH}
      BY <1>3, RequestLemma DEF IInv, LockWaits, Requests
    <2> DEFINE w == waiters[CurRow(t)]
               e == [txn |-> t, type |-> CurMode(t)]
    <2>2. w \in Seq(Entry) /\ e \in Entry
      BY <2>1 DEF IInv, Entry
    <2>3. ASSUME NEW i \in 1..(Len(w) + 1) PROVE InsertAt(w, i, e) \in Seq(Entry)
      BY <2>2, InsertLemma
    <2>4. waiters' \in [Rows -> Seq(Entry)]
      BY <1>3, <2>1, <2>3 DEF IInv, LockWaits
    <2> QED BY <1>3, <2>4 DEF IInv, LockWaits, NotReady, threadVars
  <1>4. ASSUME NEW t \in Threads, LockAborts(t) PROVE TypeOK'
    BY <1>4 DEF IInv, LockAborts, lockVars, threadVars
  <1>5. ASSUME NEW t \in Threads, EnterSpin(t) PROVE TypeOK'
    BY <1>5 DEF IInv, EnterSpin, lockVars, threadVars
  <1>6. ASSUME NEW t \in Threads, LeaveSpin(t) PROVE TypeOK'
    BY <1>6 DEF IInv, LeaveSpin, lockVars, threadVars
  <1>7. ASSUME NEW t \in Threads, AfterSpin(t) PROVE TypeOK'
    BY <1>7 DEF IInv, AfterSpin, lockVars, threadVars
  <1>8. ASSUME NEW t \in Threads, GiveUp(t) PROVE TypeOK'
    <2>1. CurRow(t) \in Rows /\ lock_release(t, CurRow(t))
      BY <1>8, RequestLemma DEF IInv, GiveUp, Progress, Waiting
    <2>2. PICK joined \in SUBSET Threads : Released(t, CurRow(t), joined)
      BY <2>1, ReleaseLemma
    <2> QED BY <1>8, <2>1, <2>2 DEF IInv, GiveUp, Released, threadVars
  <1>9. ASSUME NEW t \in Threads, UseRow(t) PROVE TypeOK'
    <2>1. CurRow(t) \in Rows /\ Cur(t).type \in AccessType
      BY <1>9, RequestLemma DEF IInv, UseRow, Progress
    <2>2. [row |-> CurRow(t), type |-> Cur(t).type, orig_data |-> data[CurRow(t)]]
            \in Access
      BY <2>1 DEF IInv, Access
    <2>3. accesses' \in [Threads -> Seq(Access)]
      BY <1>9, <2>2 DEF IInv, UseRow
    <2>4. data' \in [Rows -> Nat]
      BY <1>9, <2>1 DEF IInv, UseRow
    <2> QED BY <1>9, <2>3, <2>4 DEF IInv, UseRow, lockVars, threadVars
  <1>10. ASSUME NEW t \in Threads, FinishTxn(t) PROVE TypeOK'
    BY <1>10 DEF IInv, FinishTxn, lockVars, threadVars
  <1>11. ASSUME NEW t \in Threads, ReturnRow(t) PROVE TypeOK'
    <2> DEFINE a == Last(accesses[t])
    <2>1. a \in Access /\ Front(accesses[t]) \in Seq(Access)
      BY <1>11, FrontLemma DEF IInv, ReturnRow, Returned
    <2>2. a.row \in Rows /\ a.orig_data \in Nat
      BY <2>1 DEF Access
    <2> HIDE DEF a
    <2>3. PICK joined \in SUBSET Threads : Released(t, a.row, joined)
      BY <1>11, <2>2, ReleaseLemma DEF ReturnRow, a
    <2>4. data' \in [Rows -> Nat]
      BY <1>11, <2>2 DEF IInv, ReturnRow, Restored, a
    <2>5. accesses' \in [Threads -> Seq(Access)]
      BY <1>11, <2>1 DEF IInv, ReturnRow
    <2>6. /\ owners' \in [Rows -> SUBSET Threads] /\ waiters' \in [Rows -> Seq(Entry)]
          /\ lock_type' \in [Rows -> lock_t] /\ lock_ready' \in [Threads -> BOOLEAN]
      BY <2>2, <2>3 DEF IInv, Released
    <2> QED BY <1>11, <2>4, <2>5, <2>6 DEF IInv, ReturnRow, threadVars
  <1>12. ASSUME NEW t \in Threads, TxnCommitted(t) PROVE TypeOK'
    <2>1. txn_cnt[t] < MAX_TXN_PER_PART
      BY <1>12 DEF IInv, Progress, TxnCommitted
    <2>2. txn_cnt' \in [Threads -> 0..MAX_TXN_PER_PART]
      BY <1>12, <2>1, BoundAssumption DEF IInv, TxnCommitted
    <2> QED BY <1>12, <2>2 DEF IInv, TxnCommitted, LastTxn, lockVars
  <1>13. ASSUME NEW t \in Threads, TxnAborted(t) PROVE TypeOK'
    BY <1>13 DEF IInv, TxnAborted, lockVars, threadVars
  <1>14. ASSUME NEW t \in Threads, Retry(t) PROVE TypeOK'
    BY <1>14 DEF IInv, Retry, lockVars, threadVars
  <1>15. ASSUME NEW t \in Threads, Timeout(t) PROVE TypeOK'
    BY <1>15 DEF IInv, Timeout, lockVars, threadVars
  <1>16. ASSUME NEW t \in Threads, NEW v \in Threads, Victim(t, v) PROVE TypeOK'
    BY <1>16 DEF IInv, Victim, lockVars, threadVars
  <1>17. CASE UNCHANGED vars
    BY <1>17 DEF IInv, vars
  <1> QED BY <1>1, <1>2, <1>3, <1>4, <1>5, <1>6, <1>7, <1>8, <1>9, <1>10, <1>11,
             <1>12, <1>13, <1>14, <1>15, <1>16, <1>17
          DEF Next, Step, LockGet, Terminated

------------------------------------------------------------------------------
(***************************************************************************)
(* The steps that touch no list                                            *)
(***************************************************************************)

LEMMA LocalSteps ==
  ASSUME IInv, TypeOK', NEW t \in Threads,
         \/ GetNextQuery(t) \/ LockAborts(t) \/ EnterSpin(t) \/ LeaveSpin(t)
         \/ AfterSpin(t) \/ UseRow(t) \/ FinishTxn(t) \/ TxnCommitted(t)
         \/ TxnAborted(t) \/ Retry(t) \/ Timeout(t)
  PROVE  IInv'
  <1> DEFINE Stays == /\ UNCHANGED lockVars
                      /\ \A u \in Threads \ {t} : Untouched(u)
                      /\ \A q \in Rows : SameClaim(t, q)
                      /\ Progress(t)'
  <1>1. TypeOK /\ Progress(t)
    BY DEF IInv
  <1>2. ASSUME UNCHANGED <<query, accesses, txn_cnt, lock_ready>>,
               Got(t)' <=> Got(t), Pending(t)' <=> Pending(t)
        PROVE  \A q \in Rows : SameClaim(t, q)
    BY <1>2 DEF SameClaim, Has, HasExclusive, LockMode, CurRow, CurMode, Cur
  <1>3. ASSUME GetNextQuery(t) PROVE Stays
    <2>1. /\ UNCHANGED lockVars
          /\ \A u \in Threads \ {t} : Untouched(u)
          /\ pc[t] = "idle" /\ pc'[t] = "run" /\ query'[t] \in Queries
          /\ UNCHANGED <<accesses, txn_cnt>> /\ accesses[t] = <<>>
      BY <1>1, <1>3 DEF TypeOK, GetNextQuery, Goto, Untouched, Progress
    <2>2. \A q \in Rows : SameClaim(t, q)
      BY <2>1 DEF SameClaim, Has, HasExclusive, Got, Pending, Waiting
    <2>3. Progress(t)'
      <3>1. Len(query'[t]) \in Nat
        BY <2>1, QueriesAssumption
      <3> QED BY <1>1, <2>1, <3>1 DEF Progress, Waiting
    <2> QED BY <2>1, <2>2, <2>3
  <1>4. ASSUME LockAborts(t) PROVE Stays
    BY <1>1, <1>2, <1>4
       DEF TypeOK, LockAborts, Requests, Goto, Untouched, Progress, Got, Pending, Waiting, threadVars
  <1>5. ASSUME EnterSpin(t) PROVE Stays
    BY <1>1, <1>2, <1>5
       DEF TypeOK, EnterSpin, Goto, Untouched, Progress, Got, Pending, Waiting, threadVars
  <1>6. ASSUME LeaveSpin(t) PROVE Stays
    BY <1>1, <1>2, <1>6
       DEF TypeOK, LeaveSpin, Goto, Untouched, Progress, Got, Pending, Waiting, threadVars
  <1>7. ASSUME AfterSpin(t) PROVE Stays
    BY <1>1, <1>2, <1>7
       DEF TypeOK, AfterSpin, Goto, Untouched, Progress, Got, Pending, Waiting, threadVars
  <1>8. ASSUME UseRow(t) PROVE Stays
    <2> DEFINE a == [row |-> CurRow(t), type |-> Cur(t).type,
                     orig_data |-> data[CurRow(t)]]
               n == Len(accesses[t])
    <2>1. /\ UNCHANGED lockVars
          /\ \A u \in Threads \ {t} : Untouched(u)
          /\ pc[t] = "granted" /\ pc'[t] = "run"
          /\ accesses'[t] = Append(accesses[t], a)
          /\ UNCHANGED <<query, txn_cnt>>
      BY <1>1, <1>8 DEF TypeOK, UseRow, Goto, Untouched, threadVars
    <2>2. /\ n \in Nat /\ Len(accesses'[t]) = n + 1
          /\ \A i \in 1..n : accesses'[t][i] = accesses[t][i]
          /\ accesses'[t][n + 1] = a
      BY <1>1, <2>1 DEF TypeOK
    <2>3. Got(t) /\ ~ Got(t)' /\ ~ Pending(t) /\ ~ Pending(t)'
      BY <2>1 DEF Got, Pending, Waiting
    <2>4. a.row = CurRow(t) /\ LockMode(a.type) = CurMode(t)
          /\ a.row = query[t][n + 1].row /\ a.type = query[t][n + 1].type
      BY DEF CurMode, CurRow, Cur
    <2> HIDE DEF a
    <2>5. ASSUME NEW q
          PROVE  Has(t, q)' <=> Has(t, q)
      <3>1. Has(t, q)' <=> \E i \in 1..(n + 1) : accesses'[t][i].row = q
        BY <2>2, <2>3 DEF Has
      <3>2. Has(t, q) <=> (\E i \in 1..n : accesses[t][i].row = q) \/ a.row = q
        BY <2>3, <2>4 DEF Has
      <3>3. (\E i \in 1..(n + 1) : accesses'[t][i].row = q)
              <=> (\E i \in 1..n : accesses'[t][i].row = q)
                  \/ accesses'[t][n + 1].row = q
        BY <2>2
      <3> QED BY <3>1, <3>2, <3>3, <2>2
    <2>6. ASSUME NEW q
          PROVE  HasExclusive(t, q)' => HasExclusive(t, q)
      <3>1. HasExclusive(t, q)' <=>
              \E i \in 1..(n + 1) : accesses'[t][i].row = q
                                    /\ LockMode(accesses'[t][i].type) = LOCK_EX
        BY <2>2, <2>3 DEF HasExclusive, LockMode, LOCK_EX, LOCK_SH
      <3>2. HasExclusive(t, q) <=>
              \/ \E i \in 1..n : accesses[t][i].row = q
                                 /\ LockMode(accesses[t][i].type) = LOCK_EX
              \/ a.row = q /\ LockMode(a.type) = LOCK_EX
        BY <2>3, <2>4 DEF HasExclusive
      <3>3. (\E i \in 1..(n + 1) : accesses'[t][i].row = q
                                   /\ LockMode(accesses'[t][i].type) = LOCK_EX)
              <=> \/ \E i \in 1..n : accesses'[t][i].row = q
                                     /\ LockMode(accesses'[t][i].type) = LOCK_EX
                  \/ /\ accesses'[t][n + 1].row = q
                     /\ LockMode(accesses'[t][n + 1].type) = LOCK_EX
        BY <2>2
      <3> QED BY <3>1, <3>2, <3>3, <2>2
    <2>7. \A q \in Rows : SameClaim(t, q)
      BY <2>3, <2>5, <2>6 DEF SameClaim
    <2>8. Progress(t)'
      <3>1. Len(query[t]) \in Nat
        BY <1>1, <2>1, RequestLemma DEF Progress
      <3> QED BY <1>1, <2>1, <2>2, <2>4, <3>1 DEF Progress, Waiting
    <2> QED BY <2>1, <2>7, <2>8
  <1>9. ASSUME FinishTxn(t) PROVE Stays
    BY <1>1, <1>2, <1>9
       DEF TypeOK, FinishTxn, Goto, Untouched, Progress, Got, Pending, Waiting, threadVars
  <1>10. ASSUME TxnCommitted(t) PROVE Stays
    <2>1. /\ UNCHANGED lockVars
          /\ \A u \in Threads \ {t} : Untouched(u)
          /\ pc[t] = "cleanup" /\ pc'[t] \in {"idle", "finished"}
          /\ accesses[t] = <<>> /\ accesses'[t] = accesses[t]
          /\ accesses' = accesses /\ UNCHANGED <<query, lock_ready>>
          /\ pc'[t] # "finished" => txn_cnt'[t] < MAX_TXN_PER_PART
      BY <1>1, <1>10, BoundAssumption
         DEF TypeOK, TxnCommitted, LastTxn, Returned, Goto, Untouched
    <2>2. \A q \in Rows : SameClaim(t, q)
      BY <2>1 DEF SameClaim, Has, HasExclusive, LockMode, Got, Pending, Waiting
    <2>3. Progress(t)'
      BY <1>1, <2>1 DEF Progress, Waiting
    <2> QED BY <2>1, <2>2, <2>3
  <1>11. ASSUME TxnAborted(t) PROVE Stays
    <2>1. /\ UNCHANGED lockVars
          /\ \A u \in Threads \ {t} : Untouched(u)
          /\ pc[t] = "cleanup" /\ pc'[t] = "penalty"
          /\ accesses[t] = <<>> /\ accesses'[t] = accesses[t]
          /\ accesses' = accesses /\ UNCHANGED <<query, lock_ready, txn_cnt>>
      BY <1>1, <1>11 DEF TypeOK, TxnAborted, Returned, Goto, Untouched, threadVars
    <2>2. \A q \in Rows : SameClaim(t, q)
      BY <2>1 DEF SameClaim, Has, HasExclusive, LockMode, Got, Pending, Waiting
    <2>3. Progress(t)'
      BY <1>1, <2>1 DEF Progress, Waiting
    <2> QED BY <2>1, <2>2, <2>3
  <1>12. ASSUME Retry(t) PROVE Stays
    BY <1>1, <1>2, <1>12
       DEF TypeOK, Retry, Goto, Untouched, Progress, Got, Pending, Waiting, threadVars
  <1>13. ASSUME Timeout(t) PROVE Stays
    BY <1>1, <1>2, <1>13
       DEF TypeOK, Timeout, Goto, Untouched, Progress, Got, Pending, Waiting, threadVars
  <1>14. Stays
    BY <1>3, <1>4, <1>5, <1>6, <1>7, <1>8, <1>9, <1>10, <1>11, <1>12, <1>13
  <1> QED BY <1>14, LocalStep

------------------------------------------------------------------------------
(***************************************************************************)
(* lock_get                                                                *)
(***************************************************************************)

\* A row with waiters is locked, and a request that does not conflict with the
\* owners of such a row has their mode.
LEMMA SharedWithOwners ==
  ASSUME TypeOK, NEW r \in Rows, RowInv(r), waiters[r] # <<>>,
         NEW mode \in {LOCK_EX, LOCK_SH}, ~ conflict_lock(lock_type[r], mode)
  PROVE  lock_type[r] = mode
  BY DEF TypeOK, RowInv, Blocked, conflict_lock, lock_t, LOCK_EX, LOCK_SH, LOCK_NONE

LEMMA GrantStep ==
  ASSUME IInv, TypeOK', NEW t \in Threads, LockGranted(t)
  PROVE  IInv'
  <1>0. PICK r \in Rows, mode \in {LOCK_EX, LOCK_SH} : r = CurRow(t) /\ mode = CurMode(t)
    BY RequestLemma DEF IInv, LockGranted, Requests
  <1>1. TypeOK /\ Progress(t) /\ RowInv(r) /\ r \in Rows
        /\ mode \in {LOCK_EX, LOCK_SH}
        /\ Len(accesses[t]) < Len(query[t])
        /\ \A i \in 1..Len(accesses[t]) : accesses[t][i].row # r
    BY <1>0, RequestLemma DEF IInv, LockGranted, Requests
  <1>2. /\ owners' = [owners EXCEPT ![r] = @ \union {t}]
        /\ lock_type' = [lock_type EXCEPT ![r] = mode]
        /\ UNCHANGED <<waiters, accesses, query, lock_ready, txn_cnt>>
        /\ pc[t] = "run" /\ pc'[t] = "granted"
        /\ \A u \in Threads \ {t} : Untouched(u)
        /\ ~ conflict_lock(lock_type[r], mode)
    BY <1>0, <1>1 DEF TypeOK, LockGranted, Requests, Goto, threadVars, Untouched, MustYield
  <1>3. CurRow(t)' = r /\ CurMode(t)' = mode
    BY <1>0, <1>2 DEF CurRow, CurMode, Cur, LockMode
  <1>4. ~ Got(t) /\ Got(t)' /\ ~ Pending(t) /\ ~ Pending(t)'
    BY <1>2 DEF Got, Pending, Waiting
  <1>5. /\ owners'[r] = owners[r] \union {t} /\ lock_type'[r] = mode
        /\ waiters'[r] = waiters[r]
        /\ \A q \in Rows \ {r} : /\ owners'[q] = owners[q]
                                 /\ lock_type'[q] = lock_type[q]
                                 /\ waiters'[q] = waiters[q]
    BY <1>1, <1>2 DEF TypeOK
  <1>6. \A u \in Threads \ {t} : \A q : SameClaim(u, q)
    BY <1>2, UntouchedLemma
  <1>7. /\ \A q : Has(t, q)' <=> (Has(t, q) \/ q = r)
        /\ \A q : HasExclusive(t, q)' <=>
                    (HasExclusive(t, q) \/ (q = r /\ mode = LOCK_EX))
    BY <1>2, <1>3, <1>4 DEF Has, HasExclusive, LockMode
  <1>8. \A q \in Rows \ {r} : SameClaim(t, q)
    BY <1>4, <1>7 DEF SameClaim
  <1>9. \A q \in Rows \ {r} : RowInv(q)'
    BY <1>1, <1>5, <1>6, <1>8, SameRow DEF IInv
  <1>10. RowInv(r)'
    <2>1. ASSUME NEW u \in Threads
          PROVE  (u \in owners[r])' <=> Has(u, r)'
      BY <1>1, <1>5, <1>6, <1>7 DEF RowInv, OwnersExact, SameClaim
    <2>2. ASSUME NEW u \in Threads, HasExclusive(u, r)'
          PROVE  lock_type'[r] = LOCK_EX
      <3>1. CASE HasExclusive(u, r)
        <4>1. lock_type[r] = LOCK_EX
          BY <1>1, <3>1 DEF RowInv, OwnersExact
        <4> QED BY <1>1, <1>2, <4>1 DEF conflict_lock, LOCK_EX, LOCK_SH, LOCK_NONE
      <3>2. CASE ~ HasExclusive(u, r)
        <4>1. u = t /\ mode = LOCK_EX
          BY <2>2, <3>2, <1>6, <1>7 DEF SameClaim
        <4> QED BY <1>5, <4>1
      <3> QED BY <3>1, <3>2
    <2>3. WaitersExact(r)'
      <3>1. WaitersExact(r)
        BY <1>1 DEF RowInv
      <3>2. \A u \in Threads :
              /\ (Pending(u) /\ CurRow(u) = r)' <=> (Pending(u) /\ CurRow(u) = r)
              /\ Pending(u) /\ CurRow(u) = r => CurMode(u)' = CurMode(u)
        BY <1>4, <1>6 DEF SameClaim
      <3>3. \A i \in 1..Len(waiters[r]) : waiters[r][i].txn \in Threads
        <4>1. waiters[r] \in Seq(Entry)
          BY <1>1 DEF TypeOK
        <4> QED BY <4>1, EntryLemma
      <3>4. OneEach(waiters[r])'
        BY <3>1, <1>5 DEF WaitersExact, OneEach
      <3>5. ASSUME NEW i \in 1..Len(waiters[r])
            PROVE  LET w == waiters[r][i]
                   IN Pending(w.txn)' /\ CurRow(w.txn)' = r /\ CurMode(w.txn)' = w.type
        BY <3>1, <3>2, <3>3, <1>5 DEF WaitersExact
      <3>6. ASSUME NEW u \in Threads, Pending(u)', CurRow(u)' = r
            PROVE  \E i \in 1..Len(waiters[r]) : waiters[r][i].txn = u
        BY <3>1, <3>2, <3>6 DEF WaitersExact
      <3> QED BY <3>4, <3>5, <3>6, <1>5 DEF WaitersExact
    <2>4. ModeFits(owners[r], lock_type[r])'
      BY <1>1, <1>2, <1>5
         DEF RowInv, ModeFits, conflict_lock, LOCK_EX, LOCK_SH, LOCK_NONE, TypeOK, lock_t
    <2>5. Blocked(lock_type[r], waiters[r])'
      <3>1. waiters[r] # <<>> => lock_type[r] = mode
        BY <1>1, <1>2, SharedWithOwners
      <3> QED BY <1>1, <1>5, <3>1 DEF RowInv, Blocked
    <2> QED BY <2>1, <2>2, <2>3, <2>4, <2>5 DEF RowInv, OwnersExact
  <1>11. Progress(t)'
    BY <1>1, <1>2 DEF Progress, Waiting
  <1>12. \A u \in Threads : Progress(u)'
    BY <1>2, <1>11, UntouchedLemma DEF IInv
  <1> QED BY <1>9, <1>10, <1>12 DEF IInv

LEMMA WaitStep ==
  ASSUME IInv, TypeOK', NEW t \in Threads, LockWaits(t)
  PROVE  IInv'
  <1>0. PICK r \in Rows, mode \in {LOCK_EX, LOCK_SH} : r = CurRow(t) /\ mode = CurMode(t)
    BY RequestLemma DEF IInv, LockWaits, Requests
  <1> PICK w : w = waiters[r]
    OBVIOUS
  <1> DEFINE e == [txn |-> t, type |-> mode]
  <1>1. TypeOK /\ Progress(t) /\ RowInv(r) /\ r \in Rows
        /\ mode \in {LOCK_EX, LOCK_SH}
        /\ Len(accesses[t]) < Len(query[t])
    BY <1>0, RequestLemma DEF IInv, LockWaits, Requests
  <1>2. PICK n \in 1..(Len(w) + 1) :
          InsertsAt(t, w, n) /\ waiters' = [waiters EXCEPT ![r] = InsertAt(@, n, e)]
    BY <1>0 DEF LockWaits
  <1>3. /\ UNCHANGED <<owners, lock_type, accesses, query, txn_cnt>>
        /\ pc[t] = "run" /\ pc'[t] = "wait" /\ lock_ready'[t] = FALSE
        /\ \A u \in Threads \ {t} : Untouched(u)
        /\ MustYield(t, r, mode) /\ CanWait(t, r)
    BY <1>0, <1>1 DEF TypeOK, LockWaits, Requests, Goto, NotReady, threadVars, Untouched
  <1>4. CurRow(t)' = r /\ CurMode(t)' = mode
    BY <1>0, <1>3 DEF CurRow, CurMode, Cur, LockMode
  <1>5. ~ Got(t) /\ ~ Got(t)' /\ ~ Pending(t) /\ Pending(t)'
    BY <1>3 DEF Got, Pending, Waiting
  <1>6. w \in Seq(Entry) /\ e \in Entry
    BY <1>1 DEF TypeOK, Entry
  <1>7. /\ Len(waiters'[r]) = Len(w) + 1
        /\ \A k \in 1..(Len(w) + 1) :
             waiters'[r][k] = IF k < n THEN w[k] ELSE IF k = n THEN e ELSE w[k - 1]
        /\ \A q \in Rows \ {r} : waiters'[q] = waiters[q]
    <2>1. waiters'[r] = InsertAt(w, n, e)
          /\ \A q \in Rows \ {r} : waiters'[q] = waiters[q]
      BY <1>1, <1>2 DEF TypeOK
    <2> HIDE DEF e
    <2>2. /\ Len(InsertAt(w, n, e)) = Len(w) + 1
          /\ \A k \in 1..(Len(w) + 1) :
               InsertAt(w, n, e)[k] = IF k < n THEN w[k] ELSE IF k = n THEN e ELSE w[k - 1]
      BY <1>6, InsertLemma
    <2> QED BY <2>1, <2>2
  <1>8. e.txn = t /\ e.type = mode
    OBVIOUS
  <1>9. Len(w) \in Nat /\ \A i \in 1..Len(w) : w[i].txn \in Threads
    BY <1>6, EntryLemma
  <1> HIDE DEF e
  <1>10. \A u \in Threads \ {t} : \A q : SameClaim(u, q)
    BY <1>3, UntouchedLemma
  <1>11. \A q : /\ Has(t, q)' <=> Has(t, q)
                /\ HasExclusive(t, q)' <=> HasExclusive(t, q)
    BY <1>3, <1>5 DEF Has, HasExclusive, LockMode
  <1>12. \A q \in Rows \ {r} : SameClaim(t, q)
    BY <1>4, <1>5, <1>11 DEF SameClaim
  <1>13. \A q \in Rows \ {r} : RowInv(q)'
    BY <1>1, <1>3, <1>7, <1>10, <1>12, SameRow DEF IInv
  <1>14. WaitersExact(r) /\ Blocked(lock_type[r], w) /\ w = waiters[r]
    BY <1>1 DEF RowInv
  <1>15. ASSUME NEW k \in 1..(Len(w) + 1), k # n
         PROVE  \E i \in 1..Len(w) : waiters'[r][k] = w[i] /\ i = IF k < n THEN k ELSE k - 1
    <2>1. CASE k < n
      BY <1>7, <1>9, <2>1
    <2>2. CASE ~ (k < n)
      <3>1. k - 1 \in 1..Len(w)
        BY <1>9, <1>15, <2>2
      <3> QED BY <1>7, <1>9, <1>15, <2>2, <3>1
    <2> QED BY <2>1, <2>2
  <1>16. ASSUME NEW i \in 1..Len(w)
         PROVE  w[i].txn # t /\ Pending(w[i].txn)' /\ CurRow(w[i].txn)' = r
                /\ CurMode(w[i].txn)' = w[i].type
    <2>1. Pending(w[i].txn) /\ CurRow(w[i].txn) = r /\ CurMode(w[i].txn) = w[i].type
      BY <1>14 DEF WaitersExact
    <2>2. w[i].txn \in Threads \ {t}
      BY <2>1, <1>5, <1>9
    <2> QED BY <2>1, <2>2, <1>10 DEF SameClaim
  <1>17. WaitersExact(r)'
    <2>1. ASSUME NEW k \in 1..(Len(w) + 1), NEW m \in 1..(Len(w) + 1),
                 waiters'[r][k].txn = waiters'[r][m].txn
          PROVE  k = m
      <3>a. ASSUME NEW j \in 1..(Len(w) + 1), j # n
            PROVE  waiters'[r][j].txn # t
        <4>1. PICK i \in 1..Len(w) : waiters'[r][j] = w[i]
          BY <1>15, <3>a
        <4> QED BY <4>1, <1>16
      <3>b. waiters'[r][n].txn = t
        BY <1>7, <1>8
      <3>1. CASE k = n /\ m # n
        BY <2>1, <3>1, <3>a, <3>b
      <3>2. CASE k # n /\ m = n
        BY <2>1, <3>2, <3>a, <3>b
      <3>3. CASE k # n /\ m # n
        <4>1. PICK i \in 1..Len(w) : waiters'[r][k] = w[i] /\ i = IF k < n THEN k ELSE k - 1
          BY <1>15, <3>3
        <4>2. PICK j \in 1..Len(w) : waiters'[r][m] = w[j] /\ j = IF m < n THEN m ELSE m - 1
          BY <1>15, <3>3
        <4>3. i = j
          BY <2>1, <4>1, <4>2, <1>14 DEF WaitersExact, OneEach
        <4> QED BY <3>3, <4>1, <4>2, <4>3
      <3> QED BY <3>1, <3>2, <3>3
    <2>2. OneEach(waiters[r])'
      BY <1>7, <2>1 DEF OneEach
    <2>3. ASSUME NEW k \in 1..(Len(w) + 1), NEW x, x = waiters'[r][k]
          PROVE  Pending(x.txn)' /\ CurRow(x.txn)' = r /\ CurMode(x.txn)' = x.type
      <3>1. CASE k = n
        <4>1. x.txn = t /\ x.type = mode
          BY <2>3, <3>1, <1>7, <1>8
        <4> QED BY <4>1, <1>4, <1>5
      <3>2. CASE k # n
        <4>1. PICK i \in 1..Len(w) : x = w[i]
          BY <2>3, <3>2, <1>15
        <4> QED BY <4>1, <1>16
      <3> QED BY <3>1, <3>2
    <2>4. ASSUME NEW u \in Threads, Pending(u)', CurRow(u)' = r
          PROVE  \E k \in 1..(Len(w) + 1) : waiters'[r][k].txn = u
      <3>1. CASE u = t
        BY <3>1, <1>7, <1>8
      <3>2. CASE u # t
        <4>1. Pending(u) /\ CurRow(u) = r
          BY <2>4, <3>2, <1>10 DEF SameClaim
        <4>2. PICK i \in 1..Len(w) : w[i].txn = u
          BY <4>1, <1>14 DEF WaitersExact
        <4>3. CASE i < n
          BY <4>2, <4>3, <1>7, <1>9
        <4>4. CASE ~ (i < n)
          <5>1. i + 1 \in 1..(Len(w) + 1) /\ ~ (i + 1 < n) /\ i + 1 # n
                /\ (i + 1) - 1 = i
            BY <4>4, <1>9
          <5> QED BY <4>2, <5>1, <1>7
        <4> QED BY <4>3, <4>4
      <3> QED BY <3>1, <3>2
    <2> QED BY <2>2, <2>3, <2>4, <1>7 DEF WaitersExact
  <1>18. OwnersExact(r)'
    BY <1>1, <1>3, <1>10, <1>11 DEF RowInv, OwnersExact, SameClaim
  <1>19. ModeFits(owners[r], lock_type[r])'
    BY <1>1, <1>3 DEF RowInv, ModeFits
  <1>20. Blocked(lock_type[r], waiters[r])'
    <2>1. waiters'[r] # <<>> => Head(waiters'[r]) = waiters'[r][1]
      OBVIOUS
    <2>2. w # <<>> => Head(w) = w[1]
      OBVIOUS
    <2>3. CASE n = 1
      <3>1. Head(waiters'[r]).type = mode
        BY <2>1, <2>3, <1>7, <1>8, <1>9
      <3>2. conflict_lock(lock_type[r], mode)
        BY <1>3, <1>2, <2>2, <2>3, <1>9, <1>14, <1>6
           DEF MustYield, CanWait, InsertsAt
      <3> QED BY <3>1, <3>2, <1>3 DEF Blocked
    <2>4. CASE n # 1
      <3>1. w # <<>> /\ waiters'[r][1] = w[1]
        BY <2>4, <1>7, <1>9, <1>6
      <3>2. conflict_lock(lock_type[r], w[1].type)
        BY <3>1, <2>2, <1>14 DEF Blocked
      <3> QED BY <3>1, <3>2, <2>1, <1>3 DEF Blocked
    <2> QED BY <2>3, <2>4
  <1>21. RowInv(r)'
    BY <1>17, <1>18, <1>19, <1>20 DEF RowInv
  <1>22. Progress(t)'
    BY <1>1, <1>3 DEF Progress, Waiting
  <1>23. \A u \in Threads : Progress(u)'
    BY <1>3, <1>22, UntouchedLemma DEF IInv
  <1> QED BY <1>13, <1>21, <1>23 DEF IInv

------------------------------------------------------------------------------
(***************************************************************************)
(* A step that releases a lock, or withdraws a request                     *)
(***************************************************************************)

LEMMA ReleaseStep ==
  ASSUME IInv, NEW t \in Threads, NEW r \in Rows, NEW joined \in SUBSET Threads,
         Released(t, r, joined), UNCHANGED <<query, txn_cnt>>,
         \A u \in Threads \ {t} : pc'[u] = pc[u] /\ accesses'[u] = accesses[u],
         ~ Has(t, r)', ~ Pending(t)', Pending(t) => CurRow(t) = r,
         \A q \in Rows \ {r} : /\ Has(t, q)' <=> Has(t, q)
                               /\ HasExclusive(t, q)' => HasExclusive(t, q)
  PROVE  /\ \A q \in Rows : RowInv(q)'
         /\ \A u \in Threads \ {t} : Progress(u)'
  <1>1. TypeOK /\ RowInv(r) /\ WaitersExact(r) /\ OneEach(waiters[r])
    BY DEF IInv, RowInv, WaitersExact
  <1>2. Len(waiters[r]) \in Nat
        /\ \A a \in 1..Len(waiters[r]) : waiters[r][a].txn \in Threads
    <2>1. waiters[r] \in Seq(Entry)
      BY <1>1 DEF TypeOK
    <2> QED BY <2>1, EntryLemma
  <1>3. waiters'[r] \in Seq(Entry) /\ Len(waiters'[r]) \in Nat
        /\ \A i \in 1..Len(waiters'[r]) : waiters'[r][i].txn \in Threads
    <2>1. waiters'[r] \in Seq(Entry)
      BY DEF Released
    <2> QED BY <2>1, EntryLemma
  <1>4. \A u \in Threads \ ({t} \union joined) : Untouched(u)
    BY <1>1 DEF Released, TypeOK, Untouched
  <1>5. \A u \in Threads \ ({t} \union joined) :
          (\A q : SameClaim(u, q)) /\ Progress(u)'
    BY <1>4, UntouchedLemma DEF IInv
  <1>6. ASSUME NEW u \in joined
        PROVE  /\ u # t /\ Pending(u) /\ CurRow(u) = r /\ CurMode(u) = lock_type'[r]
               /\ Got(u)' /\ ~ Pending(u)'
               /\ \A q : Has(u, q)' <=> (Has(u, q) \/ q = r)
               /\ \A q : HasExclusive(u, q)' =>
                           (HasExclusive(u, q) \/ (q = r /\ lock_type'[r] = LOCK_EX))
               /\ Progress(u)'
    <2>1. PICK a \in 1..Len(waiters[r]) :
            waiters[r][a].txn = u /\ waiters[r][a].type = lock_type'[r]
      BY DEF Released
    <2>2. u # t /\ Pending(u) /\ CurRow(u) = r /\ CurMode(u) = lock_type'[r]
      BY <2>1, <1>1 DEF WaitersExact, Released
    <2>3. lock_ready'[u] /\ pc'[u] = pc[u] /\ accesses'[u] = accesses[u]
          /\ query'[u] = query[u] /\ txn_cnt'[u] = txn_cnt[u]
      BY <2>2 DEF Released
    <2>4. Got(u)' /\ ~ Pending(u)' /\ ~ Got(u)
      BY <2>2, <2>3 DEF Got, Pending, Waiting
    <2>5. CurRow(u)' = r /\ CurMode(u)' = lock_type'[r]
      BY <2>2, <2>3 DEF CurRow, CurMode, Cur, LockMode
    <2> accesses'[u] = accesses[u]
      BY <2>3
    <2>6. \A q : Has(u, q)' <=> (Has(u, q) \/ q = r)
      BY <2>4, <2>5 DEF Has
    <2>7. \A q : HasExclusive(u, q)' =>
                   (HasExclusive(u, q) \/ (q = r /\ lock_type'[r] = LOCK_EX))
      BY <2>4, <2>5 DEF HasExclusive, LockMode
    <2>8. Progress(u)'
      BY <2>3 DEF IInv, Progress, Waiting
    <2> QED BY <2>2, <2>4, <2>6, <2>7, <2>8
  <1>7. ASSUME NEW q \in Rows \ {r}
        PROVE  RowInv(q)'
    <2>1. \A u \in joined : SameClaim(u, q)
      BY <1>6 DEF SameClaim
    <2>2. SameClaim(t, q)
      BY DEF SameClaim
    <2>3. \A u \in Threads : SameClaim(u, q)
      BY <1>5, <2>1, <2>2
    <2>4. /\ owners'[q] = owners[q] /\ waiters'[q] = waiters[q]
          /\ lock_type'[q] = lock_type[q]
      BY <1>1 DEF Released, TypeOK
    <2> QED BY <1>1, <2>3, <2>4, SameRow DEF IInv
  <1>8. OwnersExact(r)'
    <2>1. owners'[r] = (owners[r] \ {t}) \union joined /\ t \notin joined
      BY <1>1 DEF Released, TypeOK
    <2>2. ASSUME NEW u \in Threads
          PROVE  (u \in owners[r])' <=> Has(u, r)'
      <3>1. CASE u = t
        BY <2>1, <3>1
      <3>2. CASE u \in joined
        BY <2>1, <3>2, <1>6
      <3>3. CASE u \notin {t} \union joined
        BY <2>1, <3>3, <1>1, <1>5 DEF RowInv, OwnersExact, SameClaim
      <3> QED BY <3>1, <3>2, <3>3
    <2>3. ASSUME NEW u \in Threads, HasExclusive(u, r)'
          PROVE  lock_type'[r] = LOCK_EX
      <3>1. HasExclusive(u, r)' => Has(u, r)'
        BY DEF HasExclusive, Has
      <3>2. u # t
        BY <2>3, <3>1
      <3>3. HasExclusive(u, r) \/ lock_type'[r] = LOCK_EX
        BY <2>3, <3>2, <1>5, <1>6 DEF SameClaim
      <3>4. ASSUME HasExclusive(u, r) PROVE lock_type'[r] = LOCK_EX
        <4>1. u \in owners[r] /\ lock_type[r] = LOCK_EX
          BY <3>4, <1>1 DEF RowInv, OwnersExact, HasExclusive, Has
        <4> QED BY <3>2, <4>1 DEF Released
      <3> QED BY <3>3, <3>4
    <2> QED BY <2>2, <2>3 DEF OwnersExact
  <1>9. WaitersExact(r)'
    <2>1. ASSUME NEW i \in 1..Len(waiters'[r]), NEW j \in 1..Len(waiters'[r]), i < j
          PROVE  waiters'[r][i].txn # waiters'[r][j].txn
      <3>1. PICK a \in 1..Len(waiters[r]), b \in 1..Len(waiters[r]) :
              a < b /\ waiters'[r][i] = waiters[r][a] /\ waiters'[r][j] = waiters[r][b]
        BY <2>1 DEF Released, Thinned
      <3> QED BY <3>1, <1>1, <1>2 DEF OneEach
    <2>2. OneEach(waiters[r])'
      BY <2>1, <1>3 DEF OneEach
    <2>3. ASSUME NEW i \in 1..Len(waiters'[r]), NEW w, w = waiters'[r][i]
          PROVE  Pending(w.txn)' /\ CurRow(w.txn)' = r /\ CurMode(w.txn)' = w.type
      <3>1. PICK a \in 1..Len(waiters[r]) : w = waiters[r][a]
        BY <2>3 DEF Released, Thinned
      <3>2. w.txn \in Threads \ ({t} \union joined)
        BY <2>3, <1>3 DEF Released
      <3>3. Pending(w.txn) /\ CurRow(w.txn) = r /\ CurMode(w.txn) = w.type
        BY <3>1, <1>1 DEF WaitersExact
      <3>4. SameClaim(w.txn, r)
        BY <3>2, <1>5
      <3> QED BY <3>3, <3>4 DEF SameClaim
    <2>4. ASSUME NEW u \in Threads, Pending(u)', CurRow(u)' = r
          PROVE  \E i \in 1..Len(waiters'[r]) : waiters'[r][i].txn = u
      <3>1. u \notin {t} \union joined
        BY <2>4, <1>6
      <3>2. SameClaim(u, r)
        BY <3>1, <1>5
      <3>3. Pending(u) /\ CurRow(u) = r
        BY <2>4, <3>2 DEF SameClaim
      <3>4. PICK a \in 1..Len(waiters[r]) : waiters[r][a].txn = u
        BY <3>3, <1>1 DEF WaitersExact
      <3> QED BY <3>1, <3>4 DEF Released, KeepsBut
    <2> QED BY <2>2, <2>3, <2>4 DEF WaitersExact
  <1>10. RowInv(r)'
    BY <1>8, <1>9 DEF RowInv, Released
  <1> QED BY <1>5, <1>6, <1>7, <1>10

LEMMA GiveUpStep ==
  ASSUME IInv, TypeOK', NEW t \in Threads, GiveUp(t)
  PROVE  IInv'
  <1>1. TypeOK /\ Progress(t) /\ Len(accesses[t]) < Len(query[t])
    BY DEF IInv, GiveUp, Progress, Waiting
  <1>2. PICK r \in Rows : r = CurRow(t)
    BY <1>1, RequestLemma
  <1>3. \A i \in 1..Len(accesses[t]) : accesses[t][i].row # r
    BY <1>1, <1>2, RequestLemma
  <1>4. /\ lock_release(t, r) /\ pc[t] = "giveup" /\ pc'[t] = "cleanup"
        /\ UNCHANGED <<query, txn_cnt, accesses>>
        /\ \A u \in Threads \ {t} : pc'[u] = pc[u] /\ accesses'[u] = accesses[u]
    BY <1>1, <1>2 DEF GiveUp, Goto, TypeOK, threadVars
  <1>5. PICK joined \in SUBSET Threads : Released(t, r, joined)
    BY <1>4, ReleaseLemma
  <1>6. ~ Got(t)' /\ ~ Pending(t)'
    BY <1>4 DEF Got, Pending, Waiting
  <1>7. ~ Has(t, r)'
    BY <1>3, <1>4, <1>6 DEF Has
  <1>8. \A q \in Rows \ {r} : /\ Has(t, q)' <=> Has(t, q)
                              /\ HasExclusive(t, q)' => HasExclusive(t, q)
    BY <1>2, <1>4, <1>6 DEF Has, HasExclusive, LockMode
  <1>9. /\ \A q \in Rows : RowInv(q)'
        /\ \A u \in Threads \ {t} : Progress(u)'
    BY <1>2, <1>4, <1>5, <1>6, <1>7, <1>8, ReleaseStep
  <1>10. Progress(t)'
    BY <1>1, <1>4 DEF Progress, Waiting
  <1> QED BY <1>9, <1>10 DEF IInv

LEMMA ReturnStep ==
  ASSUME IInv, TypeOK', NEW t \in Threads, ReturnRow(t)
  PROVE  IInv'
  <1>1. TypeOK /\ Progress(t) /\ accesses[t] \in Seq(Access) /\ accesses[t] # <<>>
    BY DEF IInv, TypeOK, ReturnRow, Returned
  <1>2. PICK n \in Nat \ {0} : n = Len(accesses[t])
    BY <1>1
  <1>3. /\ Len(Front(accesses[t])) = n - 1
        /\ \A i \in 1..(n - 1) : Front(accesses[t])[i] = accesses[t][i]
        /\ Last(accesses[t]) \in Access /\ Last(accesses[t]) = accesses[t][n]
    BY <1>1, <1>2, FrontLemma
  <1>4. PICK r \in Rows : r = accesses[t][n].row
    BY <1>3 DEF Access
  <1>5. /\ lock_release(t, r) /\ pc[t] = "cleanup" /\ pc' = pc
        /\ UNCHANGED <<query, txn_cnt>> /\ accesses'[t] = Front(accesses[t])
        /\ \A u \in Threads \ {t} : pc'[u] = pc[u] /\ accesses'[u] = accesses[u]
    BY <1>1, <1>3, <1>4 DEF ReturnRow, TypeOK, threadVars
  <1>6. /\ Len(accesses'[t]) = n - 1
        /\ \A i \in 1..(n - 1) : accesses'[t][i] = accesses[t][i]
    BY <1>3, <1>5
  <1>7. PICK joined \in SUBSET Threads : Released(t, r, joined)
    BY <1>5, ReleaseLemma
  <1>8. ~ Got(t) /\ ~ Got(t)' /\ ~ Pending(t) /\ ~ Pending(t)'
    BY <1>5 DEF Got, Pending, Waiting
  <1>9. \A i, j \in 1..n : accesses[t][i].row = accesses[t][j].row => i = j
    <2>1. n <= Len(query[t]) /\ \A i \in 1..n : accesses[t][i].row = query[t][i].row
      BY <1>1, <1>2 DEF Progress
    <2>2. query[t] \in Queries \union {<<>>} /\ query[t] # <<>>
      BY <1>1, <1>2, <2>1 DEF TypeOK
    <2>3. /\ Len(query[t]) \in Nat /\ DOMAIN query[t] = 1..Len(query[t])
          /\ \A i, j \in DOMAIN query[t] : query[t][i].row = query[t][j].row => i = j
      BY <2>2, QueriesAssumption
    <2> QED BY <2>1, <2>3
  <1>10. ~ Has(t, r)'
    BY <1>4, <1>6, <1>8, <1>9 DEF Has
  <1>11. \A q \in Rows \ {r} : /\ Has(t, q)' <=> Has(t, q)
                               /\ HasExclusive(t, q)' => HasExclusive(t, q)
    <2> SUFFICES ASSUME NEW q \in Rows \ {r}
                 PROVE  /\ Has(t, q)' <=> Has(t, q)
                        /\ HasExclusive(t, q)' => HasExclusive(t, q)
      OBVIOUS
    <2>1. \A i \in 1..n : accesses[t][i].row = q => i \in 1..(n - 1)
      BY <1>4
    <2>2. Has(t, q)' <=> Has(t, q)
      BY <2>1, <1>2, <1>6, <1>8 DEF Has
    <2>3. HasExclusive(t, q)' => HasExclusive(t, q)
      BY <2>1, <1>2, <1>6, <1>8 DEF HasExclusive, LockMode
    <2> QED BY <2>2, <2>3
  <1>12. /\ \A q \in Rows : RowInv(q)'
         /\ \A u \in Threads \ {t} : Progress(u)'
    BY <1>5, <1>7, <1>8, <1>10, <1>11, ReleaseStep
  <1>13. Progress(t)'
    <2>1. Len(query[t]) \in Nat \/ TRUE
      OBVIOUS
    <2>2. n <= Len(query[t]) => n - 1 <= Len(query[t])
      <3>1. query[t] \in Queries \union {<<>>}
        BY <1>1 DEF TypeOK
      <3>2. Len(query[t]) \in Nat
        BY <3>1, QueriesAssumption
      <3> QED BY <3>2
    <2> QED BY <2>2, <1>1, <1>2, <1>5, <1>6 DEF Progress, Waiting
  <1> QED BY <1>12, <1>13 DEF IInv

------------------------------------------------------------------------------
(***************************************************************************)
(* The theorems                                                            *)
(***************************************************************************)

LEMMA InitLemma ==
  ASSUME Init
  PROVE  IInv
  <1>1. TypeOK
    <2>1. <<>> \in Seq(Entry) /\ <<>> \in Seq(Access) /\ 0 \in 0..MAX_TXN_PER_PART
      BY BoundAssumption
    <2> QED BY <2>1 DEF Init, TypeOK, PC, lock_t
  <1>2. \A t \in Threads : Progress(t)
    BY BoundAssumption DEF Init, Progress, Waiting
  <1>3. \A r \in Rows : RowInv(r)
    BY DEF Init, RowInv, OwnersExact, WaitersExact, OneEach, ModeFits, Blocked,
           Has, HasExclusive, Got, Pending, Waiting, LOCK_NONE, LOCK_EX
  <1> QED BY <1>1, <1>2, <1>3 DEF IInv

LEMMA NextLemma ==
  ASSUME IInv, [Next]_vars
  PROVE  IInv'
  <1>1. TypeOK'
    BY TypeLemma
  <1>2. ASSUME NEW t \in Threads, Step(t) \/ Timeout(t)
        PROVE  IInv'
    BY <1>1, <1>2, LocalSteps, GrantStep, WaitStep, GiveUpStep, ReturnStep
       DEF Step, LockGet
  <1>3. ASSUME UNCHANGED <<owners, waiters, lock_type, lock_ready, query, accesses,
                           pc, txn_cnt>>
        PROVE  IInv'
    <2>1. \A u \in Threads : Untouched(u)
      BY <1>3 DEF Untouched
    <2>2. \A u \in Threads : Progress(u)'
      BY <2>1, UntouchedLemma DEF IInv
    <2>3. \A r \in Rows : RowInv(r)'
      BY <1>3, <2>1, UntouchedLemma, SameRow DEF IInv
    <2> QED BY <1>1, <2>2, <2>3 DEF IInv
  <1>4. ASSUME NEW t \in Threads, NEW v \in Threads, Victim(t, v)
        PROVE  IInv'
    BY <1>3, <1>4 DEF Victim, lockVars, threadVars
  <1>5. CASE UNCHANGED vars
    BY <1>3, <1>5 DEF vars
  <1> QED BY <1>2, <1>4, <1>5 DEF Next, Terminated

\* The two lists and the mode of every row are at all times what the threads'
\* own state says they are.
THEOREM Inductive == Spec => []IInv
  <1>1. Init => IInv
    BY InitLemma
  <1>2. IInv /\ [Next]_vars => IInv'
    BY NextLemma
  <1> QED BY <1>1, <1>2, PTL DEF Spec

\* Every variable keeps its type; no thread commits more transactions than the
\* run asks for.
THEOREM TypeCorrect == Spec => []TypeOK
  <1>1. IInv => TypeOK
    BY DEF IInv
  <1> QED BY <1>1, Inductive, PTL

\* What a thread has is locked for it in the mode its access needs.
LEMMA HasHolds ==
  ASSUME IInv, NEW t \in Threads, NEW r \in Rows, NEW m \in {LOCK_EX, LOCK_SH},
         Has(t, r), m = LOCK_EX => HasExclusive(t, r)
  PROVE  Holds(t, r, m)
  <1>1. t \in owners[r] /\ lock_type[r] \in lock_t /\ lock_type[r] # LOCK_NONE
    BY DEF IInv, RowInv, OwnersExact, ModeFits, TypeOK
  <1>2. m = LOCK_EX => lock_type[r] = LOCK_EX
    BY DEF IInv, RowInv, OwnersExact
  <1> QED BY <1>1, <1>2 DEF Holds, Covers, lock_t

\* Two-phase locking is strict, under each of the three schemes.
THEOREM TwoPhase == Spec => []StrictTwoPhase
  <1>1. ASSUME IInv PROVE StrictTwoPhase
    <2>1. ASSUME NEW t \in Threads, NEW i \in DOMAIN accesses[t]
          PROVE  Holds(t, accesses[t][i].row, LockMode(accesses[t][i].type))
      <3>1. accesses[t] \in Seq(Access) /\ i \in 1..Len(accesses[t])
        BY <1>1 DEF IInv, TypeOK
      <3>2. accesses[t][i] \in Access
        BY <3>1, ElementOfSeq
      <3>3. PICK r \in Rows, m \in {LOCK_EX, LOCK_SH} :
              r = accesses[t][i].row /\ m = LockMode(accesses[t][i].type)
        BY <3>2 DEF Access, LockMode
      <3>4. Has(t, r) /\ (m = LOCK_EX => HasExclusive(t, r))
        BY <3>1, <3>3 DEF Has, HasExclusive
      <3> QED BY <1>1, <3>3, <3>4, HasHolds
    <2>2. ASSUME NEW t \in Threads, pc[t] = "granted"
          PROVE  Holds(t, CurRow(t), CurMode(t))
      <3>1. CurRow(t) \in Rows /\ CurMode(t) \in {LOCK_EX, LOCK_SH}
        BY <1>1, <2>2, RequestLemma DEF IInv, Progress
      <3>2. Has(t, CurRow(t)) /\ (CurMode(t) = LOCK_EX => HasExclusive(t, CurRow(t)))
        BY <2>2 DEF Has, HasExclusive, Got
      <3> QED BY <1>1, <3>1, <3>2, HasHolds
    <2>3. \A r \in Rows : lock_type[r] = LOCK_EX => \A t, u \in owners[r] : t = u
      BY <1>1 DEF IInv, RowInv, ModeFits
    <2> QED BY <2>1, <2>2, <2>3 DEF StrictTwoPhase
  <1> QED BY <1>1, Inductive, PTL

\* In the invariant's terms, t is queued for r when its request for r is pending.
LEMMA QueuedLemma ==
  ASSUME IInv, NEW t \in Threads, NEW r \in Rows
  PROVE  Queued(t, r) <=> Pending(t) /\ CurRow(t) = r
  <1>1. DOMAIN waiters[r] = 1..Len(waiters[r])
    BY DEF IInv, TypeOK
  <1>2. WaitersExact(r)
    BY DEF IInv, RowInv
  <1> QED BY <1>1, <1>2 DEF Queued, WaitersExact

\* No wake-up is lost between the thread that hands over a lock and the one
\* that waits for it.
THEOREM NoLostWakeup == Spec => []WakeupNotLost
  <1>1. ASSUME IInv PROVE WakeupNotLost
    <2> SUFFICES ASSUME NEW t \in Threads, pc[t] \in Waiting
                 PROVE  IF lock_ready[t]
                        THEN Holds(t, CurRow(t), CurMode(t)) /\ ~ Queued(t, CurRow(t))
                        ELSE Queued(t, CurRow(t)) /\ t \notin owners[CurRow(t)]
      BY DEF WakeupNotLost
    <2>1. TypeOK /\ Progress(t) /\ Len(accesses[t]) < Len(query[t])
      BY <1>1 DEF IInv, Progress
    <2>2. /\ CurRow(t) \in Rows /\ CurMode(t) \in {LOCK_EX, LOCK_SH}
          /\ \A i \in 1..Len(accesses[t]) : accesses[t][i].row # CurRow(t)
      BY <2>1, RequestLemma
    <2>3. CASE lock_ready[t]
      <3>1. Has(t, CurRow(t)) /\ (CurMode(t) = LOCK_EX => HasExclusive(t, CurRow(t)))
        BY <2>3 DEF Has, HasExclusive, Got
      <3>2. ~ Pending(t)
        BY <2>3 DEF Pending
      <3>3. Holds(t, CurRow(t), CurMode(t))
        BY <1>1, <2>2, <3>1, HasHolds
      <3>4. ~ Queued(t, CurRow(t))
        BY <1>1, <2>2, <3>2, QueuedLemma
      <3> QED BY <2>3, <3>3, <3>4
    <2>4. CASE ~ lock_ready[t]
      <3>1. Pending(t)
        BY <2>4 DEF Pending
      <3>2. ~ Got(t)
        BY <2>4 DEF Got, Waiting
      <3>3. t \notin owners[CurRow(t)]
        BY <1>1, <2>2, <3>2 DEF IInv, RowInv, OwnersExact, Has
      <3>4. Queued(t, CurRow(t))
        BY <1>1, <2>2, <3>1, QueuedLemma
      <3> QED BY <2>4, <3>3, <3>4
    <2> QED BY <2>3, <2>4
  <1> QED BY <1>1, Inductive, PTL

\* No entry of a finished or aborted transaction is left in the lists of a row.
THEOREM NoLeak == Spec => []NoLeakedEntry
  <1>1. ASSUME IInv PROVE NoLeakedEntry
    <2> SUFFICES ASSUME NEW t \in Threads, NEW r \in Rows, t \in owners[r] \/ Queued(t, r)
                 PROVE  r \in RowsOf(t)
      BY DEF NoLeakedEntry
    <2>1. DOMAIN accesses[t] = 1..Len(accesses[t])
      BY <1>1 DEF IInv, TypeOK
    <2>2. Has(t, r) \/ (Pending(t) /\ CurRow(t) = r)
      BY <1>1, QueuedLemma DEF IInv, RowInv, OwnersExact
    <2> QED BY <2>1, <2>2 DEF RowsOf, Has, Got, Pending
  <1> QED BY <1>1, Inductive, PTL

\* Nobody waits for a lock that it could have.
THEOREM NoIdleWait == Spec => []HeadMustWait
  <1>1. ASSUME IInv PROVE HeadMustWait
    BY <1>1 DEF IInv, RowInv, ModeFits, Blocked, HeadMustWait
  <1> QED BY <1>1, Inductive, PTL

------------------------------------------------------------------------------
(***************************************************************************)
(* First come, first served                                                *)
(***************************************************************************)

\* u leaves the waiter list of r for the owners, and nobody ahead of it stays.
FromTheHead(r, u) ==
  \E i \in DOMAIN waiters[r] :
    /\ waiters[r][i].txn = u
    /\ \A j \in 1..i : waiters[r][j].txn \in owners'[r]
                       \/ ~ \E k \in DOMAIN waiters'[r] :
                              waiters'[r][k] = waiters[r][j]

Served ==
  CC_ALG = "DL_DETECT" =>
    \A r \in Rows : \A u \in owners'[r] \ owners[r] :
      waiters[r] # <<>> => FromTheHead(r, u)

\* The threads a release hands the lock to were at the head of the list.
LEMMA ReleaseServes ==
  ASSUME IInv, NEW t \in Threads, NEW r \in Rows, NEW joined \in SUBSET Threads,
         Released(t, r, joined), NEW u \in owners'[r] \ owners[r]
  PROVE  FromTheHead(r, u)
  <1>1. u \in joined
    BY DEF Released, IInv, TypeOK
  <1>2. /\ waiters[r] \in Seq(Entry) /\ waiters'[r] \in Seq(Entry)
        /\ OneEach(waiters[r])
    BY DEF Released, IInv, TypeOK, RowInv, WaitersExact
  <1>3. /\ Len(waiters[r]) \in Nat
        /\ DOMAIN waiters[r] = 1..Len(waiters[r])
        /\ DOMAIN waiters'[r] = 1..Len(waiters'[r])
    BY <1>2
  <1>4. PICK i \in 1..Len(waiters[r]) : waiters[r][i].txn = u
    BY <1>1 DEF Released
  <1>5. ASSUME NEW j \in 1..i, NEW k \in 1..Len(waiters'[r]), waiters'[r][k] = waiters[r][j]
        PROVE  FALSE
    <2>1. PICK a \in 1..Len(waiters[r]), b \in 1..Len(waiters[r]) :
            a < b /\ waiters[r][a].txn = u /\ waiters[r][b] = waiters'[r][k]
      BY <1>1 DEF Released
    <2>2. j \in 1..Len(waiters[r])
      BY <1>3
    <2>3. a = i /\ b = j
      BY <1>2, <1>4, <1>5, <2>1, <2>2 DEF OneEach
    <2> QED BY <2>1, <2>3
  <1> QED BY <1>3, <1>4, <1>5 DEF FromTheHead

LEMMA ServedStep ==
  ASSUME IInv, [Next]_vars
  PROVE  Served
  <1>1. ASSUME owners' = owners PROVE Served
    BY <1>1 DEF Served
  <1>2. ASSUME NEW t \in Threads, NEW r \in Rows, lock_release(t, r)
        PROVE  Served
    <2>1. PICK joined \in SUBSET Threads : Released(t, r, joined)
      BY <1>2, ReleaseLemma
    <2>2. \A q \in Rows \ {r} : owners'[q] = owners[q]
      BY <2>1 DEF Released, IInv, TypeOK
    <2> QED BY <2>1, <2>2, ReleaseServes DEF Served
  <1>3. ASSUME NEW t \in Threads, LockGranted(t) PROVE Served
    <2>1. /\ ~ MustYield(t, CurRow(t), CurMode(t))
          /\ owners' = [owners EXCEPT ![CurRow(t)] = @ \union {t}]
      BY <1>3 DEF LockGranted
    <2>2. CC_ALG = "DL_DETECT" => waiters[CurRow(t)] = <<>>
      BY <2>1 DEF MustYield
    <2>3. \A q \in Rows : q # CurRow(t) => owners'[q] = owners[q]
      BY <2>1 DEF IInv, TypeOK
    <2> QED BY <2>2, <2>3 DEF Served
  <1>4. ASSUME NEW t \in Threads, GiveUp(t) PROVE Served
    <2>1. CurRow(t) \in Rows
      BY <1>4, RequestLemma DEF IInv, GiveUp, Progress, Waiting
    <2> QED BY <1>2, <1>4, <2>1 DEF GiveUp
  <1>5. ASSUME NEW t \in Threads, ReturnRow(t) PROVE Served
    <2>1. accesses[t] \in Seq(Access) /\ accesses[t] # <<>>
      BY <1>5 DEF IInv, TypeOK, ReturnRow, Returned
    <2>2. Last(accesses[t]) \in Access
      BY <2>1, FrontLemma
    <2>3. Last(accesses[t]).row \in Rows
      BY <2>2 DEF Access
    <2> QED BY <1>2, <1>5, <2>3 DEF ReturnRow
  <1>6. ASSUME NEW t \in Threads, Step(t) \/ Timeout(t) PROVE Served
    <2>1. CASE LockGranted(t) \/ GiveUp(t) \/ ReturnRow(t)
      BY <1>3, <1>4, <1>5, <2>1
    <2>2. CASE ~ (LockGranted(t) \/ GiveUp(t) \/ ReturnRow(t))
      BY <1>1, <1>6, <2>2 DEF Step, Timeout, GetNextQuery, LockGet, LockWaits, LockAborts,
         EnterSpin, LeaveSpin, AfterSpin, UseRow, FinishTxn, TxnCommitted, TxnAborted,
         Retry, lockVars
    <2> QED BY <2>1, <2>2
  <1>7. ASSUME NEW t \in Threads, NEW v \in Threads, Victim(t, v) PROVE Served
    BY <1>1, <1>7 DEF Victim, lockVars
  <1>8. CASE UNCHANGED vars
    BY <1>1, <1>8 DEF vars
  <1> QED BY <1>6, <1>7, <1>8 DEF Next, Terminated

\* Under DL_DETECT nobody becomes an owner of a row ahead of a thread that has
\* queued for it before, however the queue is shortened and handed over.
THEOREM FirstServed == Spec => NoBarging
  <1>1. IInv /\ [Next]_vars => [Served]_vars
    BY ServedStep
  <1>2. Spec => [][Served]_vars
    BY <1>1, Inductive, PTL DEF Spec
  <1>3. [][Served]_vars => NoBarging
    BY PTL DEF NoBarging, Served, FromTheHead
  <1> QED BY <1>2, <1>3, PTL

------------------------------------------------------------------------------
(***************************************************************************)
(* RowLock implements the store that runs one transaction at a time: a     *)
(* transaction commits when run_txn calls finish(RCOK)                     *)
(***************************************************************************)

\* A row that t has accessed is as t left it: nobody else can change it.
Saved(t) ==
  \A i \in 1..Len(accesses[t]) :
    data[accesses[t][i].row] =
      accesses[t][i].orig_data + (IF accesses[t][i].type = "WR" THEN 1 ELSE 0)

Begun(t) == pc[t] \notin {"idle", "finished"} => query[t] \in Queries

SInv == IInv /\ \A t \in Threads : Saved(t) /\ Begun(t)

\* Row r has a value that may still be undone.
Dirty(r) ==
  \E t \in Threads : \E i \in 1..Len(accesses[t]) :
    accesses[t][i].row = r /\ Uncommitted(t, i)

\* The committed value of a dirty row is the one before the write.
Clean == [r \in Rows |-> IF Dirty(r) THEN data[r] - 1 ELSE data[r]]

LEMMA AccessFacts ==
  ASSUME IInv, NEW t \in Threads
  PROVE  /\ accesses[t] \in Seq(Access) /\ Len(accesses[t]) \in Nat
         /\ DOMAIN accesses[t] = 1..Len(accesses[t])
         /\ \A i \in 1..Len(accesses[t]) :
              /\ accesses[t][i].row \in Rows /\ accesses[t][i].type \in AccessType
              /\ accesses[t][i].orig_data \in Nat
         /\ \A i, j \in 1..Len(accesses[t]) :
              accesses[t][i].row = accesses[t][j].row => i = j
         /\ Len(query[t]) \in Nat /\ DOMAIN query[t] = 1..Len(query[t])
         /\ data \in [Rows -> Nat]
  <1>1. accesses[t] \in Seq(Access) /\ data \in [Rows -> Nat] /\ Progress(t)
    BY DEF IInv, TypeOK
  <1>2. /\ Len(accesses[t]) \in Nat /\ DOMAIN accesses[t] = 1..Len(accesses[t])
        /\ \A i \in 1..Len(accesses[t]) : accesses[t][i] \in Access
    BY <1>1
  <1>3. /\ Len(query[t]) \in Nat /\ DOMAIN query[t] = 1..Len(query[t])
        /\ \A i, j \in 1..Len(query[t]) : query[t][i].row = query[t][j].row => i = j
    <2>1. query[t] \in Queries \union {<<>>}
      BY DEF IInv, TypeOK
    <2>2. CASE query[t] = <<>>
      BY <2>2
    <2>3. CASE query[t] \in Queries
      BY <2>3, QueriesAssumption
    <2> QED BY <2>1, <2>2, <2>3
  <1>4. \A i, j \in 1..Len(accesses[t]) : accesses[t][i].row = accesses[t][j].row => i = j
    <2>1. \A i \in 1..Len(accesses[t]) : /\ i \in 1..Len(query[t])
                                         /\ accesses[t][i].row = query[t][i].row
      BY <1>1, <1>2, <1>3 DEF Progress
    <2> QED BY <1>3, <2>1
  <1>5. \A i \in 1..Len(accesses[t]) :
          /\ accesses[t][i].row \in Rows /\ accesses[t][i].type \in AccessType
          /\ accesses[t][i].orig_data \in Nat
    BY <1>2 DEF Access
  <1> QED BY <1>1, <1>2, <1>3, <1>4, <1>5

\* Who has a row exclusively is the only one to have it.
LEMMA SoleOwner ==
  ASSUME IInv, NEW t \in Threads, NEW u \in Threads, NEW r \in Rows,
         HasExclusive(t, r), Has(u, r)
  PROVE  u = t
  <1>1. Has(t, r)
    BY DEF Has, HasExclusive
  <1>2. OwnersExact(r) /\ ModeFits(owners[r], lock_type[r])
    BY DEF IInv, RowInv
  <1> QED BY <1>1, <1>2 DEF OwnersExact, ModeFits

\* Nobody but its writer has a row that was written.
LEMMA WriterAlone ==
  ASSUME IInv, NEW t \in Threads, NEW u \in Threads,
         NEW i \in 1..Len(accesses[t]), accesses[t][i].type = "WR",
         Has(u, accesses[t][i].row)
  PROVE  u = t
  <1>1. HasExclusive(t, accesses[t][i].row)
    BY DEF HasExclusive, LockMode
  <1>2. accesses[t][i].row \in Rows
    BY AccessFacts
  <1> QED BY <1>1, <1>2, SoleOwner

LEMMA Committed == SInv => CommittedData = Clean
  <1> SUFFICES ASSUME SInv PROVE CommittedData = Clean
    OBVIOUS
  <1>0. IInv /\ \A t \in Threads : DOMAIN accesses[t] = 1..Len(accesses[t])
    BY AccessFacts DEF SInv
  <1>1. ASSUME NEW r \in Rows, Dirty(r) PROVE CommittedData[r] = data[r] - 1
    <2> DEFINE P(t) == \E i \in DOMAIN accesses[t] : accesses[t][i].row = r /\ Uncommitted(t, i)
               t == CHOOSE t \in Threads : P(t)
               i == CHOOSE i \in DOMAIN accesses[t] : accesses[t][i].row = r
    <2>1. \E u \in Threads : P(u)
      BY <1>0, <1>1 DEF Dirty
    <2>2. t \in Threads /\ P(t)
      BY <2>1
    <2>3. CommittedData[r] = accesses[t][i].orig_data
      BY <2>1 DEF CommittedData
    <2> HIDE DEF t
    <2>4. PICK j \in DOMAIN accesses[t] : accesses[t][j].row = r /\ Uncommitted(t, j)
      BY <2>2
    <2>5. i \in DOMAIN accesses[t] /\ accesses[t][i].row = r
      BY <2>4
    <2> HIDE DEF i
    <2>6. i = j /\ i \in 1..Len(accesses[t]) /\ accesses[t][i].orig_data \in Nat
      BY <1>0, <2>2, <2>4, <2>5, AccessFacts
    <2>7. data[r] = accesses[t][i].orig_data + 1
      BY <2>2, <2>4, <2>6 DEF SInv, Saved, Uncommitted
    <2> QED BY <2>3, <2>6, <2>7
  <1>2. ASSUME NEW r \in Rows, ~ Dirty(r) PROVE CommittedData[r] = data[r]
    <2>1. ~ \E t \in Threads : \E i \in DOMAIN accesses[t] :
              accesses[t][i].row = r /\ Uncommitted(t, i)
      BY <1>0, <1>2 DEF Dirty
    <2> QED BY <2>1 DEF CommittedData
  <1>3. \A r \in Rows : CommittedData[r] = Clean[r]
    BY <1>1, <1>2 DEF Clean
  <1> QED BY <1>3 DEF CommittedData, Clean

\* The committed values of the refinement, in the invariant's terms.
CommittedIsClean == CommittedData = Clean

LEMMA CommittedNow == SInv => CommittedIsClean
  BY Committed DEF CommittedIsClean

LEMMA CommittedNext == SInv' => CommittedIsClean'
  BY CommittedNow, PTL

\* The committed values stay when no row becomes dirty or clean or changes.
LEMMA CleanSame ==
  ASSUME \A r \in Rows : Dirty(r)' <=> Dirty(r), \A r \in Rows : data'[r] = data[r]
  PROVE  Clean' = Clean
  BY DEF Clean

\* A step that neither uses nor returns a row, nor commits.
LEMMA OtherSteps ==
  ASSUME SInv, NEW t \in Threads, Step(t),
         ~ UseRow(t), ~ FinishTxn(t), ~ ReturnRow(t)
  PROVE  /\ \A u \in Threads : Saved(u)' /\ Begun(u)'
         /\ Clean' = Clean /\ out' = out
  <1>0. IInv /\ TypeOK /\ Progress(t) /\ Saved(t) /\ Begun(t) /\ pc \in [Threads -> PC]
        /\ rc \in [Threads -> {"RCOK", "Abort"}] /\ query \in [Threads -> Queries \union {<<>>}]
        /\ accesses \in [Threads -> Seq(Access)]
    BY DEF SInv, IInv, TypeOK
  <1>1. data' = data /\ out' = out
    BY DEF Step, GetNextQuery, LockGet, LockGranted, LockWaits, LockAborts, EnterSpin,
       LeaveSpin, AfterSpin, GiveUp, TxnCommitted, TxnAborted, Retry
  <1>2. accesses' = accesses
    <2>1. CASE TxnCommitted(t) \/ TxnAborted(t)
      BY <1>0, <2>1 DEF TxnCommitted, TxnAborted, Returned
    <2>2. CASE ~ (TxnCommitted(t) \/ TxnAborted(t))
      BY <2>2 DEF Step, GetNextQuery, LockGet, LockGranted, LockWaits, LockAborts, EnterSpin,
         LeaveSpin, AfterSpin, GiveUp, Retry
    <2> QED BY <2>1, <2>2
  <1>3. \A u \in Threads \ {t} : pc'[u] = pc[u] /\ rc'[u] = rc[u] /\ query'[u] = query[u]
    BY <1>0 DEF Step, GetNextQuery, LockGet, LockGranted, LockWaits, LockAborts, EnterSpin,
       LeaveSpin, AfterSpin, GiveUp, TxnCommitted, TxnAborted, Retry, Goto, threadVars
  <1>4. accesses[t] # <<>> => ~ Committing(t) /\ ~ Committing(t)'
    <2>1. CASE TxnCommitted(t) \/ TxnAborted(t)
      BY <2>1 DEF TxnCommitted, TxnAborted, Returned
    <2>2. CASE GiveUp(t) \/ LockAborts(t)
      <3>1. pc[t] # "cleanup" /\ rc'[t] = "Abort"
        BY <1>0, <2>2 DEF GiveUp, LockAborts, Requests
      <3> QED BY <3>1 DEF Committing
    <2>3. CASE ~ (TxnCommitted(t) \/ TxnAborted(t) \/ GiveUp(t) \/ LockAborts(t))
      <3>1. pc[t] # "cleanup" /\ pc'[t] # "cleanup"
        BY <1>0, <2>3 DEF Step, GetNextQuery, LockGet, LockGranted, LockWaits, EnterSpin,
           LeaveSpin, AfterSpin, Retry, Requests, Goto
      <3> QED BY <3>1 DEF Committing
    <2> QED BY <2>1, <2>2, <2>3
  <1>5. ASSUME NEW u \in Threads, NEW i \in 1..Len(accesses[u])
        PROVE  Uncommitted(u, i)' <=> Uncommitted(u, i)
    <2>1. CASE u = t
      <3>1. accesses[t] # <<>>
        BY <1>0, <1>5, <2>1
      <3> QED BY <1>2, <1>4, <2>1, <3>1 DEF Uncommitted
    <2>2. CASE u # t
      BY <1>2, <1>3, <2>2 DEF Uncommitted, Committing
    <2> QED BY <2>1, <2>2
  <1>6. \A r \in Rows : Dirty(r)' <=> Dirty(r)
    BY <1>2, <1>5 DEF Dirty
  <1>7. ASSUME NEW u \in Threads PROVE Saved(u)' /\ Begun(u)'
    <2>1. Saved(u) /\ Begun(u)
      BY DEF SInv
    <2>2. Saved(u)'
      BY <1>1, <1>2, <2>1 DEF Saved
    <2>3. Begun(u)'
      <3>1. CASE u # t
        BY <1>3, <2>1, <3>1 DEF Begun
      <3>2. CASE u = t
        <4>1. CASE GetNextQuery(t)
          <5>1. PICK q \in Queries : query' = [query EXCEPT ![t] = q]
            BY <4>1 DEF GetNextQuery
          <5> QED BY <1>0, <3>2, <5>1 DEF Begun
        <4>2. CASE ~ GetNextQuery(t)
          <5>1. pc[t] \notin {"idle", "finished"} /\ query'[t] = query[t]
            BY <1>0, <4>2 DEF Step, LockGet, LockGranted, LockWaits, LockAborts, EnterSpin,
               LeaveSpin, AfterSpin, GiveUp, TxnCommitted, TxnAborted, Retry, Requests,
               threadVars
          <5> QED BY <2>1, <3>2, <5>1 DEF Begun
        <4> QED BY <4>1, <4>2
      <3> QED BY <3>1, <3>2
    <2> QED BY <2>2, <2>3
  <1> QED BY <1>1, <1>6, <1>7, CleanSame

\* A transaction uses a row nobody has written, or has if it writes it itself.
LEMMA UseRowStep ==
  ASSUME SInv, NEW t \in Threads, UseRow(t)
  PROVE  /\ \A u \in Threads : Saved(u)' /\ Begun(u)'
         /\ Clean' = Clean /\ out' = out
  <1> DEFINE acc == accesses[t]
             n   == Len(acc)
             r   == CurRow(t)
             wr  == Cur(t).type = "WR"
             a   == [row |-> r, type |-> Cur(t).type, orig_data |-> data[r]]
  <1>0. IInv /\ Progress(t) /\ pc[t] = "granted" /\ Len(acc) < Len(query[t]) /\ TypeOK
    BY DEF SInv, IInv, UseRow, Progress
  <1>1. /\ r \in Rows /\ \A i \in 1..n : acc[i].row # r
        /\ Cur(t).type \in AccessType
    BY <1>0, RequestLemma
  <1>2. /\ accesses' = [accesses EXCEPT ![t] = Append(acc, a)]
        /\ data' = IF wr THEN [data EXCEPT ![r] = @ + 1] ELSE data
        /\ pc' = [pc EXCEPT ![t] = "run"] /\ rc' = rc /\ out' = out /\ query' = query
    BY DEF UseRow, Goto, threadVars
  <1>3. /\ acc \in Seq(Access) /\ n \in Nat /\ data \in [Rows -> Nat]
        /\ accesses \in [Threads -> Seq(Access)] /\ pc \in [Threads -> PC]
    BY <1>0, AccessFacts DEF TypeOK
  <1>4. a.row = r /\ a.type = Cur(t).type /\ a.orig_data = data[r]
    OBVIOUS
  <1>5. Has(t, r) /\ (wr => HasExclusive(t, r))
    BY <1>0 DEF Has, HasExclusive, Got, CurMode, LockMode
  <1> HIDE DEF a, acc, r, wr
  <1>6. /\ accesses'[t] = Append(acc, a) /\ Len(Append(acc, a)) = n + 1
        /\ Append(acc, a)[n + 1] = a /\ \A i \in 1..n : Append(acc, a)[i] = acc[i]
        /\ \A u \in Threads \ {t} : accesses'[u] = accesses[u] /\ pc'[u] = pc[u]
    BY <1>2, <1>3 DEF n
  <1>7. /\ wr => data'[r] = data[r] + 1 /\ \A q \in Rows \ {r} : data'[q] = data[q]
        /\ ~ wr => data' = data
        /\ data[r] \in Nat
    BY <1>1, <1>2, <1>3
  <1>8. ASSUME wr, NEW u \in Threads, NEW i \in 1..Len(accesses[u])
        PROVE  accesses[u][i].row # r /\ accesses[u][i].row \in Rows
    <2>1. accesses[u][i].row \in Rows
      BY <1>0, AccessFacts
    <2>2. CASE u = t
      BY <1>1, <1>8, <2>1, <2>2 DEF acc
    <2>3. CASE u # t
      <3>1. accesses[u][i].row = r => Has(u, r)
        BY DEF Has
      <3> QED BY <1>0, <1>1, <1>5, <1>8, <2>1, <2>3, <3>1, SoleOwner
    <2> QED BY <2>2, <2>3
  <1>9. \A i \in 1..(n + 1) : i \in 1..n \/ i = n + 1
    BY <1>3
  <1>10. ASSUME NEW u \in Threads PROVE Saved(u)' /\ Begun(u)'
    <2>1. Saved(u) /\ Begun(u)
      BY DEF SInv
    <2>2. \A i \in 1..Len(accesses[u]) : data'[accesses[u][i].row] = data[accesses[u][i].row]
      BY <1>7, <1>8
    <2>3. CASE u # t
      BY <1>2, <1>6, <2>1, <2>2, <2>3 DEF Saved, Begun
    <2>4. CASE u = t
      <3>1. data'[r] = a.orig_data + (IF a.type = "WR" THEN 1 ELSE 0)
        BY <1>4, <1>7 DEF wr
      <3>2. ASSUME NEW i \in 1..(n + 1)
            PROVE  data'[Append(acc, a)[i].row] =
                     Append(acc, a)[i].orig_data
                       + (IF Append(acc, a)[i].type = "WR" THEN 1 ELSE 0)
        <4>1. CASE i = n + 1
          BY <1>4, <1>6, <3>1, <4>1
        <4>2. CASE i \in 1..n
          BY <1>6, <2>1, <2>2, <2>4, <4>2 DEF Saved, acc, n
        <4> QED BY <1>9, <4>1, <4>2
      <3>3. Saved(u)'
        BY <1>6, <2>4, <3>2 DEF Saved
      <3>4. Begun(u)'
        BY <1>0, <1>2, <2>1, <2>4 DEF Begun
      <3> QED BY <3>3, <3>4
    <2> QED BY <2>3, <2>4
  <1>11. \A u \in Threads : Committing(u)' <=> Committing(u)
    BY <1>0, <1>2, <1>3 DEF Committing
  <1>12. ~ Committing(t)
    BY <1>0 DEF Committing
  <1>13. ASSUME NEW q \in Rows PROVE Dirty(q)' <=> Dirty(q) \/ (q = r /\ wr)
    <2> DEFINE D(u)  == \E i \in 1..Len(accesses[u]) :
                          accesses[u][i].row = q /\ Uncommitted(u, i)
               D1(u) == \E i \in 1..Len(accesses'[u]) :
                          accesses'[u][i].row = q /\ Uncommitted(u, i)'
    <2>1. \A u \in Threads \ {t} : D1(u) <=> D(u)
      BY <1>6, <1>11 DEF Uncommitted
    <2>2. D(t) <=> \E i \in 1..n : acc[i].row = q /\ acc[i].type = "WR"
      BY <1>12 DEF Uncommitted, acc, n
    <2>3. D1(t) <=> \E i \in 1..(n + 1) : /\ Append(acc, a)[i].row = q
                                         /\ Append(acc, a)[i].type = "WR"
      BY <1>6, <1>11, <1>12 DEF Uncommitted
    <2>4. D1(t) <=> D(t) \/ (q = r /\ wr)
      BY <1>3, <1>4, <1>6, <1>9, <2>2, <2>3 DEF wr
    <2>5. (Dirty(q) <=> \E u \in Threads : D(u)) /\ (Dirty(q)' <=> \E u \in Threads : D1(u))
      BY DEF Dirty
    <2> HIDE DEF D, D1
    <2> QED BY <2>1, <2>4, <2>5
  <1>14. wr => ~ Dirty(r)
    BY <1>8 DEF Dirty
  <1>15. ASSUME NEW q \in Rows PROVE Clean'[q] = Clean[q]
    <2>1. /\ Clean[q] = IF Dirty(q) THEN data[q] - 1 ELSE data[q]
          /\ Clean'[q] = IF Dirty(q)' THEN data'[q] - 1 ELSE data'[q]
      BY DEF Clean
    <2> QED BY <1>7, <1>13, <1>14, <2>1
  <1>16. Clean' = Clean
    BY <1>15 DEF Clean
  <1> QED BY <1>2, <1>10, <1>16

\* A transaction commits: it read the committed values, and from now on its own
\* writes are committed.
LEMMA FinishTxnStep ==
  ASSUME SInv, NEW t \in Threads, FinishTxn(t)
  PROVE  /\ \A u \in Threads : Saved(u)' /\ Begun(u)'
         /\ query[t] \in Queries
         /\ out' = [out EXCEPT ![t] =
                      [query |-> query[t],
                       saw |-> [i \in DOMAIN query[t] |-> Clean[query[t][i].row]]]]
         /\ Clean' = [r \in Rows |-> IF Serial!Writes(query[t], r)
                                     THEN Clean[r] + 1 ELSE Clean[r]]
  <1> DEFINE n == Len(accesses[t])
  <1>0. IInv /\ TypeOK /\ Progress(t) /\ Saved(t) /\ Begun(t)
    BY DEF SInv, IInv
  <1>1. /\ pc[t] = "run" /\ n = Len(query[t]) /\ rc' = [rc EXCEPT ![t] = "RCOK"]
        /\ pc' = [pc EXCEPT ![t] = "cleanup"]
        /\ accesses' = accesses /\ data' = data /\ query' = query
        /\ out' = [out EXCEPT ![t] =
                     [query |-> query[t],
                      saw |-> [i \in DOMAIN accesses[t] |-> accesses[t][i].orig_data]]]
    BY DEF FinishTxn, Goto, threadVars
  <1>2. /\ n \in Nat /\ DOMAIN accesses[t] = 1..n /\ DOMAIN query[t] = 1..n
        /\ \A i \in 1..n : /\ accesses[t][i].row \in Rows
                           /\ accesses[t][i].type \in AccessType
                           /\ accesses[t][i].orig_data \in Nat
                           /\ accesses[t][i].row = query[t][i].row
                           /\ accesses[t][i].type = query[t][i].type
        /\ data \in [Rows -> Nat]
    BY <1>0, <1>1, AccessFacts DEF Progress
  <1>3. query[t] \in Queries
    BY <1>0, <1>1 DEF Begun
  <1>4. /\ ~ Committing(t) /\ Committing(t)'
        /\ \A u \in Threads \ {t} : Committing(u)' <=> Committing(u)
    BY <1>0, <1>1 DEF Committing, TypeOK
  <1> DEFINE W(r) == \E i \in 1..n : accesses[t][i].row = r /\ accesses[t][i].type = "WR"
             Others(r) == \E u \in Threads \ {t} : \E i \in 1..Len(accesses[u]) :
                            accesses[u][i].row = r /\ Uncommitted(u, i)
  <1>5. ASSUME NEW r \in Rows
        PROVE  (Dirty(r) <=> W(r) \/ Others(r)) /\ (Dirty(r)' <=> Others(r))
    <2>1. \A u \in Threads \ {t} : \A i \in 1..Len(accesses[u]) :
            Uncommitted(u, i)' <=> Uncommitted(u, i)
      BY <1>1, <1>4 DEF Uncommitted
    <2>2. \A i \in 1..n : /\ ~ Uncommitted(t, i)'
                          /\ Uncommitted(t, i) <=> accesses[t][i].type = "WR"
      BY <1>4 DEF Uncommitted
    <2>3. Dirty(r) <=> W(r) \/ Others(r)
      BY <2>2 DEF Dirty
    <2>4. Dirty(r)' <=> Others(r)
      BY <1>1, <2>1, <2>2 DEF Dirty
    <2> QED BY <2>3, <2>4
  <1>6. ASSUME NEW i \in 1..n PROVE ~ Others(accesses[t][i].row)
    <2> SUFFICES ASSUME NEW u \in Threads \ {t}, NEW j \in 1..Len(accesses[u]),
                        accesses[u][j].row = accesses[t][i].row, accesses[u][j].type = "WR"
                 PROVE  FALSE
      BY DEF Uncommitted
    <2>1. Has(t, accesses[u][j].row)
      BY DEF Has
    <2> QED BY <1>0, <2>1, WriterAlone
  <1>7. ASSUME NEW i \in 1..n
        PROVE  Clean[query[t][i].row] = accesses[t][i].orig_data
    <2> DEFINE r == accesses[t][i].row
    <2>1. r \in Rows /\ query[t][i].row = r
      BY <1>2
    <2>2. Dirty(r) <=> accesses[t][i].type = "WR"
      <3>1. \A j \in 1..n : accesses[t][j].row = r => j = i
        BY <1>0, AccessFacts
      <3> QED BY <1>5, <1>6, <2>1, <3>1
    <2>3. data[r] = accesses[t][i].orig_data + (IF accesses[t][i].type = "WR" THEN 1 ELSE 0)
      BY <1>0 DEF Saved
    <2>4. Clean[r] = IF Dirty(r) THEN data[r] - 1 ELSE data[r]
      BY <2>1 DEF Clean
    <2> QED BY <1>2, <2>1, <2>2, <2>3, <2>4
  <1>8. [i \in DOMAIN accesses[t] |-> accesses[t][i].orig_data]
          = [i \in DOMAIN query[t] |-> Clean[query[t][i].row]]
    BY <1>2, <1>7
  <1>9. ASSUME NEW r \in Rows
        PROVE  Clean'[r] = IF Serial!Writes(query[t], r) THEN Clean[r] + 1 ELSE Clean[r]
    <2>1. Serial!Writes(query[t], r) <=> W(r)
      BY <1>2 DEF Serial!Writes
    <2>2. /\ Clean[r] = IF Dirty(r) THEN data[r] - 1 ELSE data[r]
          /\ Clean'[r] = IF Dirty(r)' THEN data[r] - 1 ELSE data[r]
      BY <1>1 DEF Clean
    <2>3. W(r) => ~ Others(r)
      BY <1>6
    <2>4. data[r] \in Nat
      BY <1>2
    <2> QED BY <1>5, <2>1, <2>2, <2>3, <2>4
  <1>10. Clean' = [r \in Rows |-> IF Serial!Writes(query[t], r)
                                  THEN Clean[r] + 1 ELSE Clean[r]]
    BY <1>9 DEF Clean
  <1>11. \A u \in Threads : Saved(u)' /\ Begun(u)'
    BY <1>0, <1>1 DEF SInv, Saved, Begun, TypeOK
  <1> QED BY <1>1, <1>3, <1>8, <1>10, <1>11

\* A row that is given back has its committed value, and nobody else has it
\* if that is not the value it had.
LEMMA ReturnRowStep ==
  ASSUME SInv, NEW t \in Threads, ReturnRow(t)
  PROVE  /\ \A u \in Threads : Saved(u)' /\ Begun(u)'
         /\ Clean' = Clean /\ out' = out
  <1> DEFINE n == Len(accesses[t])
             r == accesses[t][n].row
             undone == rc[t] = "Abort" /\ accesses[t][n].type = "WR"
  <1>0. IInv /\ TypeOK /\ Saved(t) /\ accesses[t] \in Seq(Access) /\ accesses[t] # <<>>
    BY DEF SInv, IInv, TypeOK, ReturnRow, Returned
  <1>1. /\ n \in Nat \ {0} /\ Len(Front(accesses[t])) = n - 1
        /\ \A i \in 1..(n - 1) : Front(accesses[t])[i] = accesses[t][i]
        /\ Last(accesses[t]) = accesses[t][n]
    <2>1. n \in Nat \ {0}
      BY <1>0
    <2>2. PICK m \in Nat \ {0} : m = n
      BY <2>1
    <2> HIDE DEF r, undone
    <2> QED BY <1>0, <2>2, FrontLemma
  <1>2. /\ pc[t] = "cleanup" /\ pc' = pc /\ rc' = rc /\ out' = out /\ query' = query
        /\ data' = [data EXCEPT ![r] = IF undone THEN accesses[t][n].orig_data
                                        ELSE data[r]]
        /\ accesses' = [accesses EXCEPT ![t] = Front(accesses[t])]
    BY <1>1 DEF ReturnRow, Restored, threadVars
  <1>3. /\ r \in Rows /\ data \in [Rows -> Nat] /\ accesses[t][n].orig_data \in Nat
        /\ \A i \in 1..n : accesses[t][i].row \in Rows
        /\ \A i \in 1..(n - 1) : accesses[t][i].row # r
    BY <1>0, <1>1, AccessFacts
  <1>4. /\ Len(accesses'[t]) = n - 1
        /\ \A i \in 1..(n - 1) : accesses'[t][i] = accesses[t][i]
        /\ \A u \in Threads \ {t} : accesses'[u] = accesses[u]
    BY <1>0, <1>1, <1>2 DEF TypeOK
  <1>5. /\ undone => data[r] = accesses[t][n].orig_data + 1 /\ data'[r] = data[r] - 1
        /\ ~ undone => data'[r] = data[r]
        /\ \A q \in Rows \ {r} : data'[q] = data[q]
        /\ data[r] \in Nat
    <2>1. data[r] = accesses[t][n].orig_data + (IF accesses[t][n].type = "WR" THEN 1 ELSE 0)
      BY <1>0, <1>1 DEF Saved
    <2>2. /\ data'[r] = IF undone THEN accesses[t][n].orig_data ELSE data[r]
          /\ \A q \in Rows \ {r} : data'[q] = data[q]
          /\ data[r] \in Nat
      BY <1>2, <1>3
    <2> QED BY <1>3, <2>1, <2>2
  <1>6. ASSUME undone, NEW u \in Threads \ {t}, NEW i \in 1..Len(accesses[u])
        PROVE  accesses[u][i].row # r
    <2>1. accesses[u][i].row = r => Has(u, r)
      BY DEF Has
    <2>2. n \in 1..Len(accesses[t])
      BY <1>1
    <2> QED BY <1>0, <1>6, <2>1, <2>2, WriterAlone
  <1> HIDE DEF undone
  <1>7. ASSUME NEW u \in Threads PROVE Saved(u)' /\ Begun(u)'
    <2>1. Saved(u) /\ Begun(u)
      BY DEF SInv
    <2>2. Begun(u)'
      BY <1>2, <2>1 DEF Begun
    <2>3. CASE u = t
      <3>1. \A i \in 1..(n - 1) : i \in 1..n /\ data'[accesses[t][i].row] = data[accesses[t][i].row]
        BY <1>1, <1>3, <1>5
      <3> QED BY <1>4, <2>1, <2>2, <2>3, <3>1 DEF Saved
    <2>4. CASE u # t
      <3>1. \A i \in 1..Len(accesses[u]) : accesses[u][i].row \in Rows
        BY <1>0, AccessFacts
      <3>2. \A i \in 1..Len(accesses[u]) : data'[accesses[u][i].row] = data[accesses[u][i].row]
        BY <1>5, <1>6, <2>4, <3>1
      <3> QED BY <1>4, <2>1, <2>2, <2>4, <3>2 DEF Saved
    <2> QED BY <2>3, <2>4
  <1>8. \A u \in Threads : Committing(u)' <=> Committing(u)
    BY <1>2 DEF Committing
  <1>9. Committing(t) <=> rc[t] # "Abort"
    BY <1>0, <1>2 DEF Committing, TypeOK
  <1> DEFINE D(u, q) == \E i \in 1..Len(accesses[u]) :
                          accesses[u][i].row = q /\ Uncommitted(u, i)
             D1(u, q) == \E i \in 1..Len(accesses'[u]) :
                           accesses'[u][i].row = q /\ Uncommitted(u, i)'
  <1>10. \A q \in Rows : /\ Dirty(q) <=> \E u \in Threads : D(u, q)
                         /\ Dirty(q)' <=> \E u \in Threads : D1(u, q)
    BY DEF Dirty
  <1>11. \A q \in Rows, u \in Threads \ {t} : D1(u, q) <=> D(u, q)
    BY <1>4, <1>8 DEF Uncommitted
  <1>12. \A i \in 1..n : i \in 1..(n - 1) \/ i = n
    BY <1>1
  <1>13. \A i \in 1..(n - 1) : i \in 1..n
    BY <1>1
  <1>14. \A i \in 1..n : Uncommitted(t, i) <=> accesses[t][i].type = "WR" /\ rc[t] = "Abort"
    BY <1>9 DEF Uncommitted
  <1>15. \A i \in 1..(n - 1) : Uncommitted(t, i)' <=> accesses[t][i].type = "WR" /\ rc[t] = "Abort"
    BY <1>4, <1>8, <1>9 DEF Uncommitted
  <1>16. \A q \in Rows : D(t, q) <=> D1(t, q) \/ (q = r /\ undone)
    <2> TAKE q \in Rows
    <2>1. D(t, q) <=> \E i \in 1..n : /\ accesses[t][i].row = q
                                      /\ accesses[t][i].type = "WR" /\ rc[t] = "Abort"
      BY <1>14
    <2>2. D1(t, q) <=> \E i \in 1..(n - 1) : /\ accesses[t][i].row = q
                                             /\ accesses[t][i].type = "WR" /\ rc[t] = "Abort"
      BY <1>4, <1>15
    <2>3. n \in 1..n
      BY <1>1
    <2> QED BY <1>12, <1>13, <2>1, <2>2, <2>3 DEF undone
  <1>17. ~ D1(t, r)
    BY <1>3, <1>4
  <1>18. undone => \A u \in Threads \ {t} : ~ D(u, r)
    BY <1>6
  <1> HIDE DEF D, D1
  <1>19. ASSUME NEW q \in Rows PROVE Clean'[q] = Clean[q]
    <2>1. /\ Clean[q] = IF Dirty(q) THEN data[q] - 1 ELSE data[q]
          /\ Clean'[q] = IF Dirty(q)' THEN data'[q] - 1 ELSE data'[q]
      BY DEF Clean
    <2>2. CASE q = r /\ undone
      <3>1. Dirty(q) /\ ~ Dirty(q)'
        BY <1>10, <1>11, <1>16, <1>17, <1>18, <2>2
      <3> QED BY <1>5, <2>1, <2>2, <3>1
    <2>3. CASE ~ (q = r /\ undone)
      <3>1. Dirty(q)' <=> Dirty(q)
        BY <1>10, <1>11, <1>16, <2>3
      <3>2. data'[q] = data[q]
        BY <1>5, <2>3
      <3> QED BY <2>1, <3>1, <3>2
    <2> QED BY <2>2, <2>3
  <1>20. Clean' = Clean
    BY <1>19 DEF Clean
  <1> QED BY <1>2, <1>7, <1>20

\* Timeouts and the flags that the deadlock detector sets.
LEMMA QuietSteps ==
  ASSUME SInv, NEW t \in Threads, NEW v \in Threads,
         Timeout(t) \/ Victim(t, v)
  PROVE  /\ \A u \in Threads : Saved(u)' /\ Begun(u)'
         /\ Clean' = Clean /\ out' = out
  <1>1. accesses' = accesses /\ data' = data /\ query' = query /\ rc' = rc /\ out' = out
    BY DEF Timeout, Victim, threadVars
  <1>2. \A u \in Threads :
          pc'[u] = pc[u] \/ (pc[u] = "spin" /\ pc'[u] = "leave")
    BY DEF SInv, IInv, TypeOK, Timeout, Victim, Goto
  <1>3. \A u \in Threads : Saved(u)' /\ Begun(u)'
    BY <1>1, <1>2 DEF SInv, Saved, Begun
  <1>4. \A u \in Threads : Committing(u)' <=> Committing(u)
    BY <1>1, <1>2 DEF Committing
  <1>5. \A r \in Rows : Dirty(r)' <=> Dirty(r)
    BY <1>1, <1>4 DEF Dirty, Uncommitted
  <1>6. Clean' = Clean
    BY <1>1, <1>5, CleanSame
  <1> QED BY <1>1, <1>3, <1>6

\* Every step is one transaction of the serial store or leaves it alone.
LEMMA SerialStep ==
  ASSUME SInv, [Next]_vars
  PROVE  SInv' /\ [Serial!Next]_(Serial!vars)
  <1>0. IInv'
    BY NextLemma DEF SInv
  <1>1. CommittedData = Clean
    BY Committed
  <1> DEFINE Same == /\ \A u \in Threads : Saved(u)' /\ Begun(u)'
                     /\ Clean' = Clean /\ out' = out
  <1>2. ASSUME Same PROVE SInv' /\ [Serial!Next]_(Serial!vars)
    <2>1. SInv'
      BY <1>0, <1>2 DEF SInv
    <2>2. CommittedData' = Clean'
      BY <2>1, CommittedNext DEF CommittedIsClean
    <2>3. CommittedData' = CommittedData /\ out' = out
      BY <1>1, <1>2, <2>2
    <2> QED BY <2>1, <2>3 DEF Serial!vars
  <1>3. ASSUME NEW t \in Threads, FinishTxn(t)
        PROVE  SInv' /\ [Serial!Next]_(Serial!vars)
    <2>1. /\ \A u \in Threads : Saved(u)' /\ Begun(u)'
          /\ query[t] \in Queries
          /\ out' = [out EXCEPT ![t] =
                      [query |-> query[t],
                       saw |-> [i \in DOMAIN query[t] |-> Clean[query[t][i].row]]]]
          /\ Clean' = [r \in Rows |-> IF Serial!Writes(query[t], r)
                                      THEN Clean[r] + 1 ELSE Clean[r]]
      BY <1>3, FinishTxnStep
    <2>2. SInv'
      BY <1>0, <2>1 DEF SInv
    <2>3. CommittedData' = Clean'
      BY <2>2, CommittedNext DEF CommittedIsClean
    <2>4. Serial!Commit(t, query[t])
      BY <1>1, <2>1, <2>3 DEF Serial!Commit
    <2> QED BY <2>1, <2>2, <2>4 DEF Serial!Next
  <1>4. ASSUME NEW t \in Threads, Step(t) PROVE SInv' /\ [Serial!Next]_(Serial!vars)
    <2>1. CASE FinishTxn(t)
      BY <1>3, <2>1
    <2>2. CASE UseRow(t)
      BY <1>2, <2>2, UseRowStep
    <2>3. CASE ReturnRow(t)
      BY <1>2, <2>3, ReturnRowStep
    <2>4. CASE ~ UseRow(t) /\ ~ FinishTxn(t) /\ ~ ReturnRow(t)
      BY <1>2, <1>4, <2>4, OtherSteps
    <2> QED BY <2>1, <2>2, <2>3, <2>4
  <1>5. ASSUME NEW t \in Threads, NEW v \in Threads, Timeout(t) \/ Victim(t, v)
        PROVE  SInv' /\ [Serial!Next]_(Serial!vars)
    BY <1>2, <1>5, QuietSteps
  <1>6. ASSUME UNCHANGED vars PROVE SInv' /\ [Serial!Next]_(Serial!vars)
    <2>1. /\ accesses' = accesses /\ data' = data /\ query' = query /\ rc' = rc
          /\ out' = out /\ pc' = pc
      BY <1>6 DEF vars
    <2>2. \A u \in Threads : Saved(u)' /\ Begun(u)'
      BY <2>1 DEF SInv, Saved, Begun
    <2>3. Clean' = Clean
      BY <2>1 DEF Clean, Dirty, Uncommitted, Committing
    <2> QED BY <1>2, <2>1, <2>2, <2>3
  <1> QED BY <1>4, <1>5, <1>6 DEF Next, Terminated

LEMMA SerialInit ==
  ASSUME Init
  PROVE  SInv /\ Serial!Init
  <1>1. IInv
    BY InitLemma
  <1>2. SInv
    BY <1>1 DEF SInv, Saved, Begun, Init
  <1>3. CommittedData = Clean
    BY <1>2, Committed
  <1>4. ASSUME NEW r \in Rows PROVE Clean[r] = 0
    BY DEF Init, Clean, Dirty
  <1>5. CommittedData = [r \in Rows |-> 0]
    BY <1>3, <1>4 DEF Clean
  <1> QED BY <1>2, <1>5 DEF Init, Serial!Init, NoOutput, Serial!NoOutput

\* The three locking schemes are serializable and atomic, for any queries that
\* name no row twice: every behaviour of the lock manager, the access path
\* and the worker loop is, in the committed values and in what committed
\* transactions read, a behaviour of the store that runs one transaction at
\* a time.
THEOREM Refinement == Spec => Serializable
  <1>1. SInv /\ [Next]_vars => SInv' /\ [Serial!Next]_(Serial!vars)
    BY SerialStep
  <1>2. Init => SInv /\ Serial!Init
    BY SerialInit
  <1> QED BY <1>1, <1>2, PTL DEF Spec, Serializable, Serial!Spec

------------------------------------------------------------------------------
(***************************************************************************)
(* WAIT_DIE: a transaction waits only for younger ones, and when no two    *)
(* have the same timestamp there is no deadlock                            *)
(***************************************************************************)

\* Waiters of row r are not younger than its owners or than who is ahead.
Ordered(r) ==
  \A i \in 1..Len(waiters[r]) :
    /\ \A o \in owners[r] : Ts[waiters[r][i].txn] <= Ts[o]
    /\ \A j \in 1..(i - 1) : Ts[waiters[r][i].txn] <= Ts[waiters[r][j].txn]

LEMMA OrderedLemma ==
  ASSUME TypeOK
  PROVE  WaitsForYounger <=> (CC_ALG = "WAIT_DIE" => \A r \in Rows : Ordered(r))
  <1>1. \A r \in Rows : DOMAIN waiters[r] = 1..Len(waiters[r])
    BY DEF TypeOK
  <1> QED BY <1>1 DEF WaitsForYounger, Ordered

\* The timestamps along the list of a row.
LEMMA WaiterTs ==
  ASSUME TypeOK, NEW r \in Rows
  PROVE  /\ Len(waiters[r]) \in Nat
         /\ \A i \in 1..Len(waiters[r]) :
              waiters[r][i].txn \in Threads /\ Ts[waiters[r][i].txn] \in Nat
         /\ \A o \in owners[r] : Ts[o] \in Nat
  <1>1. waiters[r] \in Seq(Entry) /\ owners[r] \in SUBSET Threads
    BY DEF TypeOK
  <1> QED BY <1>1, EntryLemma, TsAssumption

LEMMA ReleaseOrdered ==
  ASSUME TypeOK, TypeOK', NEW t \in Threads, NEW r \in Rows,
         NEW joined \in SUBSET Threads, Released(t, r, joined), Ordered(r)
  PROVE  Ordered(r)'
  <1>1. Len(waiters'[r]) \in Nat
    BY WaiterTs
  <1>2. ASSUME NEW i \in 1..Len(waiters'[r]), NEW o \in owners'[r]
        PROVE  Ts[waiters'[r][i].txn] <= Ts[o]
    <2>1. CASE o \in joined
      <3>1. PICK a \in 1..Len(waiters[r]), b \in 1..Len(waiters[r]) :
              a < b /\ waiters[r][a].txn = o /\ waiters[r][b] = waiters'[r][i]
        BY <2>1 DEF Released
      <3>2. a \in 1..(b - 1)
        BY <3>1, WaiterTs
      <3> QED BY <3>1, <3>2 DEF Ordered
    <2>2. CASE o \notin joined
      <3>1. o \in owners[r]
        BY <2>2 DEF Released, TypeOK
      <3>2. PICK a \in 1..Len(waiters[r]) : waiters'[r][i] = waiters[r][a]
        BY DEF Released, Thinned
      <3> QED BY <3>1, <3>2 DEF Ordered
    <2> QED BY <2>1, <2>2
  <1>3. ASSUME NEW i \in 1..Len(waiters'[r]), NEW j \in 1..(i - 1)
        PROVE  Ts[waiters'[r][i].txn] <= Ts[waiters'[r][j].txn]
    <2>1. j \in 1..Len(waiters'[r]) /\ j < i
      BY <1>1
    <2>2. PICK a \in 1..Len(waiters[r]), b \in 1..Len(waiters[r]) :
            a < b /\ waiters'[r][j] = waiters[r][a] /\ waiters'[r][i] = waiters[r][b]
      BY <2>1 DEF Released, Thinned
    <2>3. a \in 1..(b - 1)
      BY <2>2, WaiterTs
    <2> QED BY <2>2, <2>3 DEF Ordered
  <1> QED BY <1>2, <1>3 DEF Ordered

LEMMA GrantOrdered ==
  ASSUME IInv, CC_ALG = "WAIT_DIE", NEW t \in Threads, LockGranted(t),
         NEW r \in Rows, r = CurRow(t), Ordered(r)
  PROVE  Ordered(r)'
  <1>1. TypeOK
    BY DEF IInv
  <1>2. owners'[r] = owners[r] \union {t} /\ waiters'[r] = waiters[r]
    BY <1>1 DEF LockGranted, TypeOK
  <1>3. waiters[r] = <<>> \/ ~ (Ts[t] < Ts[Head(waiters[r]).txn])
    BY DEF LockGranted, MustYield
  <1>4. ASSUME NEW i \in 1..Len(waiters[r])
        PROVE  Ts[waiters[r][i].txn] <= Ts[t]
    <2>1. waiters[r] # <<>> /\ 1 \in 1..Len(waiters[r]) /\ Head(waiters[r]) = waiters[r][1]
      BY <1>1, WaiterTs DEF TypeOK
    <2>2. Ts[waiters[r][i].txn] <= Ts[waiters[r][1].txn]
      <3>1. CASE i = 1
        BY <3>1, <1>1, WaiterTs
      <3>2. CASE i # 1
        <4>1. 1 \in 1..(i - 1)
          BY <3>2, <1>1, WaiterTs
        <4> QED BY <4>1 DEF Ordered
      <3> QED BY <3>1, <3>2
    <2>3. Ts[waiters[r][1].txn] <= Ts[t]
      BY <1>1, <1>3, <2>1, WaiterTs, TsAssumption
    <2> QED BY <1>1, <2>1, <2>2, <2>3, WaiterTs, TsAssumption
  <1> QED BY <1>2, <1>4 DEF Ordered

LEMMA WaitOrdered ==
  ASSUME IInv, CC_ALG = "WAIT_DIE", NEW t \in Threads, LockWaits(t),
         NEW r \in Rows, r = CurRow(t), Ordered(r)
  PROVE  Ordered(r)'
  <1>1. TypeOK /\ CurMode(t) \in {LOCK_EX, LOCK_SH}
    BY RequestLemma DEF IInv, LockWaits, Requests
  <1>2. PICK w : w = waiters[r]
    OBVIOUS
  <1>3. PICK e : e = [txn |-> t, type |-> CurMode(t)]
    OBVIOUS
  <1>4. w \in Seq(Entry) /\ e \in Entry /\ e.txn = t
    BY <1>1, <1>2, <1>3 DEF TypeOK, Entry
  <1>5. PICK n \in 1..(Len(w) + 1) :
          InsertsAt(t, w, n) /\ waiters'[r] = InsertAt(w, n, e)
    BY <1>1, <1>2, <1>3 DEF LockWaits, TypeOK
  <1>6. /\ Len(waiters'[r]) = Len(w) + 1
        /\ \A k \in 1..(Len(w) + 1) :
             waiters'[r][k] = IF k < n THEN w[k] ELSE IF k = n THEN e ELSE w[k - 1]
    BY <1>4, <1>5, InsertLemma
  <1>7. /\ Len(w) \in Nat /\ Ts[t] \in Nat
        /\ \A i \in 1..Len(w) : Ts[w[i].txn] \in Nat
        /\ \A o \in owners[r] : Ts[o] \in Nat
    BY <1>1, <1>2, WaiterTs, TsAssumption
  <1>8. owners'[r] = owners[r] /\ \A o \in owners[r] : Ts[t] <= Ts[o]
    BY <1>7 DEF LockWaits, CanWait
  <1>9. /\ \A i \in 1..Len(w) : \A o \in owners[r] : Ts[w[i].txn] <= Ts[o]
        /\ \A i \in 1..Len(w) : \A j \in 1..(i - 1) : Ts[w[i].txn] <= Ts[w[j].txn]
    BY <1>2 DEF Ordered
  <1>10. /\ \A j \in 1..(n - 1) : Ts[t] < Ts[w[j].txn]
         /\ n <= Len(w) => ~ (Ts[t] < Ts[w[n].txn])
    BY <1>5 DEF InsertsAt
  <1>11. ASSUME NEW i \in n..Len(w)
         PROVE  Ts[w[i].txn] <= Ts[t]
    <2>1. Ts[w[n].txn] <= Ts[t] /\ n \in 1..Len(w) /\ i \in 1..Len(w)
      BY <1>7, <1>10
    <2>2. i = n \/ n \in 1..(i - 1)
      BY <1>7
    <2> QED BY <2>1, <2>2, <1>7, <1>9
  <1>12. ASSUME NEW i \in 1..(Len(w) + 1), NEW o \in owners[r]
         PROVE  Ts[waiters'[r][i].txn] <= Ts[o]
    <2>1. CASE i = n
      BY <2>1, <1>4, <1>6, <1>8
    <2>2. CASE i < n
      BY <2>2, <1>6, <1>7, <1>9
    <2>3. CASE i > n
      <3>1. i - 1 \in 1..Len(w) /\ waiters'[r][i] = w[i - 1]
        BY <2>3, <1>6, <1>7
      <3> QED BY <3>1, <1>9
    <2> QED BY <2>1, <2>2, <2>3, <1>7
  <1>13. ASSUME NEW i \in 1..(Len(w) + 1), NEW j \in 1..(i - 1)
         PROVE  Ts[waiters'[r][i].txn] <= Ts[waiters'[r][j].txn]
    <2> j \in Nat /\ i \in Nat /\ n \in Nat /\ j < i /\ j \in 1..(Len(w) + 1)
      BY <1>7
    <2>1. CASE i < n
      <3>1. i \in 1..Len(w) /\ j < n
        BY <2>1, <1>7
      <3>2. waiters'[r][i] = w[i] /\ waiters'[r][j] = w[j]
        BY <2>1, <3>1, <1>6
      <3> QED BY <3>1, <3>2, <1>9
    <2>2. CASE i = n
      <3>1. j \in 1..Len(w) /\ j \in 1..(n - 1) /\ j < n
        BY <2>2, <1>7
      <3>2. waiters'[r][i] = e /\ waiters'[r][j] = w[j]
        BY <2>2, <3>1, <1>6
      <3> QED BY <3>1, <3>2, <1>4, <1>7, <1>10
    <2>3. CASE i > n /\ j < n
      <3>1. /\ i - 1 \in 1..Len(w) /\ j \in 1..((i - 1) - 1)
            /\ ~ (i < n) /\ i # n
        BY <2>3, <1>7
      <3>2. waiters'[r][i] = w[i - 1] /\ waiters'[r][j] = w[j]
        BY <2>3, <3>1, <1>6
      <3> QED BY <3>1, <3>2, <1>9
    <2>4. CASE i > n /\ j = n
      <3>1. waiters'[r][i] = w[i - 1] /\ waiters'[r][j] = e /\ i - 1 \in n..Len(w)
        BY <2>4, <1>6, <1>7
      <3> QED BY <3>1, <1>4, <1>11
    <2>5. CASE i > n /\ j > n
      <3>1. /\ i - 1 \in 1..Len(w) /\ j - 1 \in 1..((i - 1) - 1)
            /\ ~ (i < n) /\ i # n /\ ~ (j < n) /\ j # n
        BY <2>5, <1>7
      <3>2. waiters'[r][i] = w[i - 1] /\ waiters'[r][j] = w[j - 1]
        BY <3>1, <1>6
      <3> QED BY <3>1, <3>2, <1>9
    <2> QED BY <2>1, <2>2, <2>3, <2>4, <2>5, <1>7
  <1> QED BY <1>6, <1>8, <1>12, <1>13 DEF Ordered

LEMMA OrderedStep ==
  ASSUME IInv, IInv', [Next]_vars, CC_ALG = "WAIT_DIE",
         NEW r \in Rows, Ordered(r)
  PROVE  Ordered(r)'
  <1>1. ASSUME owners'[r] = owners[r], waiters'[r] = waiters[r]
        PROVE  Ordered(r)'
    BY <1>1 DEF Ordered
  <1>2. TypeOK /\ TypeOK'
    BY DEF IInv
  <1>3. ASSUME NEW t \in Threads, LockGranted(t) PROVE Ordered(r)'
    <2>1. CASE r = CurRow(t)
      BY <1>3, <2>1, GrantOrdered
    <2>2. CASE r # CurRow(t)
      BY <1>1, <1>2, <1>3, <2>2 DEF LockGranted, TypeOK
    <2> QED BY <2>1, <2>2
  <1>4. ASSUME NEW t \in Threads, LockWaits(t) PROVE Ordered(r)'
    <2>1. CASE r = CurRow(t)
      BY <1>4, <2>1, WaitOrdered
    <2>2. CASE r # CurRow(t)
      BY <1>1, <1>2, <1>4, <2>2 DEF LockWaits, TypeOK
    <2> QED BY <2>1, <2>2
  <1>5. ASSUME NEW t \in Threads, NEW q \in Rows, lock_release(t, q)
        PROVE  Ordered(r)'
    <2>1. PICK joined \in SUBSET Threads : Released(t, q, joined)
      BY <1>5, ReleaseLemma
    <2>2. CASE q = r
      BY <1>2, <2>1, <2>2, ReleaseOrdered
    <2>3. CASE q # r
      <3>1. owners'[r] = owners[r] /\ waiters'[r] = waiters[r]
        BY <1>2, <2>1, <2>3 DEF Released, TypeOK
      <3> QED BY <1>1, <3>1
    <2> QED BY <2>2, <2>3
  <1>6. ASSUME NEW t \in Threads, GiveUp(t) PROVE Ordered(r)'
    <2>1. CurRow(t) \in Rows
      BY <1>6, RequestLemma DEF IInv, Progress, GiveUp, Waiting
    <2> QED BY <1>5, <1>6, <2>1 DEF GiveUp
  <1>7. ASSUME NEW t \in Threads, ReturnRow(t) PROVE Ordered(r)'
    <2>1. accesses[t] \in Seq(Access) /\ accesses[t] # <<>>
      BY <1>2, <1>7 DEF TypeOK, ReturnRow, Returned
    <2>2. Last(accesses[t]) \in Access
      BY <2>1, FrontLemma
    <2>3. Last(accesses[t]).row \in Rows
      BY <2>2 DEF Access
    <2> QED BY <1>5, <1>7, <2>3 DEF ReturnRow
  <1>8. ASSUME NEW t \in Threads,
               \/ GetNextQuery(t) \/ LockAborts(t) \/ EnterSpin(t) \/ LeaveSpin(t)
               \/ AfterSpin(t) \/ UseRow(t) \/ FinishTxn(t) \/ TxnCommitted(t)
               \/ TxnAborted(t) \/ Retry(t) \/ Timeout(t)
               \/ \E v \in Threads : Victim(t, v)
        PROVE  Ordered(r)'
    BY <1>1, <1>8
       DEF GetNextQuery, LockAborts, EnterSpin, LeaveSpin, AfterSpin, UseRow,
           FinishTxn, TxnCommitted, TxnAborted, Retry, Timeout, Victim, lockVars
  <1>9. CASE UNCHANGED vars
    BY <1>1, <1>9 DEF vars
  <1> QED BY <1>3, <1>4, <1>6, <1>7, <1>8, <1>9 DEF Next, Step, LockGet, Terminated

\* Under WAIT_DIE nobody waits for an older transaction, whatever the timestamps.
THEOREM OnlyForYounger == Spec => []WaitsForYounger
  <1>1. Init => WaitsForYounger
    BY DEF Init, WaitsForYounger
  <1>2. ASSUME IInv, IInv', WaitsForYounger, [Next]_vars
        PROVE  WaitsForYounger'
    <2>1. TypeOK /\ TypeOK'
      BY <1>2 DEF IInv
    <2>2. CC_ALG = "WAIT_DIE" => \A r \in Rows : Ordered(r)
      BY <1>2, <2>1, OrderedLemma
    <2>3. CC_ALG = "WAIT_DIE" => \A r \in Rows : Ordered(r)'
      BY <1>2, <2>2, OrderedStep
    <2>4. WaitsForYounger' <=> (CC_ALG = "WAIT_DIE" => \A r \in Rows : Ordered(r)')
      <3>1. \A r \in Rows : DOMAIN waiters'[r] = 1..Len(waiters'[r])
        BY <2>1 DEF TypeOK
      <3> QED BY <3>1 DEF WaitsForYounger, Ordered
    <2> QED BY <2>3, <2>4
  <1> QED BY <1>1, <1>2, Inductive, PTL DEF Spec

------------------------------------------------------------------------------
(***************************************************************************)
(* No deadlock                                                             *)
(***************************************************************************)

\* Thread t waits for u at row r: u has the lock or is ahead of t in the list.
LEMMA WaitsForLemma ==
  ASSUME IInv, NEW t \in Threads, NEW u \in Threads, WaitsFor(t, u)
  PROVE  \E r \in Rows : \E i \in 1..Len(waiters[r]) :
           /\ waiters[r][i].txn = t /\ Pending(t) /\ CurRow(t) = r /\ t # u
           /\ u \in owners[r] \/ \E j \in 1..Len(waiters[r]) : j < i /\ waiters[r][j].txn = u
  <1>1. PICK r \in Rows : \E i \in DOMAIN waiters[r] :
          /\ waiters[r][i].txn = t
          /\ u \in owners[r] \/ \E j \in 1..(i - 1) : waiters[r][j].txn = u
    BY DEF WaitsFor
  <1>2. PICK i \in DOMAIN waiters[r] :
          /\ waiters[r][i].txn = t
          /\ u \in owners[r] \/ \E j \in 1..(i - 1) : waiters[r][j].txn = u
    BY <1>1
  <1>3. Len(waiters[r]) \in Nat /\ i \in 1..Len(waiters[r])
    BY WaiterTs DEF IInv, TypeOK
  <1>4. Pending(t) /\ CurRow(t) = r /\ OneEach(waiters[r])
    BY <1>2, <1>3 DEF IInv, RowInv, WaitersExact
  <1>5. CASE u \in owners[r]
    BY <1>2, <1>3, <1>4, <1>5, OwnerNotQueued
  <1>6. CASE \E j \in 1..(i - 1) : waiters[r][j].txn = u
    <2>1. PICK j \in 1..(i - 1) : waiters[r][j].txn = u
      BY <1>6
    <2>2. j \in 1..Len(waiters[r]) /\ j < i
      BY <1>3
    <2>3. t # u
      BY <1>2, <1>3, <1>4, <2>1, <2>2 DEF OneEach
    <2> QED BY <1>2, <1>3, <1>4, <2>1, <2>2, <2>3
  <1> QED BY <1>2, <1>5, <1>6

\* A deadlock of threads that all have the same timestamp.
TiedDeadlock ==
  \E S \in SUBSET Threads :
    /\ S # {} /\ \A t \in S : \E u \in S \ {t} : WaitsFor(t, u)
    /\ \A t, u \in S : Ts[t] = Ts[u]

\* Whatever the timestamps, a deadlock under WAIT_DIE has threads of one
\* timestamp that wait for each other: only equal timestamps, which no
\* comparison in row_lock.cpp:95 puts in an order, let a deadlock arise.
THEOREM DeadlockFree ==
  ASSUME IsFiniteSet(Threads), CC_ALG = "WAIT_DIE"
  PROVE  Spec => [](NoDeadlock \/ TiedDeadlock)
  <1>1. ASSUME IInv, WaitsForYounger, ~ NoDeadlock PROVE TiedDeadlock
    <2>1. PICK S \in SUBSET Threads : S # {} /\ \A t \in S : \E u \in S : WaitsFor(t, u)
      BY <1>1 DEF NoDeadlock
    <2>2. PICK m \in S : \A u \in S : ~ (Ts[m] < Ts[u])
      <3>1. IsFiniteSet(S)
        BY FS_Subset
      <3>2. [t \in S |-> Ts[t]] \in [S -> Nat]
        BY TsAssumption
      <3>3. PICK m \in S : \A u \in S : ~ ([t \in S |-> Ts[t]][m] < [t \in S |-> Ts[t]][u])
        BY <2>1, <3>1, <3>2, GreatestLemma
      <3> QED BY <3>3
    <2> DEFINE M == {t \in S : Ts[t] = Ts[m]}
    <2>3. ASSUME NEW t \in M PROVE \E u \in M \ {t} : WaitsFor(t, u)
      <3>1. PICK u \in S : WaitsFor(t, u)
        BY <2>1
      <3>2. PICK r \in Rows : \E i \in 1..Len(waiters[r]) :
              /\ waiters[r][i].txn = t /\ t # u
              /\ \/ u \in owners[r]
                 \/ \E j \in 1..Len(waiters[r]) : j < i /\ waiters[r][j].txn = u
        BY <1>1, <3>1, WaitsForLemma
      <3>3. Ordered(r) /\ Len(waiters[r]) \in Nat
        BY <1>1, OrderedLemma, WaiterTs DEF IInv
      <3>4. Ts[t] <= Ts[u] /\ t # u
        BY <3>2, <3>3 DEF Ordered
      <3>5. Ts[t] \in Nat /\ Ts[u] \in Nat /\ ~ (Ts[m] < Ts[u]) /\ Ts[t] = Ts[m]
        BY <2>2, TsAssumption
      <3> QED BY <3>1, <3>4, <3>5
    <2>4. M \in SUBSET Threads /\ M # {} /\ \A t, u \in M : Ts[t] = Ts[u]
      OBVIOUS
    <2> HIDE DEF M
    <2> QED BY <2>3, <2>4 DEF TiedDeadlock
  <1> QED BY <1>1, Inductive, OnlyForYounger, PTL

\* With the requests of every query in the order of the keys (KEY_ORDER,
\* ycsb_query.cpp:137-147) nobody ever deadlocks, in none of the three schemes
\* and whatever the timestamps, so that the detector may be off (NO_DL,
\* config.h:71).
THEOREM KeyOrderDeadlockFree ==
  ASSUME IsFiniteSet(Threads), NEW key \in [Rows -> Nat],
         \A q \in Queries : \A i, j \in DOMAIN q : i < j => key[q[i].row] < key[q[j].row]
  PROVE  Spec => []NoDeadlock
  <1>1. ASSUME IInv, NEW S \in SUBSET Threads, S # {},
               \A t \in S : \E u \in S : WaitsFor(t, u)
        PROVE  FALSE
    <2>1. \A t \in S : Pending(t) /\ CurRow(t) \in Rows
      BY <1>1, WaitsForLemma
    <2>2. PICK m \in S : \A u \in S : ~ (key[CurRow(m)] < key[CurRow(u)])
      <3> DEFINE f == [t \in S |-> key[CurRow(t)]]
      <3>1. IsFiniteSet(S) /\ f \in [S -> Nat]
        BY <2>1, FS_Subset
      <3>2. PICK m \in S : \A u \in S : ~ (f[m] < f[u])
        BY <1>1, <3>1, GreatestLemma
      <3> QED BY <3>2
    <2> DEFINE r == CurRow(m)
               D == {i \in 1..Len(waiters[r]) : waiters[r][i].txn \in S}
    <2>3. r \in Rows /\ Len(waiters[r]) \in Nat
      BY <1>1, <2>1, WaiterTs DEF IInv
    <2>4. D # {}
      <3>1. \E i \in 1..Len(waiters[r]) : waiters[r][i].txn = m
        BY <1>1, <2>1, <2>3 DEF IInv, RowInv, WaitersExact
      <3> QED BY <3>1
    <2>5. PICK i \in D : \A j \in D : i <= j
      <3>1. D \in SUBSET (0..Len(waiters[r]))
        BY <2>3
      <3> HIDE DEF D
      <3> QED BY <2>3, <2>4, <3>1, LeastNumber
    <2>5a. PICK t \in S : t = waiters[r][i].txn
      OBVIOUS
    <2>6. CurRow(t) = r /\ i \in 1..Len(waiters[r]) /\ OneEach(waiters[r])
      BY <1>1, <2>3, <2>5a DEF IInv, RowInv, WaitersExact
    <2>7. PICK u \in S : WaitsFor(t, u)
      BY <1>1, <2>6
    <2>8. u \in owners[r] \/ \E j \in 1..Len(waiters[r]) : j < i /\ waiters[r][j].txn = u
      <3>0. t \in Threads /\ u \in Threads /\ IInv
        BY <1>1
      <3>1. PICK q \in Rows : \E k \in 1..Len(waiters[q]) :
              /\ waiters[q][k].txn = t /\ Pending(t) /\ CurRow(t) = q /\ t # u
              /\ \/ u \in owners[q]
                 \/ \E j \in 1..Len(waiters[q]) : j < k /\ waiters[q][j].txn = u
        BY <2>7, <3>0, WaitsForLemma
      <3>2. q = r
        BY <2>6, <3>1
      <3> QED BY <2>5a, <2>6, <3>1, <3>2 DEF OneEach
    <2>9. CASE u \in owners[r]
      <3>1. Has(u, r) /\ Pending(u) /\ Progress(u) /\ TypeOK
        BY <1>1, <2>1, <2>3, <2>9 DEF IInv, RowInv, OwnersExact
      <3>2. Len(accesses[u]) < Len(query[u])
        BY <3>1 DEF Progress, Pending
      <3>3. CurRow(u) # r => \E j \in 1..Len(accesses[u]) : query[u][j].row = r
        BY <3>1 DEF Has, Got, Pending, Progress, Waiting
      <3>4. CurRow(u) # r
        <4>1. CurRow(u) = r => \E j \in 1..Len(waiters[r]) : waiters[r][j].txn = u
          BY <1>1, <2>3, <3>1 DEF IInv, RowInv, WaitersExact
        <4> QED BY <1>1, <2>3, <2>9, <4>1, OwnerNotQueued
      <3>5. PICK j \in 1..Len(accesses[u]) : query[u][j].row = r
        BY <3>3, <3>4
      <3>6. /\ query[u] \in Queries /\ Len(accesses[u]) \in Nat
            /\ Len(accesses[u]) + 1 \in 1..Len(query[u])
        BY <3>1, <3>2, RequestLemma
      <3>7. DOMAIN query[u] = 1..Len(query[u]) /\ Len(query[u]) \in Nat
        BY <3>6, QueriesAssumption
      <3>8. /\ j \in DOMAIN query[u] /\ Len(accesses[u]) + 1 \in DOMAIN query[u]
            /\ j < Len(accesses[u]) + 1
        BY <3>6, <3>7
      <3>9. key[r] < key[CurRow(u)]
        BY <3>5, <3>6, <3>8 DEF CurRow, Cur
      <3> QED BY <2>2, <3>9
    <2>10. CASE \E j \in 1..Len(waiters[r]) : j < i /\ waiters[r][j].txn = u
      <3>1. PICK j \in 1..Len(waiters[r]) : j < i /\ waiters[r][j].txn = u
        BY <2>10
      <3>2. j \in D
        BY <3>1
      <3> QED BY <2>3, <2>5, <2>6, <3>1, <3>2
    <2> QED BY <2>8, <2>9, <2>10
  <1>2. IInv => NoDeadlock
    BY <1>1 DEF NoDeadlock
  <1> QED BY <1>2, Inductive, PTL

==============================================================================
