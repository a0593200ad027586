----------------------------- MODULE PLockProofs -----------------------------
(***************************************************************************)
(* Proofs about PLock for every set of threads, partitions and queries.    *)
(*                                                                         *)
(* The argument: a thread stands in the queue of, or owns, exactly the     *)
(* partitions it has asked for and not given back.  With that, a thread    *)
(* that takes a new timestamp stands in no queue, so the queues stay in    *)
(* the order of the timestamps; a thread whose counter is 0 owns all its   *)
(* partitions; and two threads that run have no partition in common.       *)
(***************************************************************************)
EXTENDS PLock, SeqLemmas, FiniteSetTheorems, TLAPS

------------------------------------------------------------------------------
(***************************************************************************)
(* Queues in the order of timestamps                                       *)
(***************************************************************************)

Members(q) == {q[k] : k \in 1..Len(q)}

Ascending(q, f) == \A j, k \in 1..Len(q) : j < k => f[q[j]] < f[q[k]]

\* The place n of q has the entries that are older than t before it.
Behind(q, f, t, n) == n \in 0..Len(q) /\ \A k \in 1..Len(q) : k <= n <=> f[q[k]] < f[t]

\* The loop of PartMan::lock stops behind the waiters that are older than t.
LEMMA BeforeLemma ==
  ASSUME NEW S, NEW q \in Seq(S), NEW f \in [S -> Nat], NEW t \in S, Ascending(q, f)
  PROVE  Behind(q, f, t, Cardinality({k \in 1..Len(q) : f[q[k]] < f[t]}))
  <1> DEFINE D == {k \in 1..Len(q) : f[q[k]] < f[t]}
  <1>1. \A k \in 1..Len(q) : q[k] \in S /\ f[q[k]] \in Nat
    OBVIOUS
  <1>2. Len(q) \in Nat /\ D \in SUBSET (1..Len(q)) /\ f[t] \in Nat
    OBVIOUS
  <1>3. ASSUME NEW k \in D, NEW j \in 1..k PROVE j \in D
    <2>1. j \in 1..Len(q) /\ k \in 1..Len(q) /\ f[q[k]] < f[t] /\ (j < k \/ j = k)
      BY <1>2
    <2>2. CASE j < k
      <3>1. f[q[j]] < f[q[k]]
        BY <2>1, <2>2 DEF Ascending
      <3> QED BY <1>1, <1>2, <2>1, <3>1
    <2> QED BY <2>1, <2>2
  <1>4. \A k \in 1..Len(q) : k \in D <=> f[q[k]] < f[t]
    OBVIOUS
  <1> HIDE DEF D
  <1>5. Cardinality(D) \in 0..Len(q) /\ D = 1..Cardinality(D)
    BY <1>2, <1>3, PrefixSet
  <1>6. \A k \in 1..Len(q) : k \in D <=> k <= Cardinality(D)
    BY <1>5
  <1> QED BY <1>4, <1>5, <1>6 DEF D, Behind

\* PartMan::lock puts a thread behind the older ones and before the younger.
LEMMA InsertAscending ==
  ASSUME NEW S, NEW q \in Seq(S), NEW f \in [S -> Nat], NEW t \in S,
         Ascending(q, f), \A k \in 1..Len(q) : f[q[k]] # f[t],
         NEW n \in Nat, Behind(q, f, t, n)
  PROVE  /\ InsertAt(q, n + 1, t) \in Seq(S)
         /\ Members(InsertAt(q, n + 1, t)) = Members(q) \union {t}
         /\ Ascending(InsertAt(q, n + 1, t), f)
  <1> DEFINE r == InsertAt(q, n + 1, t)
  <1>1. /\ n \in Nat /\ Len(q) \in Nat /\ n <= Len(q) /\ f[t] \in Nat
        /\ \A k \in 1..Len(q) : q[k] \in S /\ f[q[k]] \in Nat
        /\ \A k \in 1..Len(q) : k <= n <=> f[q[k]] < f[t]
    BY DEF Behind
  <1>2. /\ r \in Seq(S) /\ Len(r) = Len(q) + 1
        /\ \A k \in 1..(Len(q) + 1) : r[k] = IF k < n + 1 THEN q[k]
                                            ELSE IF k = n + 1 THEN t ELSE q[k - 1]
    <2> DEFINE m == n + 1
    <2>1. m \in 1..(Len(q) + 1)
      BY <1>1
    <2> HIDE DEF m
    <2>2. /\ InsertAt(q, m, t) \in Seq(S)
          /\ Len(InsertAt(q, m, t)) = Len(q) + 1
          /\ \A k \in 1..(Len(q) + 1) :
               InsertAt(q, m, t)[k] = IF k < m THEN q[k] ELSE IF k = m THEN t ELSE q[k - 1]
      BY <2>1, InsertLemma
    <2> QED BY <2>2 DEF m
  <1> HIDE DEF r
  <1>3. Members(r) = Members(q) \union {t}
    <2>1. ASSUME NEW k \in 1..Len(r) PROVE r[k] \in Members(q) \union {t}
      <3>1. CASE k < n + 1
        <4>1. k \in 1..Len(q) /\ k \in 1..(Len(q) + 1)
          BY <1>1, <1>2, <3>1
        <4>2. r[k] = q[k]
          BY <1>2, <3>1, <4>1
        <4> QED BY <4>1, <4>2 DEF Members
      <3>2. CASE k > n + 1
        <4>1. r[k] = q[k - 1] /\ k - 1 \in 1..Len(q)
          BY <1>1, <1>2, <3>2
        <4> QED BY <4>1 DEF Members
      <3> QED BY <1>1, <1>2, <3>1, <3>2
    <2>2. ASSUME NEW k \in 1..Len(q) PROVE q[k] \in Members(r)
      <3>1. CASE k < n + 1
        <4>1. q[k] = r[k] /\ k \in 1..Len(r)
          BY <1>2, <3>1
        <4> QED BY <4>1 DEF Members
      <3>2. CASE ~ (k < n + 1)
        <4>1. q[k] = r[k + 1] /\ k + 1 \in 1..Len(r)
          BY <1>1, <1>2, <3>2
        <4> QED BY <4>1 DEF Members
      <3> QED BY <3>1, <3>2
    <2>3. t = r[n + 1] /\ n + 1 \in 1..Len(r)
      BY <1>1, <1>2
    <2>4. t \in Members(r)
      BY <2>3 DEF Members
    <2> QED BY <2>1, <2>2, <2>4 DEF Members
  <1>4. ASSUME NEW j \in 1..Len(r), NEW k \in 1..Len(r), j < k
        PROVE  f[r[j]] < f[r[k]]
    <2>0. n \in Nat /\ n <= Len(q) /\ Len(q) \in Nat /\ j \in 1..(Len(q) + 1) /\ k \in 1..(Len(q) + 1)
      BY <1>1, <1>2
    <2>1. CASE k < n + 1
      <3>1. r[j] = q[j] /\ r[k] = q[k] /\ j \in 1..Len(q) /\ k \in 1..Len(q)
        <4>1. j < n + 1 /\ j \in 1..Len(q) /\ k \in 1..Len(q)
          BY <1>4, <2>0, <2>1
        <4> QED BY <1>2, <2>0, <2>1, <4>1
      <3> QED BY <1>4, <3>1 DEF Ascending
    <2>2. CASE k = n + 1
      <3>1. j \in 1..Len(q) /\ j <= n /\ r[j] = q[j] /\ r[k] = t
        BY <1>1, <1>2, <1>4, <2>0, <2>2
      <3> QED BY <1>1, <3>1
    <2>3. CASE k > n + 1
      <3>1. r[k] = q[k - 1] /\ k - 1 \in 1..Len(q) /\ ~ (k - 1 <= n)
        BY <1>1, <1>2, <2>0, <2>3
      <3>2. f[q[k - 1]] > f[t]
        BY <1>1, <3>1
      <3>3. CASE j < n + 1
        <4>1. r[j] = q[j] /\ j \in 1..Len(q) /\ j <= n
          BY <1>1, <1>2, <2>0, <3>3
        <4>2. f[q[j]] < f[t] /\ f[q[j]] \in Nat /\ f[q[k-1]] \in Nat /\ f[t] \in Nat
          BY <1>1, <3>1, <4>1
        <4> QED BY <3>1, <3>2, <4>1, <4>2
      <3>4. CASE j = n + 1
        <4>1. r[j] = t
          BY <1>2, <2>0, <3>4
        <4> QED BY <3>1, <3>2, <4>1
      <3>5. CASE j > n + 1
        <4>1. r[j] = q[j - 1] /\ j - 1 \in 1..Len(q) /\ j - 1 < k - 1
          <5>1. j - 1 \in 1..Len(q) /\ j - 1 < k - 1 /\ ~ (j < n + 1) /\ j # n + 1
            BY <1>4, <2>0, <3>5
          <5> QED BY <1>2, <2>0, <5>1
        <4> QED BY <3>1, <4>1 DEF Ascending
      <3> QED BY <2>0, <3>3, <3>4, <3>5
    <2> QED BY <2>0, <2>1, <2>2, <2>3
  <1> QED BY <1>2, <1>3, <1>4 DEF Ascending, r

\* A thread that is taken out of a queue leaves the order of the others.
LEMMA RemoveAscending ==
  ASSUME NEW S, NEW q \in Seq(S), NEW f \in [S -> Nat], Ascending(q, f),
         NEW i0 \in 1..Len(q)
  PROVE  /\ RemoveAt(q, i0) \in Seq(S)
         /\ Members(RemoveAt(q, i0)) = Members(q) \ {q[i0]}
         /\ Ascending(RemoveAt(q, i0), f)
  <1> DEFINE r == RemoveAt(q, i0)
  <1>1. /\ r \in Seq(S) /\ Len(r) = Len(q) - 1
        /\ \A k \in 1..(Len(q) - 1) : r[k] = IF k < i0 THEN q[k] ELSE q[k + 1]
    BY RemoveLemma
  <1>2. \A j, k \in 1..Len(q) : q[j] = q[k] => j = k
    <2>1. \A k \in 1..Len(q) : f[q[k]] \in Nat
      OBVIOUS
    <2>2. \A j, k \in 1..Len(q) : j < k => q[j] # q[k]
      BY <2>1 DEF Ascending
    <2> QED BY <2>2
  <1> HIDE DEF r
  <1>3. Members(r) = Members(q) \ {q[i0]}
    <2>1. ASSUME NEW k \in 1..Len(r) PROVE r[k] \in Members(q) \ {q[i0]}
      <3>1. PICK j \in 1..Len(q) : j # i0 /\ r[k] = q[j]
        <4>1. CASE k < i0
          BY <1>1, <4>1
        <4>2. CASE ~ (k < i0)
          <5>1. k + 1 \in 1..Len(q) /\ k + 1 # i0 /\ r[k] = q[k + 1]
            BY <1>1, <4>2
          <5> QED BY <5>1
        <4> QED BY <4>1, <4>2
      <3> QED BY <1>2, <3>1 DEF Members
    <2>2. ASSUME NEW j \in 1..Len(q), j # i0 PROVE q[j] \in Members(r)
      <3>1. CASE j < i0
        <4>1. j \in 1..Len(r) /\ r[j] = q[j]
          BY <1>1, <3>1
        <4> QED BY <4>1 DEF Members
      <3>2. CASE j > i0
        <4>1. j - 1 \in 1..Len(r) /\ r[j - 1] = q[j]
          BY <1>1, <3>2
        <4> QED BY <4>1 DEF Members
      <3> QED BY <2>2, <3>1, <3>2
    <2> QED BY <2>1, <2>2 DEF Members
  <1>4. ASSUME NEW j \in 1..Len(r), NEW k \in 1..Len(r), j < k
        PROVE  f[r[j]] < f[r[k]]
    <2>1. PICK a \in 1..Len(q), b \in 1..Len(q) : a < b /\ r[j] = q[a] /\ r[k] = q[b]
      <3> DEFINE place(m) == IF m < i0 THEN m ELSE m + 1
      <3>1. ASSUME NEW m \in 1..(Len(q) - 1)
            PROVE  place(m) \in 1..Len(q) /\ r[m] = q[place(m)]
        <4>1. m \in 1..Len(q) /\ m + 1 \in 1..Len(q)
          OBVIOUS
        <4>2. r[m] = IF m < i0 THEN q[m] ELSE q[m + 1]
          BY <1>1
        <4> QED BY <4>1, <4>2
      <3>2. place(j) < place(k) /\ j \in 1..(Len(q) - 1) /\ k \in 1..(Len(q) - 1)
        BY <1>1, <1>4
      <3> HIDE DEF place
      <3> QED BY <3>1, <3>2
    <2> QED BY <2>1 DEF Ascending
  <1> QED BY <1>1, <1>3, <1>4 DEF r, Ascending

\* The thread at the head gets the partition; those behind it stay in order.
LEMMA TailAscending ==
  ASSUME NEW S, NEW q \in Seq(S), NEW f \in [S -> Nat], Ascending(q, f), q # <<>>
  PROVE  /\ Tail(q) \in Seq(S) /\ Head(q) \in S
         /\ Members(Tail(q)) = Members(q) \ {Head(q)}
         /\ Head(q) \in Members(q)
         /\ Ascending(Tail(q), f)
         /\ \A u \in Members(Tail(q)) : f[Head(q)] < f[u]
  <1>1. /\ Tail(q) \in Seq(S) /\ Len(Tail(q)) = Len(q) - 1 /\ Len(q) \in Nat \ {0}
        /\ \A k \in 1..(Len(q) - 1) : Tail(q)[k] = q[k + 1]
        /\ Head(q) = q[1]
    OBVIOUS
  <1>2. \A k \in 1..(Len(q) - 1) : f[q[1]] < f[q[k + 1]]
    BY <1>1 DEF Ascending
  <1>3. ASSUME NEW k \in 1..(Len(q) - 1) PROVE q[1] # q[k + 1]
    <2>1. k + 1 \in 1..Len(q) /\ 1 \in 1..Len(q)
      BY <1>1
    <2>2. q[1] \in S /\ q[k + 1] \in S
      BY <2>1
    <2>3. f[q[1]] \in Nat
      BY <2>2
    <2> QED BY <1>2, <2>3
  <1>4. Members(Tail(q)) = Members(q) \ {Head(q)}
    <2>1. ASSUME NEW j \in 1..Len(q), q[j] # q[1] PROVE q[j] \in Members(Tail(q))
      <3>1. j - 1 \in 1..(Len(q) - 1) /\ (j - 1) + 1 = j
        BY <1>1, <2>1
      <3> QED BY <1>1, <3>1 DEF Members
    <2>2. ASSUME NEW k \in 1..(Len(q) - 1) PROVE Tail(q)[k] \in Members(q) \ {q[1]}
      <3>1. k + 1 \in 1..Len(q)
        BY <1>1
      <3> QED BY <1>1, <1>3, <3>1 DEF Members
    <2> QED BY <1>1, <2>1, <2>2 DEF Members
  <1>5. Ascending(Tail(q), f)
    <2>1. ASSUME NEW j \in 1..Len(Tail(q)), NEW k \in 1..Len(Tail(q)), j < k
          PROVE  f[Tail(q)[j]] < f[Tail(q)[k]]
      <3>1. j + 1 \in 1..Len(q) /\ k + 1 \in 1..Len(q) /\ j + 1 < k + 1
        BY <1>1, <2>1
      <3>2. Tail(q)[j] = q[j + 1] /\ Tail(q)[k] = q[k + 1]
        BY <1>1
      <3> QED BY <3>1, <3>2 DEF Ascending
    <2> QED BY <2>1 DEF Ascending
  <1>6. q[1] \in Members(q) /\ q[1] \in S
    BY <1>1 DEF Members
  <1> QED BY <1>1, <1>2, <1>4, <1>5, <1>6 DEF Members

------------------------------------------------------------------------------
(***************************************************************************)
(* The inductive invariant                                                 *)
(***************************************************************************)

Owns(t) == {p \in Parts : owner[p] = t}

\* Where the loops of t are: it unlocks no more than it has asked for, and runs
\* only as long as it has transactions to commit.
Progress(t) ==
  /\ pc[t] \notin {"idle", "finished"} => query[t] \in Queries
  /\ pc[t] \in {"unlock", "abort"} => i[t] <= upto[t] /\ upto[t] <= Len(query[t])
  /\ pc[t] # "finished" => txn_cnt[t] < MAX_TXN_PER_PART

Loops == i \in [Threads -> Nat] /\ upto \in [Threads -> Nat]

\* Who runs or commits stands in no queue any more.
HasAll(t) == pc[t] \in {"run", "unlock"} => WaitsAt(t) = {}

Counted(t) == IsFiniteSet(WaitsAt(t)) /\ ready_part[t] = Cardinality(WaitsAt(t))

IInv == /\ TypeOK /\ Loops /\ InQueues /\ OldestFirst
        /\ \A t \in Threads : Progress(t) /\ Counted(t) /\ HasAll(t)

\* TypeOK has a part about threads and one about partitions and timestamps.
ThreadTypes ==
  /\ query \in [Threads -> Queries \union {<<>>}]
  /\ \A t \in Threads : i[t] \in 0..Len(query[t]) /\ upto[t] \in Nat
  /\ pc \in [Threads -> PC] /\ txn_cnt \in [Threads -> 0..MAX_TXN_PER_PART]
  /\ data \in [Parts -> Nat] /\ saw \in [Threads -> Seq(Nat)]

LockTypes ==
  /\ owner \in [Parts -> Threads \union {NoThread}]
  /\ waiters \in [Parts -> Seq(Threads)]
  /\ ts \in [Threads -> 1..Cardinality(Threads)]
  /\ \A t, u \in Threads : ts[t] = ts[u] => t = u
  /\ ready_part \in [Threads -> Nat]

LEMMA TypeParts == TypeOK <=> ThreadTypes /\ LockTypes
  BY DEF TypeOK, ThreadTypes, LockTypes

LEMMA WaitsAtMembers ==
  LockTypes => \A t \in Threads : WaitsAt(t) = {p \in Parts : t \in Members(waiters[p])}
  <1> SUFFICES ASSUME LockTypes, NEW t \in Threads
               PROVE  WaitsAt(t) = {p \in Parts : t \in Members(waiters[p])}
    OBVIOUS
  <1>1. \A p \in Parts : DOMAIN waiters[p] = 1..Len(waiters[p])
    BY DEF LockTypes
  <1> QED BY <1>1 DEF WaitsAt, Members

LEMMA WaitsAtMembersNext ==
  LockTypes' =>
    (\A t \in Threads : WaitsAt(t) = {p \in Parts : t \in Members(waiters[p])})'
  BY WaitsAtMembers, PTL

\* OldestFirst for one partition, with the waiters as a set.
InOrder(p) ==
  /\ Ascending(waiters[p], ts)
  /\ \A u \in Members(waiters[p]) : owner[p] # NoThread /\ ts[owner[p]] < ts[u]

LEMMA OldestFirstMembers == LockTypes => (OldestFirst <=> \A p \in Parts : InOrder(p))
  <1> SUFFICES ASSUME LockTypes PROVE OldestFirst <=> \A p \in Parts : InOrder(p)
    OBVIOUS
  <1>1. \A p \in Parts : DOMAIN waiters[p] = 1..Len(waiters[p])
    BY DEF LockTypes
  <1> QED BY <1>1 DEF OldestFirst, InOrder, Members, Ascending

LEMMA OldestFirstMembersNext ==
  LockTypes' => (OldestFirst' <=> (\A p \in Parts : InOrder(p))')
  BY OldestFirstMembers, PTL

\* The places of a query.
LEMMA QueryType ==
  ASSUME NEW q \in Queries
  PROVE  /\ Len(q) \in Nat /\ DOMAIN q = 1..Len(q)
         /\ \A k \in 1..Len(q) : q[k] \in [row : Parts, type : {"RD", "WR"}]
         /\ \A j, k \in 1..Len(q) : q[j].row = q[k].row => j = k
  <1>1. q \in Seq([row : Parts, type : {"RD", "WR"}])
    BY QueriesAssumption
  <1>2. DOMAIN q = 1..Len(q)
    BY <1>1
  <1>3. \A j, k \in DOMAIN q : q[j].row = q[k].row => j = k
    BY QueriesAssumption
  <1> DEFINE R == [row : Parts, type : {"RD", "WR"}]
  <1> HIDE DEF R
  <1>4. q \in Seq(R)
    BY <1>1 DEF R
  <1>5. Len(q) \in Nat /\ \A k \in 1..Len(q) : q[k] \in R
    BY <1>4
  <1> QED BY <1>2, <1>3, <1>5 DEF R

\* Asked, case by case.
AskedIs(t) ==
  /\ pc[t] = "lock" => Asked(t) = {query[t][k].row : k \in 1..i[t]}
  /\ pc[t] \in {"spin", "run"} =>
       Asked(t) = {query[t][k].row : k \in 1..Len(query[t])}
  /\ pc[t] \in {"unlock", "abort"} =>
       Asked(t) = {query[t][k].row : k \in (i[t] + 1)..upto[t]}
  /\ pc[t] \in {"idle", "retry", "finished"} => Asked(t) = {}

LEMMA AskedAt ==
  ASSUME NEW t \in Threads
  PROVE  ThreadTypes /\ Progress(t) => AskedIs(t)
  <1> SUFFICES ASSUME ThreadTypes, Progress(t) PROVE AskedIs(t)
    OBVIOUS
  <1>1. pc[t] \in {"spin", "run"} => DOMAIN query[t] = 1..Len(query[t])
    BY QueryType DEF Progress
  <1>2. pc[t] \in PC
    BY DEF ThreadTypes
  <1> QED BY <1>1, <1>2 DEF Asked, PC, AskedIs

LEMMA AskedAtNext ==
  ASSUME NEW t \in Threads
  PROVE  (ThreadTypes /\ Progress(t))' => AskedIs(t)'
  BY AskedAt, PTL

LEMMA InitIInv == Init => IInv
  <1> SUFFICES ASSUME Init PROVE IInv
    OBVIOUS
  <1>1. TypeOK
    BY ConfigAssumption DEF Init, TypeOK, PC
  <1>2. Loops
    BY DEF Init, Loops
  <1>3. \A t \in Threads : WaitsAt(t) = {} /\ Owns(t) = {} /\ Asked(t) = {}
    BY ConfigAssumption DEF Init, WaitsAt, Owns, Asked
  <1>4. InQueues
    BY <1>3 DEF InQueues, Owns, Init
  <1>5. OldestFirst
    BY DEF OldestFirst, Init
  <1>6. ASSUME NEW t \in Threads PROVE Progress(t) /\ Counted(t) /\ HasAll(t)
    <2>1. Progress(t)
      BY ConfigAssumption DEF Init, Progress
    <2>2. Counted(t)
      BY <1>3, FS_EmptySet DEF Counted, Init
    <2> QED BY <1>3, <2>1, <2>2 DEF HasAll
  <1> QED BY <1>1, <1>2, <1>4, <1>5, <1>6 DEF IInv

------------------------------------------------------------------------------
(***************************************************************************)
(* What a step does to the threads                                         *)
(***************************************************************************)

LEMMA PartType ==
  ASSUME NEW t \in Threads, Loops, Progress(t), i[t] < Len(query[t]),
         pc[t] \notin {"idle", "finished"}
  PROVE  /\ query[t] \in Queries /\ i[t] \in Nat /\ i[t] + 1 \in 1..Len(query[t])
         /\ Part(t) = query[t][i[t] + 1].row /\ Part(t) \in Parts
  <1>1. query[t] \in Queries /\ i[t] \in Nat
    BY DEF Progress, Loops
  <1>2. i[t] + 1 \in 1..Len(query[t])
    BY <1>1, QueryType
  <1>3. query[t][i[t] + 1] \in [row : Parts, type : {"RD", "WR"}]
    BY <1>1, <1>2, QueryType
  <1> QED BY <1>1, <1>2, <1>3 DEF Part

LEMMA ThreadStep ==
  ASSUME IInv, NEW t \in Threads, Step(t)
  PROVE  (ThreadTypes /\ Loops /\ \A u \in Threads : Progress(u))'
  <1> USE DEF IInv, Loops
  <1>0. /\ TypeOK /\ ThreadTypes /\ \A u \in Threads : Progress(u)
        /\ \A u \in Threads : /\ Len(query[u]) \in Nat /\ i[u] \in Nat /\ upto[u] \in Nat
                             /\ txn_cnt[u] \in Nat /\ pc[u] \in PC
    <2>1. TypeOK /\ ThreadTypes
      BY DEF TypeOK, ThreadTypes
    <2>2. ASSUME NEW u \in Threads PROVE Len(query[u]) \in Nat
      <3>1. query[u] \in Queries \/ query[u] = <<>>
        BY <2>1 DEF ThreadTypes
      <3> QED BY <3>1, QueryType
    <2> QED BY <2>1, <2>2 DEF ThreadTypes
  <1>1. CASE StartTxn(t)
    <2>1. PICK q \in Queries : query' = [query EXCEPT ![t] = q]
      BY <1>0, <1>1 DEF StartTxn, Progress
    <2>2. Len(q) \in Nat
      BY QueryType
    <2>3. ThreadTypes' /\ Loops'
      BY <1>0, <1>1, <2>1, <2>2 DEF StartTxn, ThreadTypes, Goto, PC
    <2>4. ASSUME NEW u \in Threads PROVE Progress(u)'
      BY <1>0, <1>1, <2>1 DEF StartTxn, ThreadTypes, Goto, Progress
    <2> QED BY <2>3, <2>4
  <1>2. CASE LockFree(t)
    <2>1. ThreadTypes' /\ Loops'
      BY <1>0, <1>2 DEF LockFree, Asks, NextPart, ThreadTypes, dataVars
    <2>2. ASSUME NEW u \in Threads PROVE Progress(u)'
      BY <1>0, <1>2 DEF LockFree, Asks, NextPart, ThreadTypes, Progress
    <2> QED BY <2>1, <2>2
  <1>3. CASE LockWaits(t)
    <2>1. ThreadTypes' /\ Loops'
      BY <1>0, <1>3 DEF LockWaits, Asks, NextPart, ThreadTypes, dataVars
    <2>2. ASSUME NEW u \in Threads PROVE Progress(u)'
      BY <1>0, <1>3 DEF LockWaits, Asks, NextPart, ThreadTypes, Progress
    <2> QED BY <2>1, <2>2
  <1>4. CASE LockAborts(t)
    <2>1. ThreadTypes' /\ Loops'
      BY <1>0, <1>4 DEF LockAborts, Asks, Goto, PC, ThreadTypes, dataVars
    <2>2. ASSUME NEW u \in Threads PROVE Progress(u)'
      BY <1>0, <1>4 DEF LockAborts, Asks, Goto, ThreadTypes, Progress
    <2> QED BY <2>1, <2>2
  <1>5. CASE EnterSpin(t)
    <2>1. ThreadTypes' /\ Loops'
      BY <1>0, <1>5 DEF EnterSpin, Goto, PC, ThreadTypes, dataVars
    <2>2. ASSUME NEW u \in Threads PROVE Progress(u)'
      BY <1>0, <1>5 DEF EnterSpin, Goto, ThreadTypes, Progress
    <2> QED BY <2>1, <2>2
  <1>6. CASE LeaveSpin(t)
    <2>1. ThreadTypes' /\ Loops'
      BY <1>0, <1>6 DEF LeaveSpin, Goto, PC, ThreadTypes, dataVars
    <2>2. ASSUME NEW u \in Threads PROVE Progress(u)'
      BY <1>0, <1>6 DEF LeaveSpin, Goto, ThreadTypes, Progress
    <2> QED BY <2>1, <2>2
  <1>7. CASE UseRow(t)
    <2>1. Part(t) \in Parts
      BY <1>0, <1>7, PartType DEF UseRow
    <2>2. data[Part(t)] \in Nat /\ saw[t] \in Seq(Nat)
      BY <1>0, <2>1 DEF ThreadTypes
    <2>3. data' \in [Parts -> Nat] /\ saw' \in [Threads -> Seq(Nat)]
      <3>1. Append(saw[t], data[Part(t)]) \in Seq(Nat)
        BY <2>2
      <3> QED BY <1>0, <1>7, <2>1, <2>2, <3>1 DEF UseRow, ThreadTypes
    <2>4. ThreadTypes' /\ Loops'
      BY <1>0, <1>7, <2>3 DEF UseRow, NextPart, ThreadTypes
    <2>5. ASSUME NEW u \in Threads PROVE Progress(u)'
      BY <1>0, <1>7 DEF UseRow, NextPart, ThreadTypes, Progress
    <2> QED BY <2>4, <2>5
  <1>8. CASE FinishTxn(t)
    <2>1. ThreadTypes' /\ Loops'
      BY <1>0, <1>8 DEF FinishTxn, Goto, PC, ThreadTypes
    <2>2. ASSUME NEW u \in Threads PROVE Progress(u)'
      BY <1>0, <1>8 DEF FinishTxn, Goto, ThreadTypes, Progress
    <2> QED BY <2>1, <2>2
  <1>9. CASE UnlockPart(t)
    <2>1. i[t] + 1 <= Len(query[t]) /\ i[t] + 1 <= upto[t]
      BY <1>0, <1>9 DEF UnlockPart, Progress
    <2>2. ThreadTypes' /\ Loops'
      BY <1>0, <1>9, <2>1 DEF UnlockPart, NextPart, ThreadTypes, dataVars
    <2>3. ASSUME NEW u \in Threads PROVE Progress(u)'
      BY <1>0, <1>9, <2>1 DEF UnlockPart, NextPart, ThreadTypes, Progress
    <2> QED BY <2>2, <2>3
  <1>10. CASE TxnCommitted(t)
    <2>1. txn_cnt[t] < MAX_TXN_PER_PART /\ MAX_TXN_PER_PART \in Nat
      BY <1>0, <1>10, ConfigAssumption DEF TxnCommitted, Progress
    <2>2. ThreadTypes' /\ Loops'
      BY <1>0, <1>10, <2>1 DEF TxnCommitted, Goto, PC, ThreadTypes, dataVars
    <2>3. ASSUME NEW u \in Threads PROVE Progress(u)'
      BY <1>0, <1>10, <2>1 DEF TxnCommitted, Goto, ThreadTypes, Progress, Done
    <2> QED BY <2>2, <2>3
  <1>11. CASE TxnAborted(t)
    <2>1. ThreadTypes' /\ Loops'
      BY <1>0, <1>11 DEF TxnAborted, Goto, PC, ThreadTypes, dataVars
    <2>2. ASSUME NEW u \in Threads PROVE Progress(u)'
      BY <1>0, <1>11 DEF TxnAborted, Goto, ThreadTypes, Progress
    <2> QED BY <2>1, <2>2
  <1> QED BY <1>1, <1>2, <1>3, <1>4, <1>5, <1>6, <1>7, <1>8, <1>9, <1>10, <1>11 DEF Step

------------------------------------------------------------------------------
(***************************************************************************)
(* What a step does to the partitions                                      *)
(***************************************************************************)

\* The partitions asked for and not given back, after a step of t: the same, one
\* more or one less.
LEMMA AskedStep ==
  ASSUME IInv, NEW t \in Threads, Step(t)
  PROVE  /\ \A u \in Threads \ {t} : Asked(u)' = Asked(u)
         /\ LockFree(t) \/ LockWaits(t) =>
              Part(t) \in Parts /\ Part(t) \notin Asked(t) /\ Asked(t)' = Asked(t) \union {Part(t)}
         /\ UnlockPart(t) =>
              Part(t) \in Parts /\ Part(t) \in Asked(t) /\ Asked(t)' = Asked(t) \ {Part(t)}
         /\ StartTxn(t) => Asked(t) = {} /\ Asked(t)' = {}
         /\ ~ (LockFree(t) \/ LockWaits(t) \/ UnlockPart(t)) => Asked(t)' = Asked(t)
  <1>0. /\ ThreadTypes /\ LockTypes /\ Loops /\ Progress(t)
        /\ AskedIs(t) /\ AskedIs(t)'
        /\ i[t] \in Nat /\ upto[t] \in Nat
    BY ThreadStep, TypeParts, AskedAt, AskedAtNext DEF IInv, Loops
  <1>1. ASSUME NEW u \in Threads \ {t} PROVE Asked(u)' = Asked(u)
    <2>1. /\ query'[u] = query[u] /\ pc'[u] = pc[u]
          /\ i'[u] = i[u] /\ upto'[u] = upto[u]
      BY <1>0 DEF Step, StartTxn, LockFree, LockWaits, LockAborts, EnterSpin, LeaveSpin,
           UseRow, FinishTxn, UnlockPart, TxnCommitted, TxnAborted, Goto, NextPart,
           ThreadTypes, Loops
    <2> QED BY <2>1 DEF Asked
  <1>2. CASE LockFree(t) \/ LockWaits(t)
    <2>1. /\ pc[t] = "lock" /\ pc'[t] = "lock" /\ query'[t] = query[t]
          /\ i[t] < Len(query[t]) /\ i'[t] = i[t] + 1
      BY <1>0, <1>2 DEF LockFree, LockWaits, Asks, NextPart, Loops
    <2>2. /\ query[t] \in Queries /\ i[t] + 1 \in 1..Len(query[t])
          /\ Part(t) = query[t][i[t] + 1].row /\ Part(t) \in Parts
      BY <1>0, <2>1, PartType
    <2>3. /\ Asked(t) = {query[t][k].row : k \in 1..i[t]}
          /\ Asked(t)' = {query[t][k].row : k \in 1..(i[t] + 1)}
      BY <1>0, <2>1 DEF AskedIs
    <2>4. Part(t) \notin Asked(t)
      <3>1. \A k \in 1..i[t] : k \in 1..Len(query[t]) /\ k # i[t] + 1
        BY <1>0, <2>1, <2>2, QueryType
      <3> QED BY <2>2, <2>3, <3>1, QueryType
    <2>5. Asked(t)' = Asked(t) \union {Part(t)}
      <3>1. \A k : k \in 1..(i[t] + 1) <=> k \in 1..i[t] \/ k = i[t] + 1
        BY <1>0
      <3> QED BY <2>2, <2>3, <3>1
    <2>6. ~ UnlockPart(t) /\ ~ StartTxn(t)
      BY <2>1 DEF UnlockPart, StartTxn
    <2> QED BY <1>1, <1>2, <2>2, <2>4, <2>5, <2>6
  <1>3. CASE UnlockPart(t)
    <2>1. /\ pc[t] \in {"unlock", "abort"} /\ pc'[t] = pc[t] /\ query'[t] = query[t]
          /\ i[t] < upto[t] /\ upto[t] <= Len(query[t])
          /\ i'[t] = i[t] + 1 /\ upto'[t] = upto[t]
      BY <1>0, <1>3 DEF UnlockPart, NextPart, Loops, Progress
    <2>2. query[t] \in Queries /\ Len(query[t]) \in Nat
      BY <1>0, <2>1, QueryType DEF Progress
    <2>3. /\ i[t] + 1 \in 1..Len(query[t])
          /\ Part(t) = query[t][i[t] + 1].row /\ Part(t) \in Parts
      BY <1>0, <2>1, <2>2, PartType
    <2>4. /\ Asked(t) = {query[t][k].row : k \in (i[t] + 1)..upto[t]}
          /\ Asked(t)' = {query[t][k].row : k \in ((i[t] + 1) + 1)..upto[t]}
      BY <1>0, <2>1 DEF AskedIs
    <2>5. \A k : k \in (i[t] + 1)..upto[t] <=> k \in ((i[t] + 1) + 1)..upto[t] \/ k = i[t] + 1
      BY <1>0, <2>1
    <2>6. \A k \in ((i[t] + 1) + 1)..upto[t] : query[t][k].row # Part(t)
      <3>1. \A k \in ((i[t] + 1) + 1)..upto[t] : k \in 1..Len(query[t]) /\ k # i[t] + 1
        BY <1>0, <2>1, <2>2
      <3> QED BY <2>2, <2>3, <3>1, QueryType
    <2>7. ~ (LockFree(t) \/ LockWaits(t)) /\ ~ StartTxn(t)
      BY <2>1 DEF LockFree, LockWaits, Asks, StartTxn
    <2> QED BY <1>1, <1>3, <2>3, <2>4, <2>5, <2>6, <2>7
  <1>4. CASE StartTxn(t)
    <2>1. pc[t] \in {"idle", "retry"} /\ pc'[t] = "lock" /\ i'[t] = 0
      BY <1>0, <1>4 DEF StartTxn, Goto, ThreadTypes, Loops
    <2>2. Asked(t) = {} /\ Asked(t)' = {query'[t][k].row : k \in 1..0}
      BY <1>0, <2>1 DEF AskedIs
    <2>3. ~ (LockFree(t) \/ LockWaits(t) \/ UnlockPart(t))
      BY <2>1 DEF LockFree, LockWaits, Asks, UnlockPart
    <2> QED BY <1>1, <2>2, <2>3
  <1>5. CASE LockAborts(t)
    <2>1. /\ pc[t] = "lock" /\ pc'[t] = "abort" /\ query'[t] = query[t]
          /\ i'[t] = 0 /\ upto'[t] = i[t]
      BY <1>0, <1>5 DEF LockAborts, Asks, Goto, ThreadTypes, Loops
    <2>2. /\ Asked(t) = {query[t][k].row : k \in 1..i[t]}
          /\ Asked(t)' = {query[t][k].row : k \in (0 + 1)..i[t]}
      BY <1>0, <2>1 DEF AskedIs
    <2>3. ~ (LockFree(t) \/ LockWaits(t) \/ UnlockPart(t) \/ StartTxn(t))
      BY <1>5, <2>1 DEF LockFree, LockWaits, LockAborts, UnlockPart, StartTxn
    <2> QED BY <1>1, <2>2, <2>3
  <1>6. CASE EnterSpin(t) \/ LeaveSpin(t) \/ UseRow(t) \/ FinishTxn(t)
    <2>1. /\ query'[t] = query[t] /\ query[t] \in Queries
          /\ pc[t] \in {"spin", "run"} \/ (pc[t] = "lock" /\ i[t] = Len(query[t]))
          /\ \/ pc'[t] \in {"spin", "run"}
             \/ pc'[t] = "unlock" /\ i'[t] = 0 /\ upto'[t] = Len(query[t])
      BY <1>0, <1>6 DEF EnterSpin, LeaveSpin, UseRow, FinishTxn, Goto, ThreadTypes, Loops,
           NextPart, Progress
    <2>2. Asked(t) = {query[t][k].row : k \in 1..Len(query[t])}
      BY <1>0, <2>1 DEF AskedIs
    <2>3. Asked(t)' = {query[t][k].row : k \in 1..Len(query[t])}
      <3>1. CASE pc'[t] \in {"spin", "run"}
        BY <1>0, <2>1, <3>1 DEF AskedIs
      <3>2. CASE pc'[t] = "unlock" /\ i'[t] = 0 /\ upto'[t] = Len(query[t])
        <4>1. Asked(t)' = {query'[t][k].row : k \in (0 + 1)..Len(query[t])}
          BY <1>0, <2>1, <3>2 DEF AskedIs
        <4> QED BY <2>1, <4>1
      <3> QED BY <2>1, <3>1, <3>2
    <2>4. ~ (LockFree(t) \/ LockWaits(t) \/ UnlockPart(t) \/ StartTxn(t))
      BY <1>6 DEF LockFree, LockWaits, Asks, UnlockPart, StartTxn, EnterSpin, LeaveSpin,
           UseRow, FinishTxn
    <2> QED BY <1>1, <2>2, <2>3, <2>4
  <1>7. CASE TxnCommitted(t) \/ TxnAborted(t)
    <2>1. /\ pc[t] \in {"unlock", "abort"} /\ i[t] = upto[t]
          /\ pc'[t] \in {"idle", "retry", "finished"}
      BY <1>0, <1>7 DEF TxnCommitted, TxnAborted, Goto, ThreadTypes
    <2>2. Asked(t) = {query[t][k].row : k \in (i[t] + 1)..i[t]}
      BY <1>0, <2>1 DEF AskedIs
    <2>3. Asked(t) = {} /\ Asked(t)' = {}
      BY <1>0, <2>1, <2>2 DEF AskedIs
    <2>4. ~ (LockFree(t) \/ LockWaits(t) \/ UnlockPart(t) \/ StartTxn(t))
      BY <1>0, <2>1 DEF LockFree, LockWaits, Asks, UnlockPart, StartTxn
    <2> QED BY <1>1, <2>3, <2>4
  <1> QED BY <1>2, <1>3, <1>4, <1>5, <1>6, <1>7 DEF Step

\* The other threads keep their order when t takes a new timestamp.
LEMMA NextTs ==
  ASSUME LockTypes, NEW t \in Threads, get_next_ts(t)
  PROVE  /\ ts' \in [Threads -> 1..Cardinality(Threads)]
         /\ \A u, v \in Threads : ts'[u] = ts'[v] => u = v
         /\ \A u, v \in Threads \ {t} : ts[u] < ts[v] => ts'[u] < ts'[v]
  <1>1. Cardinality(Threads) \in Nat
    BY ConfigAssumption, FS_CardinalityType
  <1>2. \A u \in Threads : ts[u] \in 1..Cardinality(Threads)
    BY DEF LockTypes
  <1>3. \A u \in Threads :
          ts'[u] = IF u = t THEN Cardinality(Threads)
                   ELSE IF ts[u] > ts[t] THEN ts[u] - 1 ELSE ts[u]
    BY DEF get_next_ts
  <1>4. \A u, v \in Threads : ts[u] = ts[v] => u = v
    BY DEF LockTypes
  <1>5. ASSUME NEW u \in Threads PROVE ts'[u] \in 1..Cardinality(Threads)
    BY <1>1, <1>2, <1>3
  <1>6. ts' \in [Threads -> 1..Cardinality(Threads)]
    BY <1>5 DEF get_next_ts
  <1>7. ASSUME NEW u \in Threads \ {t} PROVE ts'[u] < Cardinality(Threads)
    <2>1. ts[u] # ts[t]
      BY <1>4
    <2> QED BY <1>1, <1>2, <1>3, <2>1
  <1>8. ASSUME NEW u \in Threads \ {t}, NEW v \in Threads \ {t}, ts[u] < ts[v]
        PROVE  ts'[u] < ts'[v]
    <2>1. ts[u] # ts[t] /\ ts[v] # ts[t]
      BY <1>4
    <2> QED BY <1>1, <1>2, <1>3, <1>8, <2>1
  <1>9. ASSUME NEW u \in Threads, NEW v \in Threads, ts'[u] = ts'[v] PROVE u = v
    <2>1. CASE u = t \/ v = t
      BY <1>1, <1>3, <1>5, <1>7, <1>9, <2>1
    <2>2. CASE u # t /\ v # t
      <3>1. ~ (ts[u] < ts[v]) /\ ~ (ts[v] < ts[u])
        BY <1>5, <1>8, <1>9, <2>2
      <3> QED BY <1>2, <1>4, <3>1
    <2> QED BY <2>1, <2>2
  <1> QED BY <1>6, <1>8, <1>9

\* The facts about partitions that a step must keep.
LockInv == LockTypes /\ InQueues /\ OldestFirst /\ \A u \in Threads : Counted(u)

\* A step that asks for nothing and gives nothing back.
LEMMA QuietStep ==
  ASSUME LockInv, UNCHANGED <<lockVars, ts>>, \A u \in Threads : Asked(u)' = Asked(u)
  PROVE  LockInv' /\ \A u \in Threads : WaitsAt(u)' = WaitsAt(u)
  <1>1. UNCHANGED <<owner, waiters, ready_part, ts>>
    BY DEF lockVars
  <1>2. LockTypes' /\ OldestFirst'
    BY <1>1 DEF LockInv, LockTypes, OldestFirst
  <1>3. \A u \in Threads : WaitsAt(u)' = WaitsAt(u)
    BY <1>1 DEF WaitsAt
  <1>4. InQueues'
    BY <1>1, <1>3 DEF LockInv, InQueues
  <1>5. \A u \in Threads : Counted(u)'
    BY <1>1, <1>3 DEF LockInv, Counted
  <1> QED BY <1>2, <1>3, <1>4, <1>5 DEF LockInv

\* A thread that starts takes a new timestamp, but stands in no queue.
LEMMA StartStep ==
  ASSUME IInv, LockInv, NEW t \in Threads, StartTxn(t)
  PROVE  LockInv' /\ \A u \in Threads : WaitsAt(u)' = WaitsAt(u)
  <1>1. UNCHANGED <<owner, waiters, ready_part>> /\ get_next_ts(t)
    BY DEF StartTxn, lockVars
  <1>2. LockTypes /\ LockTypes'
    BY <1>1, NextTs DEF LockInv, LockTypes
  <1>3. \A u \in Threads : WaitsAt(u)' = WaitsAt(u)
    BY <1>1 DEF WaitsAt
  <1>4. Asked(t) = {} /\ \A u \in Threads : Asked(u)' = Asked(u)
    BY AskedStep DEF Step
  <1>5. InQueues'
    BY <1>1, <1>3, <1>4 DEF LockInv, InQueues
  <1>6. \A u \in Threads : Counted(u)'
    BY <1>1, <1>3 DEF LockInv, Counted
  <1>7. OldestFirst'
    <2> SUFFICES ASSUME NEW p \in Parts PROVE InOrder(p)'
      BY <1>2, OldestFirstMembersNext
    <2>1. InOrder(p)
      BY <1>2, OldestFirstMembers DEF LockInv
    <2>2. t \notin Members(waiters[p]) /\ owner[p] # t
      <3>1. WaitsAt(t) = {} /\ owner[p] # t
        BY <1>4 DEF LockInv, InQueues
      <3> QED BY <1>2, <3>1, WaitsAtMembers
    <2>3. \A k \in 1..Len(waiters[p]) :
            waiters[p][k] \in Members(waiters[p]) /\ waiters[p][k] \in Threads \ {t}
      <3>1. \A k \in 1..Len(waiters[p]) : waiters[p][k] \in Threads
        BY <1>2 DEF LockTypes
      <3>2. \A k \in 1..Len(waiters[p]) : waiters[p][k] \in Members(waiters[p])
        BY DEF Members
      <3> QED BY <2>2, <3>1, <3>2
    <2>4. Ascending(waiters[p], ts')
      <3> SUFFICES ASSUME NEW j \in 1..Len(waiters[p]), NEW k \in 1..Len(waiters[p]), j < k
                   PROVE  ts'[waiters[p][j]] < ts'[waiters[p][k]]
        BY DEF Ascending
      <3>1. ts[waiters[p][j]] < ts[waiters[p][k]]
        BY <2>1 DEF InOrder, Ascending
      <3> QED BY <1>1, <1>2, <2>3, <3>1, NextTs
    <2>5. ASSUME NEW u \in Members(waiters[p])
          PROVE  owner[p] # NoThread /\ ts'[owner[p]] < ts'[u]
      <3>1. u \in Threads \ {t}
        BY <2>3 DEF Members
      <3>2. owner[p] # NoThread /\ ts[owner[p]] < ts[u] /\ owner[p] \in Threads \ {t}
        BY <1>2, <2>1, <2>2 DEF InOrder, LockTypes
      <3> QED BY <1>1, <1>2, <3>1, <3>2, NextTs
    <2> QED BY <1>1, <2>4, <2>5 DEF InOrder
  <1> QED BY <1>2, <1>3, <1>5, <1>6, <1>7 DEF LockInv

LEMMA LockFreeStep ==
  ASSUME IInv, LockInv, NEW t \in Threads, LockFree(t)
  PROVE  LockInv' /\ \A u \in Threads : WaitsAt(u)' = WaitsAt(u)
  <1> DEFINE p == Part(t)
  <1>1. /\ p \in Parts /\ p \notin Asked(t) /\ Asked(t)' = Asked(t) \union {p}
        /\ \A u \in Threads \ {t} : Asked(u)' = Asked(u)
    BY AskedStep DEF Step
  <1>2. /\ owner[p] = NoThread /\ owner' = [owner EXCEPT ![p] = t]
        /\ UNCHANGED <<waiters, ready_part, ts>>
    BY DEF LockFree
  <1> HIDE DEF p
  <1>3. LockTypes /\ LockTypes'
    BY <1>1, <1>2 DEF LockInv, LockTypes
  <1>4. \A x \in Parts : owner'[x] = IF x = p THEN t ELSE owner[x]
    BY <1>1, <1>2, <1>3 DEF LockTypes
  <1>5. \A u \in Threads : WaitsAt(u)' = WaitsAt(u)
    BY <1>2 DEF WaitsAt
  <1>6. waiters[p] = <<>> /\ \A u \in Threads : p \notin WaitsAt(u)
    BY <1>1, <1>2 DEF LockInv, InQueues, WaitsAt
  <1>7. InQueues'
    <2>1. ASSUME NEW u \in Threads
          PROVE  /\ Asked(u)' = WaitsAt(u)' \union {x \in Parts : owner'[x] = u}
                 /\ \A x \in WaitsAt(u)' : owner'[x] # u
      <3>1. WaitsAt(u) \subseteq Parts
        BY DEF WaitsAt
      <3> QED BY <1>1, <1>2, <1>4, <1>5, <1>6, <3>1, ConfigAssumption DEF LockInv, InQueues
    <2>2. \A x \in Parts : owner'[x] = NoThread => waiters'[x] = <<>>
      BY <1>2, <1>4, ConfigAssumption DEF LockInv, InQueues
    <2> QED BY <2>1, <2>2 DEF InQueues
  <1>8. \A u \in Threads : Counted(u)'
    BY <1>2, <1>5 DEF LockInv, Counted
  <1>9. OldestFirst'
    BY <1>2, <1>4, <1>6 DEF LockInv, OldestFirst
  <1> QED BY <1>3, <1>5, <1>7, <1>8, <1>9 DEF LockInv

\* A thread that is queued stands behind older threads and before younger ones.
LEMMA LockWaitsStep ==
  ASSUME IInv, LockInv, NEW t \in Threads, LockWaits(t)
  PROVE  LockInv' /\ \A u \in Threads \ {t} : WaitsAt(u)' = WaitsAt(u)
  <1> DEFINE p == Part(t)
             n == Before(t, p)
             q == waiters[p]
             r == InsertAt(q, n + 1, t)
  <1>1. /\ p \in Parts /\ p \notin Asked(t) /\ Asked(t)' = Asked(t) \union {p}
        /\ \A u \in Threads \ {t} : Asked(u)' = Asked(u)
    BY AskedStep DEF Step
  <1>2. /\ owner[p] # NoThread /\ ts[owner[p]] < ts[t]
        /\ waiters' = [waiters EXCEPT ![p] = r]
        /\ ready_part' = [ready_part EXCEPT ![t] = @ + 1]
        /\ UNCHANGED <<owner, ts>>
    BY DEF LockWaits, MayWait
  <1> HIDE DEF p
  <1>3. /\ LockTypes /\ q \in Seq(Threads) /\ DOMAIN q = 1..Len(q)
        /\ ts \in [Threads -> Nat] /\ InOrder(p)
    <2>1. LockTypes /\ q \in Seq(Threads) /\ ts \in [Threads -> Nat]
      <3>1. \A u \in Threads : ts[u] \in 1..Cardinality(Threads)
        BY DEF LockInv, LockTypes
      <3> QED BY <1>1, <3>1 DEF LockInv, LockTypes
    <2> QED BY <1>1, <2>1, OldestFirstMembers DEF LockInv
  <1>4. t \notin Members(q) /\ p \notin WaitsAt(t)
    <2>1. p \notin WaitsAt(t)
      BY <1>1 DEF LockInv, InQueues
    <2> QED BY <1>1, <1>3, <2>1, WaitsAtMembers
  <1>5. n \in Nat /\ Behind(q, ts, t, n)
    <2>1. n = Cardinality({k \in 1..Len(q) : ts[q[k]] < ts[t]})
      BY <1>3 DEF Before
    <2> HIDE DEF n, q
    <2>2. Behind(q, ts, t, n)
      BY <1>3, <2>1, BeforeLemma DEF InOrder, q
    <2> QED BY <2>2 DEF Behind
  <1>6. /\ r \in Seq(Threads) /\ Members(r) = Members(q) \union {t}
        /\ Ascending(r, ts)
    <2>1. \A k \in 1..Len(q) : ts[q[k]] # ts[t]
      <3>1. \A k \in 1..Len(q) : q[k] \in Threads /\ q[k] # t
        BY <1>3, <1>4 DEF Members
      <3> QED BY <1>3, <3>1 DEF LockTypes
    <2>2. Ascending(q, ts)
      BY <1>3 DEF InOrder
    <2> HIDE DEF n, q
    <2> QED BY <1>3, <1>5, <2>1, <2>2, InsertAscending
  <1> HIDE DEF r, q, n
  <1>7. \A x \in Parts : waiters'[x] = IF x = p THEN r ELSE waiters[x]
    BY <1>1, <1>2, <1>3 DEF LockTypes
  <1>8. LockTypes'
    <2>1. ready_part' \in [Threads -> Nat] /\ waiters' \in [Parts -> Seq(Threads)]
      BY <1>1, <1>2, <1>3, <1>6 DEF LockTypes
    <2> QED BY <1>2, <1>3, <2>1 DEF LockTypes
  <1>9. \A u \in Threads : WaitsAt(u)' = IF u = t THEN WaitsAt(u) \union {p} ELSE WaitsAt(u)
    <2>1. \A u \in Threads : WaitsAt(u) = {x \in Parts : u \in Members(waiters[x])}
      BY <1>3, WaitsAtMembers
    <2>2. \A u \in Threads : WaitsAt(u)' = {x \in Parts : u \in Members(waiters'[x])}
      BY <1>8, WaitsAtMembersNext
    <2>3. ASSUME NEW u \in Threads, NEW x \in Parts
          PROVE  u \in Members(waiters'[x]) <=> u \in Members(waiters[x]) \/ (u = t /\ x = p)
      BY <1>6, <1>7 DEF q
    <2>4. ASSUME NEW u \in Threads
          PROVE  WaitsAt(u)' = IF u = t THEN WaitsAt(u) \union {p} ELSE WaitsAt(u)
      <3>1. WaitsAt(u) \subseteq Parts /\ WaitsAt(u)' \subseteq Parts
        BY <2>1, <2>2
      <3>2. \A x \in Parts : x \in WaitsAt(u)' <=> x \in WaitsAt(u) \/ (u = t /\ x = p)
        BY <2>1, <2>2, <2>3
      <3> QED BY <1>1, <3>1, <3>2
    <2> QED BY <2>4
  <1>10. InQueues'
    <2>1. ASSUME NEW u \in Threads
          PROVE  /\ Asked(u)' = WaitsAt(u)' \union {x \in Parts : owner'[x] = u}
                 /\ \A x \in WaitsAt(u)' : owner'[x] # u
      <3>1. /\ Asked(u) = WaitsAt(u) \union {x \in Parts : owner[x] = u}
            /\ \A x \in WaitsAt(u) : owner[x] # u
        BY DEF LockInv, InQueues
      <3>2. owner[p] # t
        BY <1>1 DEF LockInv, InQueues
      <3> QED BY <1>1, <1>2, <1>9, <3>1, <3>2
    <2>2. \A x \in Parts : owner'[x] = NoThread => waiters'[x] = <<>>
      BY <1>2, <1>7 DEF LockInv, InQueues
    <2> QED BY <2>1, <2>2 DEF InQueues
  <1>11. ASSUME NEW u \in Threads PROVE Counted(u)'
    <2>1. IsFiniteSet(WaitsAt(u)) /\ ready_part[u] = Cardinality(WaitsAt(u))
      BY DEF LockInv, Counted
    <2>2. CASE u = t
      <3>1. IsFiniteSet(WaitsAt(u)') /\ Cardinality(WaitsAt(u)') = Cardinality(WaitsAt(u)) + 1
        BY <1>4, <1>9, <2>1, <2>2, FS_AddElement
      <3> QED BY <1>2, <1>3, <2>1, <2>2, <3>1 DEF Counted, LockTypes
    <2>3. CASE u # t
      BY <1>2, <1>3, <1>9, <2>1, <2>3 DEF Counted, LockTypes
    <2> QED BY <2>2, <2>3
  <1>12. OldestFirst'
    <2> SUFFICES ASSUME NEW x \in Parts PROVE InOrder(x)'
      BY <1>8, OldestFirstMembersNext
    <2>1. InOrder(x)
      BY <1>3, OldestFirstMembers DEF LockInv
    <2> QED BY <1>2, <1>6, <1>7, <2>1 DEF InOrder, q
  <1> QED BY <1>8, <1>9, <1>10, <1>11, <1>12 DEF LockInv

\* A partition is handed to the oldest waiter, is free, or loses a waiter.
LEMMA UnlockPartStep ==
  ASSUME IInv, LockInv, NEW t \in Threads, UnlockPart(t)
  PROVE  LockInv' /\ \A u \in Threads : WaitsAt(u)' \subseteq WaitsAt(u)
  <1> DEFINE p == Part(t)
             q == waiters[p]
  <1>1. /\ p \in Parts /\ p \in Asked(t) /\ Asked(t)' = Asked(t) \ {p}
        /\ \A u \in Threads \ {t} : Asked(u)' = Asked(u)
    BY AskedStep DEF Step
  <1>2. unlock(t, p) /\ UNCHANGED ts
    BY DEF UnlockPart
  <1> HIDE DEF p
  <1>3. /\ LockTypes /\ q \in Seq(Threads) /\ DOMAIN q = 1..Len(q)
        /\ ts \in [Threads -> Nat] /\ Ascending(q, ts)
        /\ \A x \in Parts : InOrder(x)
    <2>1. LockTypes /\ q \in Seq(Threads) /\ ts \in [Threads -> Nat]
      <3>1. \A u \in Threads : ts[u] \in 1..Cardinality(Threads)
        BY DEF LockInv, LockTypes
      <3> QED BY <1>1, <3>1 DEF LockInv, LockTypes
    <2>2. \A x \in Parts : InOrder(x)
      BY <2>1, OldestFirstMembers DEF LockInv
    <2> QED BY <1>1, <2>1, <2>2 DEF InOrder
  <1>4. /\ \A u \in Threads : WaitsAt(u) = {x \in Parts : u \in Members(waiters[x])}
        /\ LockTypes' =>
             \A u \in Threads : WaitsAt(u)' = {x \in Parts : u \in Members(waiters'[x])}
    BY <1>3, WaitsAtMembers, WaitsAtMembersNext
  <1>5. \A u \in Threads :
          /\ Asked(u) = WaitsAt(u) \union {x \in Parts : owner[x] = u}
          /\ \A x \in WaitsAt(u) : owner[x] # u
          /\ IsFiniteSet(WaitsAt(u)) /\ ready_part[u] = Cardinality(WaitsAt(u))
    BY DEF LockInv, InQueues, Counted
  \* Whoever leaves the queue is counted down.
  <1>6. ASSUME NEW g \in Threads, p \in WaitsAt(g), LockTypes,
               ready_part' = [ready_part EXCEPT ![g] = @ - 1],
               \A u \in Threads : WaitsAt(u)' = IF u = g THEN WaitsAt(u) \ {p} ELSE WaitsAt(u)
        PROVE  ready_part' \in [Threads -> Nat] /\ \A u \in Threads : Counted(u)'
    <2>1. ASSUME NEW u \in Threads
          PROVE  Counted(u)' /\ ready_part'[u] \in Nat
      <3>1. IsFiniteSet(WaitsAt(u)') /\ Cardinality(WaitsAt(u)') =
              IF u = g THEN Cardinality(WaitsAt(u)) - 1 ELSE Cardinality(WaitsAt(u))
        BY <1>5, <1>6, FS_RemoveElement
      <3>2. Cardinality(WaitsAt(u)') \in Nat
        BY <3>1, FS_CardinalityType
      <3>3. ready_part'[u] = Cardinality(WaitsAt(u)')
        BY <1>3, <1>5, <1>6, <3>1 DEF LockTypes
      <3> QED BY <3>1, <3>2, <3>3 DEF Counted
    <2> QED BY <1>3, <1>6, <2>1 DEF LockTypes
  <1>7. CASE t # owner[p]
    <2>1. PICK k \in 1..Len(q) : q[k] = t /\ waiters' = [waiters EXCEPT ![p] = RemoveAt(q, k)]
      BY <1>2, <1>3, <1>7 DEF unlock
    <2>2. ready_part' = [ready_part EXCEPT ![t] = @ - 1] /\ owner' = owner
      BY <1>2, <1>7 DEF unlock
    <2> DEFINE r == RemoveAt(q, k)
    <2>3. /\ r \in Seq(Threads) /\ Members(r) = Members(q) \ {t} /\ Ascending(r, ts)
      <3> HIDE DEF q
      <3> QED BY <1>3, <2>1, RemoveAscending
    <2> HIDE DEF r
    <2>4. \A x \in Parts : waiters'[x] = IF x = p THEN r ELSE waiters[x]
      BY <1>1, <1>3, <2>1 DEF LockTypes, r
    <2>5. waiters' \in [Parts -> Seq(Threads)]
      BY <1>1, <1>3, <2>1, <2>3 DEF LockTypes, r
    <2>6. \A u \in Threads :
            {x \in Parts : u \in Members(waiters'[x])} =
              IF u = t THEN WaitsAt(u) \ {p} ELSE WaitsAt(u)
      BY <1>1, <1>4, <2>3, <2>4
    <2>7. \A u \in Threads : WaitsAt(u)' = IF u = t THEN WaitsAt(u) \ {p} ELSE WaitsAt(u)
      <3>1. \A x \in Parts : DOMAIN waiters'[x] = 1..Len(waiters'[x])
        BY <2>5
      <3>2. \A u \in Threads : WaitsAt(u)' = {x \in Parts : u \in Members(waiters'[x])}
        BY <3>1 DEF WaitsAt, Members
      <3> QED BY <2>6, <3>2
    <2>8. p \in WaitsAt(t)
      BY <1>1, <1>5, <1>7
    <2>9. ready_part' \in [Threads -> Nat] /\ \A u \in Threads : Counted(u)'
      BY <1>3, <1>6, <2>2, <2>7, <2>8
    <2>10. LockTypes'
      BY <1>2, <1>3, <2>2, <2>5, <2>9 DEF LockTypes
    <2>11. InQueues'
      <3>1. ASSUME NEW u \in Threads
            PROVE  /\ Asked(u)' = WaitsAt(u)' \union {x \in Parts : owner'[x] = u}
                   /\ \A x \in WaitsAt(u)' : owner'[x] # u
        BY <1>1, <1>5, <1>7, <2>2, <2>7
      <3>2. \A x \in Parts : owner'[x] = NoThread => waiters'[x] = <<>>
        <4>1. owner[p] # NoThread
          BY <1>1, <2>1 DEF LockInv, InQueues
        <4> QED BY <2>2, <2>4, <4>1 DEF LockInv, InQueues
      <3> QED BY <3>1, <3>2 DEF InQueues
    <2>12. OldestFirst'
      <3> SUFFICES ASSUME NEW x \in Parts PROVE InOrder(x)'
        BY <2>10, OldestFirstMembersNext
      <3>1. InOrder(x)
        BY <1>3
      <3> QED BY <1>2, <2>2, <2>3, <2>4, <3>1 DEF InOrder
    <2> QED BY <2>7, <2>9, <2>10, <2>11, <2>12 DEF LockInv
  <1>8. CASE t = owner[p] /\ q = <<>>
    <2>1. owner' = [owner EXCEPT ![p] = NoThread] /\ UNCHANGED <<waiters, ready_part>>
      BY <1>2, <1>8 DEF unlock
    <2>2. \A x \in Parts : owner'[x] = IF x = p THEN NoThread ELSE owner[x]
      BY <1>1, <1>3, <2>1 DEF LockTypes
    <2>3. \A u \in Threads : WaitsAt(u)' = WaitsAt(u) /\ p \notin WaitsAt(u)
      BY <1>8, <2>1 DEF WaitsAt
    <2>4. LockTypes'
      BY <1>1, <1>2, <1>3, <2>1 DEF LockTypes
    <2>5. InQueues'
      <3>1. ASSUME NEW u \in Threads
            PROVE  /\ Asked(u)' = WaitsAt(u)' \union {x \in Parts : owner'[x] = u}
                   /\ \A x \in WaitsAt(u)' : owner'[x] # u
        <4>1. WaitsAt(u) \subseteq Parts
          BY DEF WaitsAt
        <4> QED BY <1>1, <1>5, <1>8, <2>2, <2>3, <4>1, ConfigAssumption
      <3>2. \A x \in Parts : owner'[x] = NoThread => waiters'[x] = <<>>
        BY <1>8, <2>1, <2>2 DEF LockInv, InQueues
      <3> QED BY <3>1, <3>2 DEF InQueues
    <2>6. \A u \in Threads : Counted(u)'
      BY <1>5, <2>1, <2>3 DEF Counted
    <2>7. OldestFirst'
      BY <1>2, <1>8, <2>1, <2>2 DEF LockInv, OldestFirst
    <2> QED BY <2>3, <2>4, <2>5, <2>6, <2>7 DEF LockInv
  <1>9. CASE t = owner[p] /\ q # <<>>
    <2> DEFINE h == Head(q)
               r == Tail(q)
    <2>1. /\ owner' = [owner EXCEPT ![p] = h]
          /\ waiters' = [waiters EXCEPT ![p] = r]
          /\ ready_part' = [ready_part EXCEPT ![h] = @ - 1]
      BY <1>2, <1>9 DEF unlock
    <2>2. /\ r \in Seq(Threads) /\ h \in Threads /\ Members(r) = Members(q) \ {h}
          /\ h \in Members(q) /\ Ascending(r, ts)
          /\ \A u \in Members(r) : ts[h] < ts[u]
      <3> HIDE DEF q
      <3> QED BY <1>3, <1>9, TailAscending
    <2> HIDE DEF r, h
    <2>3. \A x \in Parts : /\ waiters'[x] = IF x = p THEN r ELSE waiters[x]
                          /\ owner'[x] = IF x = p THEN h ELSE owner[x]
      BY <1>1, <1>3, <2>1 DEF LockTypes
    <2>4. /\ waiters' \in [Parts -> Seq(Threads)]
          /\ owner' \in [Parts -> Threads \union {NoThread}]
      BY <1>1, <1>3, <2>1, <2>2 DEF LockTypes
    <2>5. \A u \in Threads :
            {x \in Parts : u \in Members(waiters'[x])} =
              IF u = h THEN WaitsAt(u) \ {p} ELSE WaitsAt(u)
      BY <1>1, <1>4, <2>2, <2>3
    <2>6. \A u \in Threads : WaitsAt(u)' = IF u = h THEN WaitsAt(u) \ {p} ELSE WaitsAt(u)
      <3>1. \A x \in Parts : DOMAIN waiters'[x] = 1..Len(waiters'[x])
        BY <2>4
      <3>2. \A u \in Threads : WaitsAt(u)' = {x \in Parts : u \in Members(waiters'[x])}
        BY <3>1 DEF WaitsAt, Members
      <3> QED BY <2>5, <3>2
    <2>7. p \in WaitsAt(h)
      BY <1>1, <1>4, <2>2
    <2>8. ready_part' \in [Threads -> Nat] /\ \A u \in Threads : Counted(u)'
      BY <1>3, <1>6, <2>1, <2>2, <2>6, <2>7
    <2>9. LockTypes'
      BY <1>2, <1>3, <2>4, <2>8 DEF LockTypes
    <2>10. InQueues'
      <3>1. h # t
        BY <1>5, <1>9, <2>2, <2>7
      <3>2. ASSUME NEW u \in Threads
            PROVE  /\ Asked(u)' = WaitsAt(u)' \union {x \in Parts : owner'[x] = u}
                   /\ \A x \in WaitsAt(u)' : owner'[x] # u
        <4>1. CASE u = t
          <5>1. p \notin WaitsAt(t)
            BY <1>5, <1>9
          <5>2. {x \in Parts : owner'[x] = u} = {x \in Parts : owner[x] = u} \ {p}
            BY <2>3, <3>1, <4>1
          <5>3. WaitsAt(u)' = WaitsAt(u) /\ WaitsAt(u) \subseteq Parts
            BY <2>6, <3>1, <4>1 DEF WaitsAt
          <5> QED BY <1>1, <1>5, <2>3, <4>1, <5>1, <5>2, <5>3
        <4>2. CASE u = h
          <5>1. {x \in Parts : owner'[x] = u} = {x \in Parts : owner[x] = u} \union {p}
            BY <1>1, <2>3, <4>2
          <5>2. WaitsAt(u)' = WaitsAt(u) \ {p} /\ WaitsAt(u) \subseteq Parts
            BY <2>6, <4>2 DEF WaitsAt
          <5>3. Asked(u)' = Asked(u) /\ p \in WaitsAt(u)
            BY <1>1, <2>7, <3>1, <4>2
          <5> QED BY <1>5, <2>3, <5>1, <5>2, <5>3
        <4>3. CASE u # t /\ u # h
          <5>1. WaitsAt(u) \subseteq Parts
            BY DEF WaitsAt
          <5> QED BY <1>1, <1>5, <1>9, <2>3, <2>6, <4>3, <5>1
        <4> QED BY <4>1, <4>2, <4>3
      <3>3. \A x \in Parts : owner'[x] = NoThread => waiters'[x] = <<>>
        BY <2>2, <2>3, ConfigAssumption DEF LockInv, InQueues
      <3> QED BY <3>2, <3>3 DEF InQueues
    <2>11. OldestFirst'
      <3> SUFFICES ASSUME NEW x \in Parts PROVE InOrder(x)'
        BY <2>9, OldestFirstMembersNext
      <3>1. InOrder(x)
        BY <1>3
      <3> QED BY <1>2, <2>2, <2>3, <3>1, ConfigAssumption DEF InOrder
    <2> QED BY <2>6, <2>8, <2>9, <2>10, <2>11 DEF LockInv
  <1> QED BY <1>7, <1>8, <1>9

LEMMA LockStep ==
  ASSUME IInv, NEW t \in Threads, Step(t)
  PROVE  LockInv' /\ \A u \in Threads : WaitsAt(u)' \subseteq WaitsAt(u) \/ (u = t /\ LockWaits(t))
  <1>1. LockInv
    BY TypeParts DEF IInv, LockInv
  <1>2. CASE LockFree(t)
    BY <1>1, <1>2, LockFreeStep
  <1>3. CASE LockWaits(t)
    BY <1>1, <1>3, LockWaitsStep
  <1>4. CASE UnlockPart(t)
    BY <1>1, <1>4, UnlockPartStep
  <1>5. CASE StartTxn(t)
    BY <1>1, <1>5, StartStep
  <1>6. CASE /\ ~ (LockFree(t) \/ LockWaits(t) \/ UnlockPart(t) \/ StartTxn(t))
    <2>1. UNCHANGED <<lockVars, ts>>
      BY <1>6 DEF Step, LockAborts, EnterSpin, LeaveSpin, UseRow, FinishTxn,
           TxnCommitted, TxnAborted
    <2>2. \A u \in Threads : Asked(u)' = Asked(u)
      BY <1>6, AskedStep
    <2> QED BY <1>1, <2>1, <2>2, QuietStep
  <1> QED BY <1>2, <1>3, <1>4, <1>5, <1>6

\* A thread whose counter is 0 stands in no queue; it enters none until it has
\* given its partitions back.
LEMMA HasAllStep ==
  ASSUME IInv, NEW t \in Threads, Step(t), NEW u \in Threads
  PROVE  HasAll(u)'
  <1>0. ThreadTypes
    BY TypeParts DEF IInv
  <1>1. WaitsAt(u)' \subseteq WaitsAt(u) \/ (u = t /\ LockWaits(t))
    BY LockStep
  <1>2. CASE u # t
    <2>1. pc'[u] = pc[u]
      BY <1>0, <1>2 DEF Step, StartTxn, LockFree, LockWaits, LockAborts, EnterSpin,
           LeaveSpin, UseRow, FinishTxn, UnlockPart, TxnCommitted, TxnAborted, Goto,
           ThreadTypes
    <2> QED BY <1>1, <1>2, <2>1 DEF IInv, HasAll
  <1>3. CASE u = t /\ LeaveSpin(t)
    <2>1. ready_part[t] <= 0 /\ ~ LockWaits(t)
      BY <1>3 DEF LeaveSpin, Ready, LockWaits, Asks
    <2>2. IsFiniteSet(WaitsAt(t)) /\ ready_part[t] = Cardinality(WaitsAt(t))
      BY DEF IInv, Counted
    <2>3. WaitsAt(t) = {}
      <3>1. Cardinality(WaitsAt(t)) \in Nat
        BY <2>2, FS_CardinalityType
      <3>2. Cardinality(WaitsAt(t)) = 0
        BY <2>1, <2>2, <3>1
      <3> QED BY <2>2, <3>2, FS_EmptySet
    <2> QED BY <1>1, <1>3, <2>1, <2>3 DEF HasAll
  <1>4. CASE u = t /\ ~ LeaveSpin(t)
    <2>1. pc'[t] \in {"run", "unlock"} => pc[t] \in {"run", "unlock"}
      BY <1>0, <1>4 DEF Step, StartTxn, LockFree, LockWaits, LockAborts, EnterSpin,
           UseRow, FinishTxn, UnlockPart, TxnCommitted, TxnAborted, Asks, Goto,
           ThreadTypes
    <2>2. pc[t] \in {"run", "unlock"} => ~ LockWaits(t)
      BY DEF LockWaits, Asks
    <2> QED BY <1>1, <1>4, <2>1, <2>2 DEF IInv, HasAll
  <1> QED BY <1>2, <1>3, <1>4

LEMMA NextIInv == IInv /\ [Next]_vars => IInv'
  <1> SUFFICES ASSUME IInv, [Next]_vars PROVE IInv'
    OBVIOUS
  <1>1. ASSUME NEW t \in Threads, Step(t) PROVE IInv'
    <2>1. LockInv' /\ (ThreadTypes /\ Loops /\ \A u \in Threads : Progress(u))'
      BY <1>1, LockStep, ThreadStep
    <2>2. \A u \in Threads : HasAll(u)'
      BY <1>1, HasAllStep
    <2>3. TypeOK'
      BY <2>1 DEF LockInv, LockTypes, ThreadTypes, TypeOK
    <2> QED BY <2>1, <2>2, <2>3 DEF IInv, LockInv
  <1>2. CASE UNCHANGED vars
    <2>1. UNCHANGED <<owner, waiters, ready_part, ts, query, i, upto, pc, txn_cnt, data, saw, out>>
      BY <1>2 DEF vars, lockVars, dataVars
    <2>2. TypeOK' /\ Loops' /\ OldestFirst'
      BY <2>1 DEF IInv, TypeOK, Loops, OldestFirst
    <2>3. \A u \in Threads : /\ WaitsAt(u)' = WaitsAt(u) /\ Asked(u)' = Asked(u)
                           /\ Progress(u)' /\ Counted(u)' /\ HasAll(u)'
      <3>1. \A u \in Threads : WaitsAt(u)' = WaitsAt(u)
        BY <2>1 DEF WaitsAt
      <3>2. \A u \in Threads : Asked(u)' = Asked(u)
        BY <2>1 DEF Asked
      <3> QED BY <2>1, <3>1, <3>2 DEF IInv, Progress, Counted, HasAll
    <2>4. InQueues'
      BY <2>1, <2>3 DEF IInv, InQueues
    <2> QED BY <2>2, <2>3, <2>4 DEF IInv
  <1> QED BY <1>1, <1>2 DEF Next, Terminated

LEMMA Inductive == Spec => []IInv
  BY InitIInv, NextIInv, PTL DEF Spec

------------------------------------------------------------------------------
(***************************************************************************)
(* The invariants                                                          *)
(***************************************************************************)

\* Every variable keeps the type of the field it stands for and no two threads
\* ever have the same timestamp.
THEOREM TypeCorrect == Spec => []TypeOK
  BY Inductive, PTL DEF IInv

\* The counter a thread spins on is the number of queues it stands in.
THEOREM CounterRight == Spec => []ReadyCount
  <1>1. IInv => ReadyCount
    BY DEF IInv, Counted, ReadyCount
  <1> QED BY <1>1, Inductive, PTL

\* A thread owns or waits for what it has asked for and not given back.
THEOREM InQueuesAlways == Spec => []InQueues
  BY Inductive, PTL DEF IInv

\* Nobody waits behind or for a younger transaction.
THEOREM OldestFirstAlways == Spec => []OldestFirst
  BY Inductive, PTL DEF IInv

------------------------------------------------------------------------------
(***************************************************************************)
(* Partition locks implement the serial store                              *)
(***************************************************************************)

\* What t has read is the committed data: nobody else writes its partitions.
Seen(t) ==
  /\ pc[t] \in {"lock", "spin"} => saw[t] = <<>>
  /\ pc[t] = "run" => /\ Len(saw[t]) = i[t]
                      /\ \A k \in 1..i[t] : saw[t][k] = CommittedData[query[t][k].row]

SInv == IInv /\ \A t \in Threads : Seen(t)

\* A transaction that runs owns the partitions of its query.
LEMMA RunOwns ==
  ASSUME IInv, NEW t \in Threads, pc[t] = "run"
  PROVE  /\ query[t] \in Queries /\ Len(query[t]) \in Nat /\ i[t] \in 0..Len(query[t])
         /\ \A k \in 1..Len(query[t]) :
              query[t][k].row \in Parts /\ owner[query[t][k].row] = t
  <1>1. /\ query[t] \in Queries /\ i[t] \in 0..Len(query[t]) /\ WaitsAt(t) = {}
        /\ Asked(t) = {query[t][k].row : k \in 1..Len(query[t])}
        /\ Asked(t) = WaitsAt(t) \union {p \in Parts : owner[p] = t}
    BY TypeParts, AskedAt DEF IInv, Progress, HasAll, InQueues, AskedIs, ThreadTypes
  <1>2. Len(query[t]) \in Nat
    BY <1>1, QueryType
  <1> QED BY <1>1, <1>2

\* Only the owner of a partition has uncommitted writes in it.
LEMMA UnfinishedOwner ==
  ASSUME IInv, NEW t \in Threads, NEW p \in Parts, Unfinished(t, p)
  PROVE  owner[p] = t
  <1>1. PICK k \in 1..i[t] : query[t][k] = [row |-> p, type |-> "WR"]
    BY DEF Unfinished
  <1>2. pc[t] = "run"
    BY DEF Unfinished
  <1>3. k \in 1..Len(query[t]) /\ query[t][k].row = p
    BY <1>1, <1>2, RunOwns
  <1> QED BY <1>2, <1>3, RunOwns

LEMMA InitSeen == Init => \A t \in Threads : Seen(t)
  BY DEF Init, Seen

\* The threads other than t are where they were.
LEMMA OthersStay ==
  ASSUME IInv, NEW t \in Threads, Step(t), NEW u \in Threads, u # t
  PROVE  /\ query'[u] = query[u] /\ pc'[u] = pc[u] /\ i'[u] = i[u] /\ saw'[u] = saw[u]
         /\ \A p \in Parts : Unfinished(u, p)' <=> Unfinished(u, p)
  <1>1. /\ query'[u] = query[u] /\ pc'[u] = pc[u] /\ i'[u] = i[u] /\ saw'[u] = saw[u]
    BY TypeParts DEF IInv, Step, StartTxn, LockFree, LockWaits, LockAborts, EnterSpin,
       LeaveSpin, UseRow, FinishTxn, UnlockPart, TxnCommitted, TxnAborted, Goto, NextPart,
       ThreadTypes, Loops, dataVars
  <1> QED BY <1>1 DEF Unfinished

\* A step that neither reads, writes nor commits.
LEMMA OutsideStep ==
  ASSUME SInv, NEW t \in Threads, Step(t), ~ UseRow(t), ~ FinishTxn(t)
  PROVE  /\ \A u \in Threads : Seen(u)'
         /\ CommittedData' = CommittedData /\ out' = out
  <1>0. ThreadTypes /\ Loops /\ IInv
    BY TypeParts DEF SInv, IInv
  <1>1. data' = data /\ out' = out
    BY DEF Step, StartTxn, LockFree, LockWaits, LockAborts, EnterSpin, LeaveSpin,
         UnlockPart, TxnCommitted, TxnAborted, dataVars
  <1>2. \/ StartTxn(t) /\ pc'[t] = "lock" /\ saw'[t] = <<>> /\ pc[t] # "run"
        \/ /\ LeaveSpin(t) /\ pc[t] = "spin" /\ pc'[t] = "run" /\ i'[t] = 0 /\ saw' = saw
        \/ /\ saw' = saw /\ pc[t] # "run" /\ pc'[t] # "run"
           /\ pc'[t] \in {"lock", "spin"} => pc[t] \in {"lock", "spin"}
    BY <1>0 DEF Step, StartTxn, LockFree, LockWaits, LockAborts, EnterSpin, LeaveSpin,
         UnlockPart, TxnCommitted, TxnAborted, dataVars, Asks, Goto, ThreadTypes, Loops
  <1>3. \A p \in Parts : ~ Unfinished(t, p) /\ ~ Unfinished(t, p)'
    BY <1>2 DEF Unfinished
  <1>4. \A u \in Threads, p \in Parts : Unfinished(u, p)' <=> Unfinished(u, p)
    BY <1>0, <1>3, OthersStay
  <1>5. CommittedData' = CommittedData
    BY <1>1, <1>4 DEF CommittedData
  <1>6. ASSUME NEW u \in Threads PROVE Seen(u)'
    <2>1. CASE u = t
      BY <1>2, <2>1 DEF Seen, SInv
    <2>2. CASE u # t
      BY <1>0, <1>5, <2>2, OthersStay DEF Seen, SInv
    <2> QED BY <2>1, <2>2
  <1> QED BY <1>1, <1>5, <1>6

\* A transaction reads the committed value of a partition and may write it.
LEMMA UseRowStep ==
  ASSUME SInv, NEW t \in Threads, UseRow(t)
  PROVE  /\ \A u \in Threads : Seen(u)'
         /\ CommittedData' = CommittedData /\ out' = out
  <1> DEFINE q == query[t]
             n == i[t] + 1
             p == q[n].row
  <1>0. ThreadTypes /\ Loops /\ IInv /\ Step(t)
    BY TypeParts DEF SInv, IInv, Step
  <1>1. /\ pc[t] = "run" /\ i[t] < Len(q) /\ i'[t] = n
        /\ saw' = [saw EXCEPT ![t] = Append(@, data[p])]
        /\ data' = [data EXCEPT ![p] = IF q[n].type = "WR" THEN @ + 1 ELSE @]
        /\ pc' = pc /\ query' = query /\ out' = out
    BY <1>0 DEF UseRow, NextPart, Part, Loops
  <1>2. /\ q \in Queries /\ i[t] \in Nat /\ n \in 1..Len(q) /\ p \in Parts /\ owner[p] = t
        /\ q[n] \in [row : Parts, type : {"RD", "WR"}]
        /\ \A k \in 1..i[t] : k \in 1..Len(q) /\ q[k].row # p
    <2>1. q \in Queries /\ Len(q) \in Nat /\ i[t] \in 0..Len(q)
      BY <1>0, <1>1, RunOwns
    <2>2. n \in 1..Len(q) /\ \A k \in 1..i[t] : k \in 1..Len(q) /\ k # n
      BY <1>1, <2>1
    <2>3. p \in Parts /\ owner[p] = t
      BY <1>0, <1>1, <2>2, RunOwns
    <2> QED BY <2>1, <2>2, <2>3, QueryType
  <1> HIDE DEF q, n, p
  <1>3. /\ \A x \in Parts : data'[x] = IF x = p /\ q[n].type = "WR" THEN data[x] + 1 ELSE data[x]
        /\ data[p] \in Nat
    BY <1>0, <1>1, <1>2 DEF ThreadTypes
  <1>4. ASSUME NEW u \in Threads PROVE ~ Unfinished(u, p)
    <2>1. CASE u = t
      BY <1>2, <2>1 DEF Unfinished, q
    <2>2. CASE u # t
      BY <1>0, <1>2, <2>2, UnfinishedOwner
    <2> QED BY <2>1, <2>2
  <1>5. ASSUME NEW x \in Parts
        PROVE  Unfinished(t, x)' <=> Unfinished(t, x) \/ (x = p /\ q[n].type = "WR")
    <2>1. \A k : k \in 1..n <=> k \in 1..i[t] \/ k = n
      BY <1>2 DEF n
    <2>2. q[n] = [row |-> x, type |-> "WR"] <=> x = p /\ q[n].type = "WR"
      BY <1>2 DEF p
    <2>3. /\ Unfinished(t, x) <=> \E k \in 1..i[t] : q[k] = [row |-> x, type |-> "WR"]
          /\ Unfinished(t, x)' <=> \E k \in 1..n : q[k] = [row |-> x, type |-> "WR"]
      BY <1>1 DEF Unfinished, q
    <2> QED BY <2>1, <2>2, <2>3
  <1>6. ASSUME NEW x \in Parts PROVE CommittedData'[x] = CommittedData[x]
    <2>1. \A u \in Threads \ {t} : Unfinished(u, x)' <=> Unfinished(u, x)
      BY <1>0, OthersStay
    <2>2. (\E u \in Threads : Unfinished(u, x)') <=>
            (\E u \in Threads : Unfinished(u, x)) \/ (x = p /\ q[n].type = "WR")
      BY <1>5, <2>1
    <2>3. /\ CommittedData[x] =
               IF \E u \in Threads : Unfinished(u, x) THEN data[x] - 1 ELSE data[x]
          /\ CommittedData'[x] =
               IF \E u \in Threads : Unfinished(u, x)' THEN data'[x] - 1 ELSE data'[x]
      BY DEF CommittedData
    <2>4. CASE x = p /\ q[n].type = "WR"
      BY <1>3, <1>4, <2>2, <2>3, <2>4
    <2>5. CASE ~ (x = p /\ q[n].type = "WR")
      BY <1>3, <2>2, <2>3, <2>5
    <2> QED BY <2>4, <2>5
  <1>7. CommittedData' = CommittedData
    BY <1>6 DEF CommittedData
  <1>8. CommittedData[p] = data[p]
    BY <1>2, <1>4 DEF CommittedData
  <1>9. ASSUME NEW u \in Threads PROVE Seen(u)'
    <2>1. CASE u # t
      BY <1>0, <1>7, <2>1, OthersStay DEF Seen, SInv
    <2>2. CASE u = t
      <3>1. saw[t] \in Seq(Nat) /\ saw'[t] = Append(saw[t], data[p])
        BY <1>0, <1>1 DEF ThreadTypes
      <3>2. Len(saw[t]) = i[t] /\ \A k \in 1..i[t] : saw[t][k] = CommittedData[q[k].row]
        BY <1>1 DEF SInv, Seen, q
      <3>3. Len(saw'[t]) = n /\ saw'[t][n] = data[p] /\ \A k \in 1..i[t] : saw'[t][k] = saw[t][k]
        BY <1>3, <3>1, <3>2 DEF n
      <3>4. \A k \in 1..n : saw'[t][k] = CommittedData[q[k].row]
        <4>1. \A k \in 1..n : k \in 1..i[t] \/ k = n
          BY <1>2 DEF n
        <4> QED BY <1>8, <3>2, <3>3, <4>1 DEF p
      <3> QED BY <1>1, <1>7, <2>2, <3>3, <3>4 DEF Seen, q
    <2> QED BY <2>1, <2>2
  <1> QED BY <1>1, <1>7, <1>9

\* The transaction commits, as if it had run alone at this moment.
LEMMA FinishTxnStep ==
  ASSUME SInv, NEW t \in Threads, FinishTxn(t)
  PROVE  /\ \A u \in Threads : Seen(u)'
         /\ Serial!Commit(t, query[t]) /\ query[t] \in Queries
  <1> DEFINE q == query[t]
  <1>0. ThreadTypes /\ Loops /\ IInv /\ Step(t)
    BY TypeParts DEF SInv, IInv, Step
  <1>1. /\ pc[t] = "run" /\ pc'[t] = "unlock" /\ i[t] = Len(q)
        /\ out' = [out EXCEPT ![t] = [query |-> q, saw |-> saw[t]]]
        /\ UNCHANGED <<owner, query, data, saw>>
    BY <1>0 DEF FinishTxn, Goto, ThreadTypes, lockVars
  <1>2. /\ q \in Queries /\ Len(q) \in Nat /\ DOMAIN q = 1..Len(q)
        /\ \A k \in 1..Len(q) : /\ q[k].row \in Parts /\ owner[q[k].row] = t
                                /\ q[k] \in [row : Parts, type : {"RD", "WR"}]
    <2>1. q \in Queries /\ \A k \in 1..Len(q) : q[k].row \in Parts /\ owner[q[k].row] = t
      BY <1>0, <1>1, RunOwns
    <2> QED BY <2>1, QueryType
  <1>3. \A p \in Parts : Unfinished(t, p) => \A u \in Threads : Unfinished(u, p) => u = t
    BY <1>0, UnfinishedOwner
  <1>4. ASSUME NEW p \in Parts PROVE Unfinished(t, p) <=> Serial!Writes(q, p)
    <2>1. \A k \in 1..Len(q) :
            q[k] = [row |-> p, type |-> "WR"] <=> q[k].row = p /\ q[k].type = "WR"
      BY <1>2
    <2> QED BY <1>1, <1>2, <2>1 DEF Unfinished, Serial!Writes
  <1>5. ASSUME NEW p \in Parts
        PROVE  CommittedData'[p] = IF Serial!Writes(q, p) THEN CommittedData[p] + 1
                                   ELSE CommittedData[p]
    <2>1. ~ Unfinished(t, p)'
      BY <1>1 DEF Unfinished
    <2>2. \A u \in Threads \ {t} : Unfinished(u, p)' <=> Unfinished(u, p)
      BY <1>0, OthersStay
    <2>3. /\ CommittedData[p] =
               IF \E u \in Threads : Unfinished(u, p) THEN data[p] - 1 ELSE data[p]
          /\ CommittedData'[p] =
               IF \E u \in Threads : Unfinished(u, p)' THEN data'[p] - 1 ELSE data'[p]
      BY DEF CommittedData
    <2>4. data[p] \in Nat /\ data'[p] = data[p]
      BY <1>0, <1>1 DEF ThreadTypes
    <2>5. CASE Unfinished(t, p)
      <3>1. ~ \E u \in Threads : Unfinished(u, p)'
        BY <1>3, <2>1, <2>2, <2>5
      <3> QED BY <1>4, <2>3, <2>4, <2>5, <3>1
    <2>6. CASE ~ Unfinished(t, p)
      <3>1. (\E u \in Threads : Unfinished(u, p)') <=> \E u \in Threads : Unfinished(u, p)
        BY <2>1, <2>2, <2>6
      <3> QED BY <1>4, <2>3, <2>4, <2>6, <3>1
    <2> QED BY <2>5, <2>6
  <1>6. CommittedData' = [p \in Parts |-> IF Serial!Writes(q, p) THEN CommittedData[p] + 1
                                          ELSE CommittedData[p]]
    BY <1>5 DEF CommittedData
  <1>7. saw[t] = [k \in DOMAIN q |-> CommittedData[q[k].row]]
    <2>1. /\ saw[t] \in Seq(Nat) /\ Len(saw[t]) = Len(q)
          /\ \A k \in 1..Len(q) : saw[t][k] = CommittedData[q[k].row]
      BY <1>0, <1>1 DEF ThreadTypes, SInv, Seen
    <2>2. saw[t] = [k \in 1..Len(saw[t]) |-> saw[t][k]]
      BY <2>1
    <2> QED BY <1>2, <2>1, <2>2
  <1>8. Serial!Commit(t, q)
    BY <1>1, <1>6, <1>7 DEF Serial!Commit
  <1>9. ASSUME NEW u \in Threads PROVE Seen(u)'
    <2>1. CASE u = t
      BY <1>1, <2>1 DEF Seen
    <2>2. CASE u # t
      <3>1. ASSUME pc[u] = "run", NEW k \in 1..i[u]
            PROVE  CommittedData'[query[u][k].row] = CommittedData[query[u][k].row]
        <4>1. k \in 1..Len(query[u])
          BY <1>0, <3>1, RunOwns
        <4>2. query[u][k].row \in Parts /\ owner[query[u][k].row] = u
          BY <1>0, <3>1, <4>1, RunOwns
        <4>3. ~ Unfinished(t, query[u][k].row)
          BY <1>0, <2>2, <4>2, UnfinishedOwner
        <4> QED BY <1>4, <1>5, <4>2, <4>3
      <3> QED BY <1>0, <2>2, <3>1, OthersStay DEF Seen, SInv
    <2> QED BY <2>1, <2>2
  <1> QED BY <1>2, <1>8, <1>9

LEMMA SerialStep == SInv /\ [Next]_vars => SInv' /\ [Serial!Next]_(Serial!vars)
  <1> SUFFICES ASSUME SInv, [Next]_vars PROVE SInv' /\ [Serial!Next]_(Serial!vars)
    OBVIOUS
  <1>0. IInv'
    BY NextIInv DEF SInv
  <1>1. ASSUME NEW t \in Threads, Step(t)
        PROVE  (\A u \in Threads : Seen(u)') /\ [Serial!Next]_(Serial!vars)
    <2>1. CASE UseRow(t)
      BY <2>1, UseRowStep DEF Serial!vars
    <2>2. CASE FinishTxn(t)
      BY <2>2, FinishTxnStep DEF Serial!Next
    <2>3. CASE ~ UseRow(t) /\ ~ FinishTxn(t)
      BY <1>1, <2>3, OutsideStep DEF Serial!vars
    <2> QED BY <2>1, <2>2, <2>3
  <1>2. CASE UNCHANGED vars
    <2>1. UNCHANGED <<query, i, pc, data, saw, out>>
      BY <1>2 DEF vars, dataVars
    <2>2. \A u \in Threads, p \in Parts : Unfinished(u, p)' <=> Unfinished(u, p)
      BY <2>1 DEF Unfinished
    <2>3. CommittedData' = CommittedData
      BY <2>1, <2>2 DEF CommittedData
    <2>4. \A u \in Threads : Seen(u)'
      BY <2>1, <2>3 DEF SInv, Seen
    <2> QED BY <1>0, <2>1, <2>3, <2>4 DEF SInv, Serial!vars
  <1> QED BY <1>0, <1>1, <1>2 DEF Next, Terminated, SInv

LEMMA SerialInit == Init => Serial!Init
  <1> SUFFICES ASSUME Init PROVE Serial!Init
    OBVIOUS
  <1>1. \A t \in Threads, p \in Parts : ~ Unfinished(t, p)
    BY DEF Init, Unfinished
  <1>2. CommittedData = [p \in Parts |-> 0]
    BY <1>1 DEF Init, CommittedData
  <1> QED BY <1>2 DEF Init, Serial!Init, NoOutput, Serial!NoOutput

\* Transactions under partition locks are serializable: every behaviour is one of
\* the store that runs a transaction at a time, at its FinishTxn.
THEOREM Refinement == Spec => Serializable
  <1>1. Init => SInv
    BY InitIInv, InitSeen DEF SInv
  <1> QED BY <1>1, SerialInit, SerialStep, PTL DEF Spec, Serializable, Serial!Spec

==============================================================================
