------------------------------ MODULE RowMVCCProofs ------------------------------
(***************************************************************************)
(* Proofs about RowMVCC for every set of threads, rows and queries, and    *)
(* for every start, as long as no history is cut while a thread registers  *)
(* its first timestamp.                                                    *)
(*                                                                         *)
(* The argument: a row knows of every read, by its timestamp in readhis or *)
(* because no transaction as old is left.  So no prewrite is let in before *)
(* a read, and a reader that is let through has all the writes before it   *)
(* among the versions, or below a version that is older than every         *)
(* transaction.  What is recycled lies below such a version.               *)
(***************************************************************************)
EXTENDS RowMVCC, SeqLemmas, FiniteSetTheorems, TLAPS

------------------------------------------------------------------------------
(***************************************************************************)
(* The inductive invariant                                                 *)
(***************************************************************************)

Transaction == [ts : Stamp, query : Queries, saw : Seq(Nat)]

\* What a row r is to the transactions: who has announced a write to it, who
\* has read it, and who waits to.
Announcers(r) == {t \in Threads : Announced(t, r)}

\* The read that thread t has asked for has been performed.
Granted(t) == pc[t] = "granted" \/ (pc[t] = "spin" /\ ts_ready[t])

HasRead(t, r) ==
  \/ \E i \in DOMAIN accesses[t] : accesses[t][i].row = r
  \/ Granted(t) /\ Row(t) = r

Readers(r) == {t \in Threads : HasRead(t, r)}

Waits(t, r) == pc[t] = "spin" /\ ~ ts_ready[t] /\ Row(t) = r

Waiters(r) == {t \in Threads : Waits(t, r)}

\* Thread t has registered the timestamp of its transaction.
Running(t) == pc[t] \notin {"idle", "begin"}

\* No transaction of thread t, now or later, is older than Floors[t]: what it
\* has registered, what it has drawn, or what it will draw.
Floors ==
  [t \in Threads |-> IF all_ts[t] # UINT64_MAX THEN all_ts[t]
                     ELSE IF ts[t] # UINT64_MAX THEN ts[t] ELSE timestamp]

\* The transactions as old as n are over: A is the threads' floors.
Over(A, n) == \A u \in Threads : n < A[u]

\* The writes to r of the log L up to n, and before it.
UpTo(L, r, n)  == {c \in L : c.ts <= n /\ Ordered!Writes(c.query, r)}
Before(L, r, n) == {c \in L : c.ts < n /\ Ordered!Writes(c.query, r)}

\* Version p is the last one of W that is not after n; 0 stands for the base.
IsAt(W, n, p) ==
  \/ p = 0 /\ \A v \in W : n < v.ts
  \/ \E v \in W : v.ts = p /\ p <= n /\ \A w \in W : w.ts <= n => w.ts <= p

\* The buffered requests P and Q of a row are those of its announcers and its
\* waiters, of which each has an announcer before it while debuffer_req searches
\* far enough; T has the timestamps.
Buffers(P, Q, ann, wait, T) ==
  /\ \A e : e \in P <=> \E t \in ann : e = [txn |-> t, ts |-> T[t]]
  /\ \A e : e \in Q <=> \E t \in wait : e = [txn |-> t, ts |-> T[t]]
  /\ \A t \in wait : T[t] <= PTS_BOUND => \E u \in ann : T[u] < T[t]

\* The reads R of row r have those of its readers and none after an announced
\* write; the log L has none that R has forgotten too early.
Reading(r, R, ann, has, T, A, L) ==
  /\ R \subseteq Stamp
  /\ \A t \in has : T[t] \in R
  /\ \A t \in ann : \A h \in R : h <= T[t]
  /\ \A c \in L : Ordered!Touches(c.query, r) => c.ts \in R \/ Over(A, c.ts)

\* The versions W of row r and its base b hold the writes of the log L to it,
\* but for those before a version that is older than every transaction, and
\* those that their transactions still have to return.
Writing(r, W, b, ann, T, A, L) ==
  /\ W \subseteq [ts : Stamp, data : Nat] /\ b \in 0..MAX_TS
  /\ \A v \in W : /\ \E c \in L : c.ts = v.ts /\ Ordered!Writes(c.query, r)
                  /\ v.data = Cardinality(UpTo(L, r, v.ts))
                  /\ \A t \in ann : T[t] # v.ts
  /\ \A v, w \in W : v.ts = w.ts => v = w
  /\ \A c \in L : Ordered!Writes(c.query, r) =>
       \/ \E t \in ann : T[t] = c.ts
       \/ \E v \in W : v.ts = c.ts
       \/ \E v \in W : c.ts < v.ts /\ Over(A, v.ts)
  /\ b = 0 \/ \E v \in W : Over(A, v.ts)

Buffered(r) == Buffers(prereq[r], readreq[r], Announcers(r), Waiters(r), ts)

RowInv(r) ==
  /\ Reading(r, readhis[r], Announcers(r), Readers(r), ts, Floors, committed)
  /\ Writing(r, writehis[r], base[r], Announcers(r), ts, Floors, committed)

\* The timestamps that were given out, registered and logged.
Clock ==
  /\ \A t \in Threads : /\ ts[t] < timestamp \/ (ts[t] = UINT64_MAX /\ pc[t] = "idle")
                        /\ all_ts[t] <= ts[t] \/ Registering(t)
                        /\ pc[t] # "begin" => all_ts[t] = ts[t]
  /\ \A t, u \in Threads : ts[t] = ts[u] => t = u \/ ts[t] = UINT64_MAX

Log ==
  /\ IsFiniteSet(committed)
  /\ \A c \in committed : 0 < c.ts /\ c.ts < timestamp
  /\ \A c, d \in committed : c.ts = d.ts => c = d
  /\ \A c \in committed, t \in Threads : c.ts = ts[t] =>
       pc[t] = "idle" \/ (pc[t] = "cleanup" /\ rc[t] = "RCOK")
  /\ \A t \in Threads : pc[t] = "cleanup" /\ rc[t] = "RCOK" =>
       \E c \in committed : c.ts = ts[t] /\ c.query = query[t]

\* Where thread t is in its query, ...
Progress(t) ==
  /\ pc[t] # "idle" => query[t] \in Queries
  /\ pc[t] \in {"idle", "retry", "begin"} => accesses[t] = <<>>
  /\ Len(accesses[t]) <= Len(query[t])
  /\ \A k \in 1..Len(accesses[t]) : /\ accesses[t][k].row = query[t][k].row
                                    /\ accesses[t][k].type = query[t][k].type
  /\ pc[t] \in {"read", "granted", "spin"} => Len(accesses[t]) < Len(query[t])
  /\ pc[t] = "read" => Cur(t).type = "WR"

\* ... the versions that it holds, and what it has seen.
Pointers(t) ==
  /\ Granted(t) => IsAt(writehis[Row(t)], ts[t], cur_row[t])
  /\ pc[t] # "cleanup" => \A k \in 1..Len(accesses[t]) :
       IsAt(writehis[accesses[t][k].row], ts[t], accesses[t][k].version)

Seen(t) ==
  \A k \in 1..Len(accesses[t]) :
    accesses[t][k].data = Cardinality(Before(committed, accesses[t][k].row, ts[t]))

Stamps == [Threads -> 1..UINT64_MAX]

AccessType == [row : Rows, type : {"RD", "WR"}, version : Stamp, data : Nat]

Types ==
  /\ timestamp \in 1..UINT64_MAX /\ all_ts \in Stamps
  /\ readreq \in [Rows -> SUBSET Request] /\ prereq \in [Rows -> SUBSET Request]
  /\ readhis \in [Rows -> SUBSET Stamp]
  /\ writehis \in [Rows -> SUBSET [ts : Stamp, data : Nat]]
  /\ base \in [Rows -> Nat]
  /\ ts \in Stamps /\ ts_ready \in [Threads -> BOOLEAN]
  /\ cur_row \in [Threads -> Stamp]
  /\ query \in [Threads -> Queries \union {<<>>}]
  /\ accesses \in [Threads -> Seq(AccessType)]
  /\ rc \in [Threads -> {"RCOK", "Abort"}] /\ pc \in [Threads -> PC]
  /\ committed \subseteq Transaction

Core == Types /\ Clock /\ Log /\ \A t \in Threads : Progress(t)

\* What holds from any start, whatever history is cut: it is inductive by
\* itself.
BufferInv ==
  /\ Types /\ Clock /\ Log
  /\ \A t \in Threads : Progress(t)
  /\ \A r \in Rows : Buffered(r)

\* What holds as long as no history is cut that somebody needs.
HistoryInv ==
  /\ \A t \in Threads : Pointers(t) /\ Seen(t)
  /\ \A r \in Rows : RowInv(r)

IInv == BufferInv /\ HistoryInv

------------------------------------------------------------------------------
(***************************************************************************)
(* Timestamps, versions and history                                        *)
(***************************************************************************)

\* The numbers of a schedule have a greatest and a least one.
LEMMA GreatestFacts ==
  ASSUME NEW k \in Nat, NEW S \in SUBSET (0..k), S # {}
  PROVE  Greatest(S) \in S /\ \A n \in S : n <= Greatest(S)
  BY GreatestNumber DEF Greatest

LEMMA LeastFacts ==
  ASSUME NEW k \in Nat, NEW S \in SUBSET (0..k), S # {}
  PROVE  Least(S) \in S /\ \A n \in S : Least(S) <= n
  BY LeastNumber DEF Least

\* VersionAt finds the last version that is not after n.
LEMMA Latest ==
  ASSUME NEW W \in SUBSET [ts : Stamp, data : Nat], NEW n \in Nat
  PROVE  VersionAt(W, n) \in Stamp /\ IsAt(W, n, VersionAt(W, n))
  <1>1. \A v \in W : v.ts \in 0..UINT64_MAX /\ v.ts \in Nat
    BY DEF Stamp
  <1>2. UINT64_MAX \in Nat /\ 0 \in Stamp
    BY ConfigAssumption DEF UINT64_MAX, Stamp
  <1>3. CASE \E v \in W : v.ts <= n
    <2> DEFINE S == {v.ts : v \in {w \in W : w.ts <= n}}
    <2>1. S \in SUBSET (0..UINT64_MAX) /\ S # {}
      BY <1>1, <1>3
    <2>2. VersionAt(W, n) = Greatest(S)
      BY <1>3 DEF VersionAt
    <2>3. \A w \in W : w.ts <= n => w.ts \in S
      OBVIOUS
    <2>4. \A p \in S : p \in Stamp /\ \E v \in W : v.ts = p /\ p <= n
      BY <1>1 DEF Stamp
    <2> HIDE DEF S
    <2>5. Greatest(S) \in S /\ \A p \in S : p <= Greatest(S)
      BY <1>2, <2>1, GreatestFacts
    <2> QED BY <2>2, <2>3, <2>4, <2>5 DEF IsAt
  <1>4. CASE ~ \E v \in W : v.ts <= n
    <2>1. VersionAt(W, n) = 0
      BY <1>4 DEF VersionAt
    <2> QED BY <1>1, <1>2, <1>4, <2>1 DEF IsAt
  <1> QED BY <1>3, <1>4

\* What recycling does to the reads R and the versions W and base b of a row.
CutReads(R, R2, A) == R2 \subseteq R /\ \A h \in R : h \in R2 \/ Over(A, h)

CutVersions(W, b, W2, b2, A) ==
  /\ W2 \subseteq W
  /\ \A v \in W : v \in W2 \/ \E w \in W2 : v.ts < w.ts /\ Over(A, w.ts)
  /\ b2 = b \/ \E v \in W \ W2 : b2 = v.data

\* What is not kept lies below something that is kept and lies before n.
LEMMA KeptFacts ==
  ASSUME NEW H \in SUBSET Stamp, NEW n \in Nat, NEW h \in H, h \notin Kept(H, n)
  PROVE  h < n /\ \E g \in Kept(H, n) : h < g /\ g < n
  <1> DEFINE S == {k \in H : k < n}
  <1>1. UINT64_MAX \in Nat /\ H \in SUBSET (0..UINT64_MAX) /\ h \in Nat
        /\ \A k \in H : k \in Nat
    BY ConfigAssumption DEF UINT64_MAX, Stamp
  <1>2. h < n /\ \E k \in H : k < n /\ ~ (k <= h)
    BY <1>1 DEF Kept
  <1>3. S \in SUBSET (0..UINT64_MAX) /\ S # {}
    BY <1>1, <1>2
  <1>4. Greatest(S) \in S /\ \A k \in S : k <= Greatest(S)
    <2> HIDE DEF S
    <2> QED BY <1>1, <1>3, GreatestFacts
  <1> DEFINE g == Greatest(S)
  <1>5. g \in H /\ g < n /\ \A k \in H : k < n => k <= g
    BY <1>4
  <1> HIDE DEF g
  <1>6. g \in Kept(H, n)
    BY <1>5 DEF Kept
  <1>7. h < g
    BY <1>1, <1>2, <1>5
  <1> QED BY <1>2, <1>5, <1>6, <1>7

\* What MinTs allows is a lower bound of the registered timestamps.
LEMMA MinFacts ==
  ASSUME all_ts \in Stamps, NEW n \in MinTs, Threads # {}
  PROVE  n \in Nat /\ \A t \in Threads : n <= all_ts[t]
  <1> DEFINE S == {all_ts[t] : t \in Threads}
  <1>1. UINT64_MAX \in Nat /\ S \in SUBSET (0..UINT64_MAX) /\ S # {} /\ S \subseteq Nat
    BY ConfigAssumption DEF Stamps, UINT64_MAX
  <1>2. \A t \in Threads : all_ts[t] \in S /\ all_ts[t] \in Nat
    BY ConfigAssumption DEF Stamps, UINT64_MAX
  <1>3. n \in 0..Least(S)
    BY DEF MinTs
  <1> HIDE DEF S
  <1>4. Least(S) \in S /\ \A k \in S : Least(S) <= k
    BY <1>1, LeastFacts
  <1>5. Least(S) \in Nat
    BY <1>1, <1>4
  <1> QED BY <1>2, <1>3, <1>4, <1>5

\* Recycled cuts reads and versions of its row, and touches no other.
Cuts(r, R, W, A) ==
  \E R2 \in SUBSET R, W2 \in SUBSET W, b2 \in Nat :
    /\ CutReads(R, R2, A) /\ CutVersions(W, base[r], W2, b2, A)
    /\ readhis' = [readhis EXCEPT ![r] = R2]
    /\ writehis' = [writehis EXCEPT ![r] = W2]
    /\ base' = [base EXCEPT ![r] = b2]

LEMMA RecycledCuts ==
  ASSUME Types, Threads # {}, NEW r \in Rows, NEW R \in SUBSET Stamp,
         NEW W \in SUBSET [ts : Stamp, data : Nat], Recycled(r, R, W)
  PROVE  Cuts(r, R, W, all_ts)
  <1>0. /\ all_ts \in Stamps /\ \A u \in Threads : all_ts[u] \in Nat
        /\ base \in [Rows -> Nat] /\ base = [base EXCEPT ![r] = base[r]]
    BY ConfigAssumption DEF Types, Stamps, UINT64_MAX
  <1>1. CASE Cardinality(W) <= HIS_RECYCLE_LEN /\ Cardinality(R) <= HIS_RECYCLE_LEN
    <2>1. /\ readhis' = [readhis EXCEPT ![r] = R] /\ writehis' = [writehis EXCEPT ![r] = W]
          /\ base' = [base EXCEPT ![r] = base[r]] /\ base[r] \in Nat
      BY <1>0, <1>1 DEF Recycled
    <2>2. CutReads(R, R, all_ts) /\ CutVersions(W, base[r], W, base[r], all_ts)
      BY DEF CutReads, CutVersions
    <2> QED BY <2>1, <2>2 DEF Cuts
  <1>2. CASE ~ (Cardinality(W) <= HIS_RECYCLE_LEN /\ Cardinality(R) <= HIS_RECYCLE_LEN)
    <2> DEFINE H == {v.ts : v \in W}
    <2>1. PICK n \in MinTs :
            LET kept    == Kept(H, n)
                dropped == {v \in W : v.ts \notin kept}
            IN /\ readhis' = [readhis EXCEPT ![r] = Kept(R, n)]
               /\ writehis' = [writehis EXCEPT ![r] = W \ dropped]
               /\ base' = IF dropped = {} THEN base
                          ELSE [base EXCEPT ![r] =
                            (CHOOSE v \in dropped :
                               \A w \in dropped : w.ts <= v.ts).data]
      BY <1>2 DEF Recycled
    <2> DEFINE D  == {v \in W : v.ts \notin Kept(H, n)}
               d  == CHOOSE v \in D : \A w \in D : w.ts <= v.ts
               b2 == IF D = {} THEN base[r] ELSE d.data
    <2>2. n \in Nat /\ \A u \in Threads : n <= all_ts[u] /\ all_ts[u] \in Nat
      BY <1>0, MinFacts
    <2>3. H \in SUBSET Stamp /\ \A v \in W : v.ts \in H /\ v.ts \in Stamp /\ v.ts \in Nat
          /\ v.data \in Nat
      BY DEF Stamp
    <2>4. \A k : k \in Nat /\ k < n => Over(all_ts, k)
      BY <2>2 DEF Over
    <2>5. Kept(R, n) \subseteq R
      BY DEF Kept
    <2>6. CutReads(R, Kept(R, n), all_ts)
      <3>1. ASSUME NEW h \in R, h \notin Kept(R, n) PROVE Over(all_ts, h)
        BY <2>2, <2>4, <3>1, KeptFacts DEF Stamp
      <3> QED BY <2>5, <3>1 DEF CutReads
    <2>7. \A v \in D : \E w \in W \ D : v.ts < w.ts /\ Over(all_ts, w.ts)
      <3>1. TAKE v \in D
      <3>2. v \in W /\ v.ts \in H /\ v.ts \notin Kept(H, n)
        BY <2>3
      <3>3. PICK g \in Kept(H, n) : v.ts < g /\ g < n
        <4> HIDE DEF H, D
        <4> QED BY <2>2, <2>3, <3>2, KeptFacts
      <3>4. PICK w \in W : w.ts = g
        BY <3>3 DEF Kept
      <3> QED BY <2>3, <2>4, <3>3, <3>4
    <2>8. D # {} => d \in D
      <3> SUFFICES ASSUME D # {} PROVE \E v \in D : \A w \in D : w.ts <= v.ts
        OBVIOUS
      <3> DEFINE S == {v.ts : v \in D}
      <3>0. UINT64_MAX \in Nat
        BY ConfigAssumption DEF UINT64_MAX
      <3>1. S \in SUBSET (0..UINT64_MAX) /\ S # {}
        BY <2>3 DEF Stamp
      <3>2. \A v \in D : v.ts \in S
        OBVIOUS
      <3>3. \A k \in S : \E v \in D : v.ts = k
        OBVIOUS
      <3> HIDE DEF S, D
      <3>4. Greatest(S) \in S /\ \A k \in S : k <= Greatest(S)
        BY <3>0, <3>1, GreatestFacts
      <3> QED BY <3>2, <3>3, <3>4
    <2>9. b2 \in Nat
      BY <1>0, <2>3, <2>8
    <2>10. CutVersions(W, base[r], W \ D, b2, all_ts)
      <3>1. b2 = base[r] \/ \E v \in W \ (W \ D) : b2 = v.data
        <4>1. CASE D = {}
          BY <4>1
        <4>2. CASE D # {}
          <5>1. d \in W \ (W \ D) /\ b2 = d.data
            BY <2>8, <4>2
          <5> QED BY <5>1
        <4> QED BY <4>1, <4>2
      <3> HIDE DEF D, b2
      <3> QED BY <2>7, <3>1 DEF CutVersions
    <2>11. /\ readhis' = [readhis EXCEPT ![r] = Kept(R, n)]
           /\ writehis' = [writehis EXCEPT ![r] = W \ D]
           /\ base' = [base EXCEPT ![r] = b2]
      <3>1. base' = IF D = {} THEN base ELSE [base EXCEPT ![r] = d.data]
        BY <2>1
      <3>2. base' = [base EXCEPT ![r] = b2]
        <4> HIDE DEF D, d
        <4> QED BY <1>0, <3>1
      <3> QED BY <2>1, <3>2
    <2> HIDE DEF D, b2
    <2> QED BY <2>5, <2>6, <2>9, <2>10, <2>11 DEF Cuts
  <1> QED BY <1>1, <1>2

------------------------------------------------------------------------------
(***************************************************************************)
(* The buffered requests of a row                                          *)
(***************************************************************************)

\* A write is announced.
LEMMA BuffersAnnounce ==
  ASSUME NEW P, NEW Q, NEW ann, NEW wait, NEW T, NEW t, Buffers(P, Q, ann, wait, T)
  PROVE  Buffers(P \union {[txn |-> t, ts |-> T[t]]}, Q, ann \union {t}, wait, T)
  <1>1. /\ \A e : e \in P <=> \E u \in ann : e = [txn |-> u, ts |-> T[u]]
        /\ \A e : e \in Q <=> \E u \in wait : e = [txn |-> u, ts |-> T[u]]
        /\ \A u \in wait : T[u] <= PTS_BOUND => \E a \in ann : T[a] < T[u]
    BY DEF Buffers
  <1>2. \A e : e \in P \union {[txn |-> t, ts |-> T[t]]} <=>
               \E u \in ann \union {t} : e = [txn |-> u, ts |-> T[u]]
    BY <1>1
  <1> QED BY <1>1, <1>2 DEF Buffers

\* A read is buffered behind a write announced before it.
LEMMA BuffersWait ==
  ASSUME NEW P, NEW Q, NEW ann, NEW wait, NEW T, NEW t, Buffers(P, Q, ann, wait, T),
         \E u \in ann : T[u] < T[t]
  PROVE  Buffers(P, Q \union {[txn |-> t, ts |-> T[t]]}, ann, wait \union {t}, T)
  <1>1. /\ \A e : e \in P <=> \E u \in ann : e = [txn |-> u, ts |-> T[u]]
        /\ \A e : e \in Q <=> \E u \in wait : e = [txn |-> u, ts |-> T[u]]
        /\ \A u \in wait : T[u] <= PTS_BOUND => \E a \in ann : T[a] < T[u]
    BY DEF Buffers
  <1>2. \A e : e \in Q \union {[txn |-> t, ts |-> T[t]]} <=>
               \E u \in wait \union {t} : e = [txn |-> u, ts |-> T[u]]
    BY <1>1
  <1>3. \A u \in wait \union {t} : T[u] <= PTS_BOUND => \E a \in ann : T[a] < T[u]
    BY <1>1
  <1> QED BY <1>1, <1>2, <1>3 DEF Buffers

\* When the prewrite of t goes, the reads that no prewrite holds back any more
\* are let through: those that stay have one before them.
Others(P, t) == {p \in P : p.txn # t}

Freed(P, Q, wait) == {u \in wait : \E e \in Runnable(P, Q) : e.txn = u}

LetThrough(P, Q, ann, wait, T) ==
  LET rel == Freed(P, Q, wait)
  IN /\ Buffers(P, Q \ Runnable(P, Q), ann, wait \ rel, T)
     /\ \A e : e \in Runnable(P, Q) <=> \E u \in rel : e = [txn |-> u, ts |-> T[u]]
     /\ \A u \in rel, a \in ann : T[u] <= T[a]

LEMMA BuffersRelease ==
  ASSUME NEW P, NEW Q, NEW ann \in SUBSET Threads,
         NEW wait \in SUBSET Threads, NEW T \in Stamps, NEW t,
         Buffers(P, Q, ann, wait, T)
  PROVE  LetThrough(Others(P, t), Q, ann \ {t}, wait, T)
  <1> DEFINE P2  == Others(P, t)
             rel == Freed(P2, Q, wait)
  <1>0. /\ PTS_BOUND \in Nat /\ UINT64_MAX \in Nat
        /\ \A u \in Threads : T[u] \in 1..UINT64_MAX /\ T[u] \in Nat
    BY ConfigAssumption DEF Stamps, UINT64_MAX
  <1>1. /\ \A e : e \in P <=> \E u \in ann : e = [txn |-> u, ts |-> T[u]]
        /\ \A e : e \in Q <=> \E u \in wait : e = [txn |-> u, ts |-> T[u]]
        /\ \A u \in wait : T[u] <= PTS_BOUND => \E a \in ann : T[a] < T[u]
    BY DEF Buffers
  <1>2. \A e : e \in P2 <=> \E u \in ann \ {t} : e = [txn |-> u, ts |-> T[u]]
    BY <1>1 DEF Others
  <1>13. \A u : u \in rel <=> u \in wait /\ \E e \in Runnable(P2, Q) : e.txn = u
    BY DEF Freed
  <1> HIDE DEF P2, rel
  <1> DEFINE S == {p.ts : p \in P2} \union {PTS_BOUND}
             m == Least(S)
  <1>3. /\ \A u \in ann \ {t} : T[u] \in S
        /\ \A k \in S : k = PTS_BOUND \/ \E u \in ann \ {t} : k = T[u]
    <2>1. ASSUME NEW u \in ann \ {t} PROVE T[u] \in S
      <3>1. [txn |-> u, ts |-> T[u]] \in P2
        BY <1>2
      <3> QED BY <3>1
    <2>2. ASSUME NEW k \in S PROVE k = PTS_BOUND \/ \E u \in ann \ {t} : k = T[u]
      BY <1>2
    <2> QED BY <2>1, <2>2
  <1>4. m \in S /\ \A k \in S : m <= k
    <2>1. S \in SUBSET (0..(PTS_BOUND + UINT64_MAX)) /\ S # {}
      <3>1. \A k \in S : k \in 0..(PTS_BOUND + UINT64_MAX)
        <4> HIDE DEF S
        <4> QED BY <1>0, <1>3
      <3> QED BY <3>1
    <2> HIDE DEF S
    <2>2. PTS_BOUND + UINT64_MAX \in Nat
      BY <1>0
    <2> QED BY <2>1, <2>2, LeastFacts
  <1>5. \A e : e \in Runnable(P2, Q) <=> e \in Q /\ e.ts <= m
    BY DEF Runnable
  <1> HIDE DEF S, m
  <1>6. \A u \in wait : [txn |-> u, ts |-> T[u]] \in Q
    BY <1>1
  <1>7. \A u : u \in rel <=> u \in wait /\ T[u] <= m
    <2>1. ASSUME NEW u \in wait, T[u] <= m PROVE u \in rel
      <3>1. [txn |-> u, ts |-> T[u]] \in Runnable(P2, Q)
        BY <1>5, <1>6, <2>1
      <3> QED BY <1>13, <2>1, <3>1
    <2>2. ASSUME NEW u \in rel PROVE u \in wait /\ T[u] <= m
      <3>1. PICK e \in Runnable(P2, Q) : e.txn = u
        BY <1>13
      <3>2. PICK w \in wait : e = [txn |-> w, ts |-> T[w]]
        BY <1>1, <1>5
      <3> QED BY <1>5, <1>13, <3>1, <3>2
    <2> QED BY <2>1, <2>2
  <1>8. \A e : e \in Runnable(P2, Q) <=> \E u \in rel : e = [txn |-> u, ts |-> T[u]]
    BY <1>1, <1>5, <1>7
  <1>9. \A u \in rel, a \in ann \ {t} : T[u] <= T[a]
    <2>1. m \in Nat
      BY <1>0, <1>3, <1>4
    <2>2. ASSUME NEW u \in rel, NEW a \in ann \ {t} PROVE T[u] <= T[a]
      <3>1. T[u] <= m /\ m <= T[a] /\ u \in Threads /\ a \in Threads
        BY <1>3, <1>4, <1>7
      <3>2. T[u] \in Nat /\ T[a] \in Nat
        BY <1>0, <3>1
      <3> QED BY <2>1, <3>1, <3>2
    <2> QED BY <2>2
  <1>10. \A u \in wait \ rel : T[u] <= PTS_BOUND => \E a \in ann \ {t} : T[a] < T[u]
    <2>1. TAKE u \in wait \ rel
    <2> HAVE T[u] <= PTS_BOUND
    <2>2. T[u] \in Nat /\ ~ (T[u] <= m) /\ u \in Threads
      BY <1>0, <1>7
    <2>3. m \in Nat
      BY <1>0, <1>3, <1>4
    <2>4. m < T[u] /\ m # PTS_BOUND
      BY <1>0, <2>2, <2>3
    <2> QED BY <1>3, <1>4, <2>4
  <1>11. \A e : e \in Q \ Runnable(P2, Q) <=>
                \E u \in wait \ rel : e = [txn |-> u, ts |-> T[u]]
    BY <1>1, <1>5, <1>7
  <1>12. Buffers(P2, Q \ Runnable(P2, Q), ann \ {t}, wait \ rel, T)
    BY <1>2, <1>10, <1>11 DEF Buffers
  <1> QED BY <1>8, <1>9, <1>12 DEF LetThrough, P2, rel

------------------------------------------------------------------------------
(***************************************************************************)
(* The reads of a row                                                      *)
(***************************************************************************)

\* A write is announced after every read.
LEMMA ReadingAnnounce ==
  ASSUME NEW r, NEW R, NEW ann, NEW has, NEW T, NEW A, NEW L, NEW t,
         Reading(r, R, ann, has, T, A, L), \A h \in R : h <= T[t]
  PROVE  Reading(r, R, ann \union {t}, has, T, A, L)
  BY DEF Reading

\* Transactions rel read, and no write that stays announced is before them.
LEMMA ReadingRead ==
  ASSUME NEW r, NEW R, NEW ann, NEW has, NEW T \in Stamps, NEW A, NEW L,
         NEW rel \in SUBSET Threads, NEW ann2 \in SUBSET ann,
         NEW has2 \in SUBSET (has \union rel), NEW R2,
         \A h : h \in R2 <=> h \in R \/ \E u \in rel : h = T[u],
         Reading(r, R, ann, has, T, A, L),
         \A u \in rel, a \in ann2 : T[u] <= T[a]
  PROVE  Reading(r, R2, ann2, has2, T, A, L)
  <1>1. \A u \in Threads : T[u] \in Stamp
    BY ConfigAssumption DEF Stamps, Stamp, UINT64_MAX
  <1>2. /\ R \subseteq Stamp /\ \A t \in has : T[t] \in R
        /\ \A t \in ann : \A h \in R : h <= T[t]
        /\ \A c \in L : Ordered!Touches(c.query, r) => c.ts \in R \/ Over(A, c.ts)
    BY DEF Reading
  <1>3. R2 \subseteq Stamp
    BY <1>1, <1>2
  <1>4. \A t \in has2 : T[t] \in R2
    BY <1>2
  <1>5. \A t \in ann2 : \A h \in R2 : h <= T[t]
    BY <1>2
  <1>6. \A c \in L : Ordered!Touches(c.query, r) => c.ts \in R2 \/ Over(A, c.ts)
    BY <1>2
  <1> QED BY <1>3, <1>4, <1>5, <1>6 DEF Reading

\* Reads are recycled.
LEMMA ReadingCut ==
  ASSUME NEW r, NEW R, NEW ann, NEW has \in SUBSET Threads, NEW T \in Stamps,
         NEW A, NEW L,
         NEW R2, CutReads(R, R2, A), Reading(r, R, ann, has, T, A, L),
         \A t \in has : A[t] = T[t]
  PROVE  Reading(r, R2, ann, has, T, A, L)
  <1>1. \A t \in has : T[t] \in R2
    <2> TAKE t \in has
    <2>1. T[t] \in R /\ ~ (T[t] < A[t])
      BY DEF Reading, Stamps
    <2> QED BY <2>1 DEF CutReads, Over
  <1> QED BY <1>1 DEF Reading, CutReads

\* A transaction t that has read r is logged.
LEMMA ReadingLog ==
  ASSUME NEW r, NEW R, NEW ann, NEW has, NEW T, NEW A, NEW L, NEW t, NEW c,
         Reading(r, R, ann, has, T, A, L), c.ts = T[t],
         Ordered!Touches(c.query, r) => t \in has
  PROVE  Reading(r, R, ann, has, T, A, L \union {c})
  BY DEF Reading

------------------------------------------------------------------------------
(***************************************************************************)
(* The versions of a row                                                   *)
(***************************************************************************)

\* Whoever writes a row accesses it.
LEMMA WritesTouch ==
  ASSUME NEW q, NEW r, Ordered!Writes(q, r)
  PROVE  Ordered!Touches(q, r)
  BY DEF Ordered!Writes, Ordered!Touches

\* The log of a row up to n, and before it, is finite.
LEMMA LogFinite ==
  ASSUME NEW L, IsFiniteSet(L), NEW r, NEW n
  PROVE  /\ IsFiniteSet(UpTo(L, r, n)) /\ IsFiniteSet(Before(L, r, n))
         /\ Cardinality(UpTo(L, r, n)) \in Nat /\ Cardinality(Before(L, r, n)) \in Nat
  <1>1. UpTo(L, r, n) \subseteq L /\ Before(L, r, n) \subseteq L
    BY DEF UpTo, Before
  <1> QED BY <1>1, FS_Subset, FS_CardinalityType

\* There are fewer writes before n than timestamps.
LEMMA FewBefore ==
  ASSUME NEW L \in SUBSET Transaction, IsFiniteSet(L), NEW r, NEW n \in Nat \ {0},
         \A c, d \in L : c.ts = d.ts => c = d, \A c \in L : 0 < c.ts
  PROVE  Cardinality(Before(L, r, n)) < n
  <1> DEFINE B == Before(L, r, n)
             f == [c \in B |-> c.ts]
  <1>1. \A c \in B : c \in L /\ c.ts \in 1..(n - 1)
    BY DEF Before, Transaction, Stamp
  <1>2. f \in Injection(B, 1..(n - 1))
    <2>1. f \in [B -> 1..(n - 1)]
      BY <1>1
    <2>2. \A c, d \in B : f[c] = f[d] => c = d
      BY <1>1
    <2> HIDE DEF B, f
    <2> QED BY <2>1, <2>2 DEF Injection, IsInjective
  <1>3. IsFiniteSet(1..(n - 1)) /\ Cardinality(1..(n - 1)) = n - 1
    <2>1. 1 \in Int /\ n - 1 \in Int /\ (1 > n - 1 => n - 1 = 0) /\ n - 1 - 1 + 1 = n - 1
      OBVIOUS
    <2> QED BY <2>1, FS_Interval
  <1>4. Cardinality(B) \in Nat
    BY LogFinite
  <1> HIDE DEF f, B
  <1>5. Cardinality(B) <= n - 1
    BY <1>2, <1>3, FS_Injection
  <1>6. Cardinality(B) < n
    BY <1>4, <1>5
  <1> QED BY <1>6 DEF B

\* Versions are recycled.
LEMMA WritingCut ==
  ASSUME NEW r, NEW W, NEW b, NEW W2, NEW b2, NEW ann, NEW T, NEW A, NEW L,
         Writing(r, W, b, ann, T, A, L), CutVersions(W, b, W2, b2, A),
         \A v \in W : v.data \in 0..MAX_TS, \A c \in L : c.ts \in Nat
  PROVE  Writing(r, W2, b2, ann, T, A, L)
  <1>1. W2 \subseteq W /\ \A v \in W : v.ts \in Nat
    BY DEF CutVersions, Writing, Stamp
  <1>2. b2 \in 0..MAX_TS
    <2>1. b \in 0..MAX_TS /\ (b2 = b \/ \E v \in W : b2 = v.data)
      BY DEF CutVersions, Writing
    <2> QED BY <2>1
  <1>3. \A c \in L : Ordered!Writes(c.query, r) =>
          \/ \E t \in ann : T[t] = c.ts
          \/ \E v \in W2 : v.ts = c.ts
          \/ \E v \in W2 : c.ts < v.ts /\ Over(A, v.ts)
    <2> SUFFICES ASSUME NEW c \in L, Ordered!Writes(c.query, r), ~ \E t \in ann : T[t] = c.ts
                 PROVE  \/ \E v \in W2 : v.ts = c.ts
                        \/ \E v \in W2 : c.ts < v.ts /\ Over(A, v.ts)
      OBVIOUS
    <2>1. PICK v \in W : v.ts = c.ts \/ (c.ts < v.ts /\ Over(A, v.ts))
      BY DEF Writing
    <2>2. CASE v \in W2
      BY <2>1, <2>2
    <2>3. CASE v \notin W2
      <3>1. PICK w \in W2 : v.ts < w.ts /\ Over(A, w.ts)
        BY <2>3 DEF CutVersions
      <3>2. c.ts < w.ts
        BY <1>1, <2>1, <3>1
      <3> QED BY <3>1, <3>2
    <2> QED BY <2>2, <2>3
  <1>4. b2 = 0 \/ \E v \in W2 : Over(A, v.ts)
    <2>1. CASE b2 = b
      <3>1. CASE b = 0
        BY <2>1, <3>1
      <3>2. CASE \E v \in W : Over(A, v.ts)
        BY <3>2 DEF CutVersions
      <3> QED BY <3>1, <3>2 DEF Writing
    <2>2. CASE \E v \in W \ W2 : b2 = v.data
      <3>1. PICK v \in W : v \notin W2
        BY <2>2
      <3> QED BY <3>1 DEF CutVersions
    <2> QED BY <2>1, <2>2 DEF CutVersions
  <1> QED BY <1>1, <1>2, <1>3, <1>4 DEF Writing

\* A prewrite is taken back by a transaction that is not in the log.
LEMMA WritingAbort ==
  ASSUME NEW r, NEW W, NEW b, NEW ann, NEW t, NEW T, NEW A, NEW L,
         Writing(r, W, b, ann, T, A, L), \A c \in L : c.ts # T[t]
  PROVE  Writing(r, W, b, ann \ {t}, T, A, L)
  BY DEF Writing

\* A write is announced by a transaction that is not in the log.
LEMMA WritingAnnounce ==
  ASSUME NEW r, NEW W, NEW b, NEW ann, NEW t, NEW T, NEW A, NEW L,
         Writing(r, W, b, ann, T, A, L), \A c \in L : c.ts # T[t]
  PROVE  Writing(r, W, b, ann \union {t}, T, A, L)
  BY DEF Writing

\* Transaction t of the log returns its write: one more than what was before.
LEMMA WritingAdd ==
  ASSUME NEW r, NEW W, NEW b, NEW ann \in SUBSET Threads, NEW t \in ann,
         NEW T \in Stamps, NEW A, NEW L, IsFiniteSet(L),
         \A u \in Threads : T[u] = T[t] => u = t,
         \A c, d \in L : c.ts = d.ts => c = d, \A c \in L : c.ts \in Nat,
         Writing(r, W, b, ann, T, A, L),
         NEW c \in L, c.ts = T[t], Ordered!Writes(c.query, r),
         NEW new, new = [ts |-> T[t], data |-> Cardinality(Before(L, r, T[t])) + 1]
  PROVE  Writing(r, W \union {new}, b, ann \ {t}, T, A, L)
  <1>1. T[t] \in Stamp /\ new \in [ts : Stamp, data : Nat]
    <2>1. T[t] \in Stamp
      BY ConfigAssumption DEF Stamp, UINT64_MAX, Stamps
    <2>2. Cardinality(Before(L, r, T[t])) \in Nat
      BY LogFinite
    <2> QED BY <2>1, <2>2
  <1>2. Cardinality(UpTo(L, r, T[t])) = Cardinality(Before(L, r, T[t])) + 1
    <2>1. UpTo(L, r, T[t]) = Before(L, r, T[t]) \union {c} /\ c \notin Before(L, r, T[t])
      <3>1. \A d \in L : d.ts <= T[t] <=> d.ts < T[t] \/ d = c
        BY <1>1 DEF Stamp
      <3>2. ~ (c.ts < T[t])
        BY <1>1 DEF Stamp
      <3> QED BY <3>1, <3>2 DEF UpTo, Before
    <2> QED BY <2>1, LogFinite, FS_AddElement
  <1>3. new.ts = T[t] /\ new.data = Cardinality(UpTo(L, r, T[t]))
    BY <1>2
  <1>4. \A u \in ann \ {t} : T[u] # T[t]
    OBVIOUS
  <1>5. \A v \in W : v.ts # T[t]
    BY DEF Writing
  <1> HIDE DEF Writing
  <1>6. \A v \in W \union {new} :
          /\ \E d \in L : d.ts = v.ts /\ Ordered!Writes(d.query, r)
          /\ v.data = Cardinality(UpTo(L, r, v.ts))
          /\ \A u \in ann \ {t} : T[u] # v.ts
    BY <1>3, <1>4 DEF Writing
  <1>7. \A v, w \in W \union {new} : v.ts = w.ts => v = w
    BY <1>3, <1>5 DEF Writing
  <1>8. \A d \in L : Ordered!Writes(d.query, r) =>
          \/ \E u \in ann \ {t} : T[u] = d.ts
          \/ \E v \in W \union {new} : v.ts = d.ts
          \/ \E v \in W \union {new} : d.ts < v.ts /\ Over(A, v.ts)
    BY <1>3 DEF Writing
  <1>9. W \union {new} \subseteq [ts : Stamp, data : Nat] /\ b \in 0..MAX_TS
        /\ (b = 0 \/ \E v \in W \union {new} : Over(A, v.ts))
    BY <1>1 DEF Writing
  <1> QED BY <1>6, <1>7, <1>8, <1>9 DEF Writing

\* Every version is one that a transaction has read, or that is older than all.
LEMMA VersionKnown ==
  ASSUME NEW r, NEW R, NEW W, NEW b, NEW ann, NEW has, NEW T, NEW A, NEW L,
         Reading(r, R, ann, has, T, A, L), Writing(r, W, b, ann, T, A, L), NEW v \in W
  PROVE  v.ts \in R \/ Over(A, v.ts)
  <1>1. PICK c \in L : c.ts = v.ts /\ Ordered!Writes(c.query, r)
    BY DEF Writing
  <1>2. Ordered!Touches(c.query, r)
    BY <1>1, WritesTouch
  <1> QED BY <1>1, <1>2 DEF Reading

\* No version is as late as an announced write.
LEMMA VersionsFirst ==
  ASSUME NEW r, NEW R, NEW W, NEW b, NEW ann \in SUBSET Threads, NEW has,
         NEW T \in Stamps, NEW A \in Stamps, NEW L, \A t \in Threads : A[t] <= T[t],
         Reading(r, R, ann, has, T, A, L), Writing(r, W, b, ann, T, A, L), NEW v \in W,
         NEW t \in ann
  PROVE  v.ts < T[t]
  <1>1. v.ts \in Nat /\ T[t] \in Nat /\ A[t] \in Nat /\ A[t] <= T[t] /\ v.ts # T[t]
    BY DEF Writing, Stamps, Stamp
  <1>2. v.ts \in R => v.ts <= T[t]
    BY DEF Reading
  <1>3. Over(A, v.ts) => v.ts < A[t]
    BY DEF Over
  <1> QED BY <1>1, <1>2, <1>3, VersionKnown

\* Transaction t, which has announced what it writes, is logged.
LEMMA WritingLog ==
  ASSUME NEW r, NEW R, NEW W, NEW b, NEW ann \in SUBSET Threads, NEW has,
         NEW T \in Stamps, NEW A \in Stamps, NEW L, \A u \in Threads : A[u] <= T[u],
         Reading(r, R, ann, has, T, A, L), Writing(r, W, b, ann, T, A, L),
         NEW t \in Threads, NEW c, c.ts = T[t], Ordered!Writes(c.query, r) => t \in ann
  PROVE  Writing(r, W, b, ann, T, A, L \union {c})
  <1>1. ASSUME NEW v \in W PROVE UpTo(L \union {c}, r, v.ts) = UpTo(L, r, v.ts)
    <2>1. Ordered!Writes(c.query, r) => ~ (c.ts <= v.ts)
      <3>1. Ordered!Writes(c.query, r) => v.ts < T[t]
        BY VersionsFirst
      <3>2. v.ts \in Nat /\ T[t] \in Nat
        BY DEF Writing, Stamps, Stamp
      <3> QED BY <3>1, <3>2
    <2> QED BY <2>1 DEF UpTo
  <1>2. \A d \in L \union {c} : Ordered!Writes(d.query, r) =>
          \/ \E u \in ann : T[u] = d.ts
          \/ \E v \in W : v.ts = d.ts
          \/ \E v \in W : d.ts < v.ts /\ Over(A, v.ts)
    BY DEF Writing
  <1>3. \A v \in W : /\ \E d \in L \union {c} : d.ts = v.ts /\ Ordered!Writes(d.query, r)
                     /\ v.data = Cardinality(UpTo(L \union {c}, r, v.ts))
                     /\ \A u \in ann : T[u] # v.ts
    BY <1>1 DEF Writing
  <1> QED BY <1>2, <1>3 DEF Writing

\* Recycling leaves the version that a running transaction reads where it is.
LEMMA IsAtCut ==
  ASSUME NEW W \in SUBSET [ts : Stamp, data : Nat], NEW b, NEW W2, NEW b2,
         NEW A \in Stamps, NEW t \in Threads, NEW p, CutVersions(W, b, W2, b2, A),
         IsAt(W, A[t], p)
  PROVE  IsAt(W2, A[t], p)
  <1>0. W2 \subseteq W /\ A[t] \in Nat /\ \A v \in W : v.ts \in Nat
    BY DEF CutVersions, Stamps, Stamp
  <1>1. CASE p = 0 /\ \A v \in W : A[t] < v.ts
    BY <1>0, <1>1 DEF IsAt
  <1>2. CASE \E v \in W : v.ts = p /\ p <= A[t] /\ \A w \in W : w.ts <= A[t] => w.ts <= p
    <2>1. PICK v \in W : v.ts = p /\ p <= A[t] /\ \A w \in W : w.ts <= A[t] => w.ts <= p
      BY <1>2
    <2>2. v \in W2
      <3> SUFFICES ASSUME v \notin W2 PROVE FALSE
        OBVIOUS
      <3>1. PICK w \in W2 : v.ts < w.ts /\ Over(A, w.ts)
        BY DEF CutVersions
      <3>2. w.ts < A[t] /\ w.ts \in Nat /\ v.ts \in Nat /\ w \in W
        BY <1>0, <3>1 DEF Over
      <3> QED BY <1>0, <2>1, <3>1, <3>2
    <2> QED BY <1>0, <2>1, <2>2 DEF IsAt
  <1> QED BY <1>1, <1>2 DEF IsAt

\* So does a later version.
LEMMA IsAtAdd ==
  ASSUME NEW W \in SUBSET [ts : Stamp, data : Nat], NEW n \in Nat, NEW p, NEW new,
         new.ts \in Nat, n < new.ts, IsAt(W, n, p)
  PROVE  IsAt(W \union {new}, n, p)
  BY DEF IsAt

\* What a row is holds on while timestamps are registered and while threads
\* that do nothing on the row draw new ones.
LEMMA RowFrame ==
  ASSUME NEW r, NEW R, NEW W, NEW b, NEW ann, NEW has,
         NEW T, NEW A \in Stamps, NEW L, NEW T2, NEW A2 \in Stamps,
         Reading(r, R, ann, has, T, A, L), Writing(r, W, b, ann, T, A, L),
         \A c \in L : c.ts \in Nat,
         \A u \in Threads : A[u] <= A2[u],
         \A u \in ann \union has : T2[u] = T[u]
  PROVE  /\ Reading(r, R, ann, has, T2, A2, L)
         /\ Writing(r, W, b, ann, T2, A2, L)
  <1>1. \A n \in Nat : Over(A, n) => Over(A2, n)
    BY DEF Over, Stamps
  <1>3. Reading(r, R, ann, has, T2, A2, L)
    BY <1>1 DEF Reading
  <1>4. \A v \in W : v.ts \in Nat
    BY DEF Writing, Stamp
  <1>5. \A c \in L : Ordered!Writes(c.query, r) =>
           \/ \E t \in ann : T2[t] = c.ts
           \/ \E v \in W : v.ts = c.ts
           \/ \E v \in W : c.ts < v.ts /\ Over(A2, v.ts)
    BY <1>1, <1>4 DEF Writing
  <1>6. b = 0 \/ \E v \in W : Over(A2, v.ts)
    BY <1>1, <1>4 DEF Writing
  <1>7. \A v \in W : /\ \E c \in L : c.ts = v.ts /\ Ordered!Writes(c.query, r)
                     /\ v.data = Cardinality(UpTo(L, r, v.ts))
                     /\ \A t \in ann : T2[t] # v.ts
    BY DEF Writing
  <1>8. Writing(r, W, b, ann, T2, A2, L)
    BY <1>5, <1>6, <1>7 DEF Writing
  <1> QED BY <1>3, <1>8

------------------------------------------------------------------------------
(***************************************************************************)
(* The accesses of a thread                                                *)
(***************************************************************************)

\* What the types say of a thread.
LEMMA ThreadFacts ==
  ASSUME Types, NEW t \in Threads
  PROVE  /\ Len(accesses[t]) \in Nat /\ DOMAIN accesses[t] = 1..Len(accesses[t])
         /\ accesses[t] \in Seq(AccessType)
         /\ \A k \in 1..Len(accesses[t]) :
              /\ accesses[t][k].row \in Rows /\ accesses[t][k].type \in {"RD", "WR"}
              /\ accesses[t][k].data \in Nat /\ accesses[t][k].version \in Stamp
  <1>1. accesses[t] \in Seq(AccessType)
    BY DEF Types
  <1>2. \A a \in AccessType : /\ a.row \in Rows /\ a.type \in {"RD", "WR"}
                              /\ a.data \in Nat /\ a.version \in Stamp
    BY DEF AccessType
  <1>3. /\ Len(accesses[t]) \in Nat /\ DOMAIN accesses[t] = 1..Len(accesses[t])
        /\ \A k \in 1..Len(accesses[t]) : accesses[t][k] \in AccessType
    BY <1>1
  <1> QED BY <1>1, <1>2, <1>3

\* The places of a query.
LEMMA QueryType ==
  ASSUME NEW q \in Queries
  PROVE  /\ Len(q) \in Nat /\ DOMAIN q = 1..Len(q)
         /\ \A k \in 1..Len(q) : /\ q[k] \in [row : Rows, type : {"RD", "WR"}]
                                 /\ q[k].row \in Rows /\ q[k].type \in {"RD", "WR"}
         /\ \A j, k \in 1..Len(q) : q[j].row = q[k].row => j = k
  <1> DEFINE R == [row : Rows, type : {"RD", "WR"}]
  <1>1. q \in Seq(R)
    BY QueriesAssumption
  <1>2. \A j, k \in DOMAIN q : q[j].row = q[k].row => j = k
    BY QueriesAssumption
  <1>3. \A r \in R : r.row \in Rows /\ r.type \in {"RD", "WR"}
    OBVIOUS
  <1> HIDE DEF R
  <1>4. Len(q) \in Nat /\ DOMAIN q = 1..Len(q) /\ \A k \in 1..Len(q) : q[k] \in R
    BY <1>1
  <1> QED BY <1>2, <1>3, <1>4 DEF R

\* The access that thread t is about to make.
LEMMA CurFacts ==
  ASSUME Types, NEW t \in Threads, Progress(t), Len(accesses[t]) < Len(query[t]),
         query[t] \in Queries
  PROVE  /\ Row(t) \in Rows /\ Cur(t).row = Row(t) /\ Cur(t).type \in {"RD", "WR"}
         /\ \A r : Cur(t) = [row |-> r, type |-> "WR"] <=> Row(t) = r /\ Cur(t).type = "WR"
         /\ \A k \in 1..Len(accesses[t]) : accesses[t][k].row # Row(t)
  <1>1. Len(accesses[t]) + 1 \in 1..Len(query[t])
        /\ \A k \in 1..Len(accesses[t]) : k \in 1..Len(query[t]) /\ k # Len(accesses[t]) + 1
    BY ThreadFacts, QueryType
  <1>2. Cur(t) \in [row : Rows, type : {"RD", "WR"}]
    BY <1>1, QueryType DEF Cur
  <1>3. \A k \in 1..Len(accesses[t]) : accesses[t][k].row # Row(t)
    BY <1>1, QueryType DEF Progress, Row, Cur
  <1> QED BY <1>2, <1>3 DEF Row

\* Accesses s read row r, and write it.
On(s, r)  == \E i \in DOMAIN s : s[i].row = r
WrOn(s, r) == \E i \in DOMAIN s : s[i].row = r /\ s[i].type = "WR"

LEMMA OnAppend ==
  ASSUME NEW s \in Seq(AccessType), NEW a \in AccessType, NEW r
  PROVE  /\ On(Append(s, a), r) <=> On(s, r) \/ a.row = r
         /\ WrOn(Append(s, a), r) <=> WrOn(s, r) \/ (a.row = r /\ a.type = "WR")
  <1>1. /\ DOMAIN s = 1..Len(s) /\ Len(s) \in Nat
        /\ DOMAIN Append(s, a) = 1..(Len(s) + 1)
        /\ \A k \in 1..Len(s) : Append(s, a)[k] = s[k]
        /\ Append(s, a)[Len(s) + 1] = a
    OBVIOUS
  <1>2. \A k \in 1..(Len(s) + 1) : k \in 1..Len(s) \/ k = Len(s) + 1
    BY <1>1
  <1>3. \A k \in 1..Len(s) : k \in 1..(Len(s) + 1)
    BY <1>1
  <1>4. Len(s) + 1 \in 1..(Len(s) + 1)
    BY <1>1
  <1> HIDE DEF AccessType
  <1> QED BY <1>1, <1>2, <1>3, <1>4 DEF On, WrOn

\* When the last access is returned, it is the only one on its row that goes.
LEMMA OnFront ==
  ASSUME NEW s \in Seq(AccessType), s # <<>>, NEW r,
         \A i, j \in 1..Len(s) : s[i].row = s[j].row => i = j
  PROVE  /\ On(Front(s), r) <=> On(s, r) /\ Last(s).row # r
         /\ WrOn(Front(s), r) <=> WrOn(s, r) /\ Last(s).row # r
         /\ On(s, Last(s).row) /\ (Last(s).type = "WR" => WrOn(s, Last(s).row))
         /\ WrOn(s, Last(s).row) => Last(s).type = "WR"
  <1>1. /\ Front(s) \in Seq(AccessType) /\ Len(Front(s)) = Len(s) - 1
        /\ \A i \in 1..(Len(s) - 1) : Front(s)[i] = s[i]
        /\ Last(s) = s[Len(s)] /\ Len(s) \in 1..Len(s)
    BY FrontLemma
  <1>2. /\ DOMAIN s = 1..Len(s) /\ DOMAIN Front(s) = 1..(Len(s) - 1)
        /\ \A i \in 1..(Len(s) - 1) : i \in 1..Len(s) /\ i # Len(s)
        /\ \A i \in 1..Len(s) : i \in 1..(Len(s) - 1) \/ i = Len(s)
    <2>1. DOMAIN Front(s) = 1..Len(Front(s)) /\ Len(s) \in Nat /\ DOMAIN s = 1..Len(s)
      BY <1>1
    <2> QED BY <1>1, <2>1
  <1> HIDE DEF AccessType
  <1> QED BY <1>1, <1>2 DEF On, WrOn

\* The rows of the accesses of t differ.
LEMMA OneEach ==
  ASSUME Types, NEW t \in Threads, Progress(t)
  PROVE  \A i, j \in 1..Len(accesses[t]) : accesses[t][i].row = accesses[t][j].row => i = j
  <1>1. CASE accesses[t] = <<>>
    BY <1>1
  <1>2. CASE accesses[t] # <<>>
    <2>1. pc[t] # "idle" /\ query[t] \in Queries
      BY <1>2 DEF Progress
    <2>2. \A i \in 1..Len(accesses[t]) : i \in 1..Len(query[t])
      BY <2>1, ThreadFacts, QueryType DEF Progress
    <2> QED BY <2>1, <2>2, QueryType DEF Progress
  <1> QED BY <1>1, <1>2

\* Announced and HasRead, in terms of the accesses made and the one under way.
LEMMA Sets ==
  ASSUME NEW t \in Threads, NEW r
  PROVE  /\ Announced(t, r) <=>
              \/ WrOn(accesses[t], r)
              \/ pc[t] \in {"read", "granted", "spin"} /\ Cur(t) = [row |-> r, type |-> "WR"]
         /\ HasRead(t, r) <=> On(accesses[t], r) \/ (Granted(t) /\ Row(t) = r)
  BY DEF Announced, HasRead, On, WrOn

\* An action that leaves a thread alone leaves it to what it was on every row.
Unmoved(u) == /\ accesses'[u] = accesses[u] /\ query'[u] = query[u]
              /\ pc'[u] = pc[u] /\ ts_ready'[u] = ts_ready[u]

LEMMA UnmovedSets ==
  ASSUME NEW u \in Threads, Unmoved(u), NEW r
  PROVE  /\ Announced(u, r)' <=> Announced(u, r)
         /\ HasRead(u, r)' <=> HasRead(u, r)
         /\ Waits(u, r)' <=> Waits(u, r)
         /\ Row(u)' = Row(u) /\ Cur(u)' = Cur(u) /\ (Granted(u)' <=> Granted(u))
  BY DEF Unmoved, Announced, HasRead, Waits, Row, Cur, Granted

------------------------------------------------------------------------------
(***************************************************************************)
(* What the invariant says of a row                                        *)
(***************************************************************************)

LEMMA QueueFacts ==
  ASSUME BufferInv, NEW r \in Rows
  PROVE  /\ Buffers(prereq[r], readreq[r], Announcers(r), Waiters(r), ts)
         /\ Announcers(r) \subseteq Threads /\ Readers(r) \subseteq Threads
         /\ Waiters(r) \subseteq Threads
         /\ writehis[r] \in SUBSET [ts : Stamp, data : Nat] /\ readhis[r] \in SUBSET Stamp
         /\ prereq[r] \in SUBSET Request /\ readreq[r] \in SUBSET Request
         /\ base[r] \in Nat
  BY DEF BufferInv, Buffered, Announcers, Readers, Waiters, Types

LEMMA RowFacts ==
  ASSUME BufferInv, HistoryInv, NEW r \in Rows
  PROVE  /\ Reading(r, readhis[r], Announcers(r), Readers(r), ts, Floors, committed)
         /\ Writing(r, writehis[r], base[r], Announcers(r), ts, Floors, committed)
         /\ Announcers(r) \subseteq Threads /\ Readers(r) \subseteq Threads
         /\ Waiters(r) \subseteq Threads
         /\ writehis[r] \in SUBSET [ts : Stamp, data : Nat] /\ readhis[r] \in SUBSET Stamp
  BY QueueFacts DEF HistoryInv, RowInv

LEMMA ClockFacts ==
  ASSUME BufferInv
  PROVE  /\ ts \in Stamps /\ all_ts \in Stamps /\ Floors \in Stamps
         /\ timestamp \in Nat \ {0} /\ UINT64_MAX \in Nat /\ timestamp <= UINT64_MAX
         /\ \A t \in Threads :
              /\ ts[t] \in Nat \ {0} /\ ts[t] \in Stamp
              /\ all_ts[t] \in Nat \ {0} /\ Floors[t] \in Nat \ {0}
              /\ Floors[t] <= ts[t] /\ Floors[t] <= timestamp
              /\ ts[t] < timestamp \/ (ts[t] = UINT64_MAX /\ pc[t] = "idle")
              /\ pc[t] # "begin" => all_ts[t] = ts[t]
              /\ Running(t) => Floors[t] = ts[t]
         /\ \A t, u \in Threads : ts[t] = ts[u] => t = u \/ pc[t] = "idle"
  <1>1. MAX_TS \in Nat /\ UINT64_MAX \in Nat
    BY ConfigAssumption DEF UINT64_MAX
  <1>2. /\ ts \in Stamps /\ all_ts \in Stamps
        /\ timestamp \in Nat \ {0} /\ timestamp \in 1..UINT64_MAX /\ timestamp <= UINT64_MAX
        /\ \A t \in Threads : ts[t] \in 1..UINT64_MAX /\ all_ts[t] \in 1..UINT64_MAX
    BY <1>1 DEF BufferInv, Types, Stamps
  <1>3. \A n \in 1..UINT64_MAX : n \in Nat \ {0} /\ n \in Stamp
    BY <1>1 DEF Stamp
  <1>4. Floors \in Stamps
    BY <1>2 DEF Floors, Stamps
  <1>5. ASSUME NEW t \in Threads
        PROVE  /\ Floors[t] \in Nat \ {0} /\ Floors[t] <= ts[t] /\ Floors[t] <= timestamp
               /\ ts[t] < timestamp \/ (ts[t] = UINT64_MAX /\ pc[t] = "idle")
               /\ pc[t] # "begin" => all_ts[t] = ts[t]
               /\ Running(t) => Floors[t] = ts[t]
    <2>1. /\ ts[t] < timestamp \/ (ts[t] = UINT64_MAX /\ pc[t] = "idle")
          /\ all_ts[t] <= ts[t] \/ all_ts[t] = UINT64_MAX
          /\ pc[t] # "begin" => all_ts[t] = ts[t]
      BY DEF BufferInv, Clock, Registering
    <2>2. Floors[t] = IF all_ts[t] # UINT64_MAX THEN all_ts[t]
                      ELSE IF ts[t] # UINT64_MAX THEN ts[t] ELSE timestamp
      BY DEF Floors
    <2>3. ts[t] \in Nat \ {0} /\ all_ts[t] \in Nat \ {0} /\ ts[t] <= UINT64_MAX
      BY <1>1, <1>2
    <2> QED BY <1>1, <1>2, <2>1, <2>2, <2>3 DEF Running
  <1>6. \A t, u \in Threads : ts[t] = ts[u] => t = u \/ pc[t] = "idle"
    <2> SUFFICES ASSUME NEW t \in Threads, NEW u \in Threads, ts[t] = ts[u], t # u
                 PROVE  pc[t] = "idle"
      OBVIOUS
    <2>1. ts[t] = UINT64_MAX /\ (ts[t] < timestamp \/ pc[t] = "idle")
      BY DEF BufferInv, Clock
    <2> QED BY <1>1, <1>2, <2>1
  <1> QED BY <1>1, <1>2, <1>3, <1>4, <1>5, <1>6

LEMMA LogFacts ==
  ASSUME BufferInv
  PROVE  /\ IsFiniteSet(committed) /\ committed \in SUBSET Transaction
         /\ \A c \in committed : c.ts \in Nat \ {0} /\ c.ts < timestamp
         /\ \A c, d \in committed : c.ts = d.ts => c = d
         /\ \A c \in committed, t \in Threads : c.ts = ts[t] =>
              pc[t] = "idle" \/ (pc[t] = "cleanup" /\ rc[t] = "RCOK")
  <1>1. \A c \in Transaction : c.ts \in Nat
    BY DEF Transaction, Stamp
  <1> QED BY <1>1 DEF BufferInv, Types, Log

\* Version numbers count writes, so they do not outrun the timestamps.
LEMMA DataBound ==
  ASSUME BufferInv, HistoryInv, NEW r \in Rows, NEW v \in writehis[r]
  PROVE  v.data \in 0..MAX_TS /\ v.ts \in Nat \ {0}
  <1>1. PICK c \in committed : c.ts = v.ts
    BY RowFacts DEF Writing
  <1>2. c.ts \in Nat \ {0} /\ c.ts < timestamp /\ timestamp \in 1..(MAX_TS + 1)
        /\ MAX_TS \in Nat
    BY LogFacts, ConfigAssumption DEF BufferInv, HistoryInv, Types, UINT64_MAX
  <1>3. v.ts \in Nat \ {0} /\ v.ts + 1 <= MAX_TS + 1 /\ v.ts + 1 \in Nat \ {0}
    BY <1>1, <1>2
  <1>4. v.data = Cardinality(UpTo(committed, r, v.ts))
    BY RowFacts DEF Writing
  <1>5. UpTo(committed, r, v.ts) = Before(committed, r, v.ts + 1)
    BY <1>3, LogFacts DEF UpTo, Before
  <1>6. Cardinality(Before(committed, r, v.ts + 1)) < v.ts + 1
    BY <1>3, LogFacts, FewBefore
  <1>7. Cardinality(Before(committed, r, v.ts + 1)) \in Nat
    BY LogFacts, LogFinite
  <1> QED BY <1>2, <1>3, <1>4, <1>5, <1>6, <1>7

\* A reader that conflicts is after some announced write, and one that does not
\* is before every one: no version lies between, whatever the code looks for.
LEMMA ConflictBehind ==
  ASSUME BufferInv, NEW r \in Rows, NEW t \in Threads, conflict_read(r, ts[t])
  PROVE  \E u \in Announcers(r) : ts[u] < ts[t]
  <1>1. \A e : e \in prereq[r] <=> \E u \in Announcers(r) : e = [txn |-> u, ts |-> ts[u]]
    BY QueueFacts DEF Buffers
  <1>2. PICK p \in prereq[r] : p.ts < ts[t]
    BY DEF conflict_read
  <1> QED BY <1>1, <1>2

LEMMA ConflictRead ==
  ASSUME BufferInv, HistoryInv, NEW r \in Rows, NEW t \in Threads, ~ conflict_read(r, ts[t])
  PROVE  \A u \in Announcers(r) : ~ (ts[u] < ts[t])
  <1> DEFINE n == ts[t]
             S == {p.ts : p \in {q \in prereq[r] : q.ts < n}}
  <1>1. \A e : e \in prereq[r] <=> \E u \in Announcers(r) : e = [txn |-> u, ts |-> ts[u]]
    BY QueueFacts DEF Buffers
  <1>2. \A k : k \in S <=> \E u \in Announcers(r) : k = ts[u] /\ ts[u] < n
    <2>1. ASSUME NEW k \in S PROVE \E u \in Announcers(r) : k = ts[u] /\ ts[u] < n
      BY <1>1
    <2>2. ASSUME NEW u \in Announcers(r), ts[u] < n PROVE ts[u] \in S
      <3>1. [txn |-> u, ts |-> ts[u]] \in prereq[r]
        BY <1>1
      <3> QED BY <2>2, <3>1
    <2> QED BY <2>1, <2>2
  <1>3. ~ (S # {} /\ NoneBetween(r, Greatest(S), n))
    BY DEF conflict_read
  <1> HIDE DEF S, n
  <1>4. ASSUME S # {} PROVE NoneBetween(r, Greatest(S), n)
    <2>1. S \in SUBSET (0..n) /\ n \in Nat
      <3>1. \A u \in Announcers(r) : ts[u] \in Nat
        BY RowFacts, ClockFacts
      <3>2. n \in Nat
        BY ClockFacts DEF n
      <3> QED BY <1>2, <3>1, <3>2
    <2>2. Greatest(S) \in S
      BY <1>4, <2>1, GreatestFacts
    <2>3. PICK u \in Announcers(r) : Greatest(S) = ts[u]
      BY <1>2, <2>2
    <2>4. \A v \in writehis[r] : v.ts < ts[u]
      BY RowFacts, ClockFacts, VersionsFirst
    <2>5. \A v \in writehis[r] : v.ts \in Nat /\ ts[u] \in Nat
      BY DataBound, RowFacts, ClockFacts
    <2> QED BY <2>3, <2>4, <2>5 DEF NoneBetween
  <1> QED BY <1>2, <1>3, <1>4 DEF n

\* A write that does not conflict is after every read.
LEMMA ConflictWrite ==
  ASSUME BufferInv, HistoryInv, NEW r \in Rows, NEW t \in Threads, Running(t),
         ~ conflict_prewrite(r, ts[t])
  PROVE  \A h \in readhis[r] : h <= ts[t]
  <1> DEFINE n == ts[t]
             S == {k \in readhis[r] : k > n}
  <1>1. n \in Nat /\ Floors[t] = n /\ UINT64_MAX \in Nat
        /\ S \in SUBSET (0..UINT64_MAX) /\ \A h \in readhis[r] : h \in Nat
    BY ClockFacts, RowFacts, ConfigAssumption DEF Stamp, UINT64_MAX, Running
  <1> SUFFICES ASSUME S # {} PROVE FALSE
    BY <1>1
  <1>2. ~ NoneBetween(r, n, Least(S))
    BY DEF conflict_prewrite
  <1>3. PICK v \in writehis[r] : n < v.ts /\ v.ts < Least(S)
    BY <1>2 DEF NoneBetween
  <1>4. Least(S) \in S /\ \A k \in S : Least(S) <= k
    <2> HIDE DEF S, n
    <2> QED BY <1>1, LeastFacts
  <1>5. v.ts \in Nat /\ Least(S) \in Nat
    BY <1>1, <1>4, DataBound
  <1>6. v.ts \in readhis[r] \/ Over(Floors, v.ts)
    BY RowFacts, VersionKnown
  <1>7. ~ Over(Floors, v.ts)
    BY <1>1, <1>3, <1>5 DEF Over
  <1>8. v.ts \in S
    BY <1>3, <1>6, <1>7
  <1> QED BY <1>3, <1>4, <1>5, <1>8

\* A thread that runs has not logged its transaction.
LEMMA NotLogged ==
  ASSUME BufferInv, NEW t \in Threads, pc[t] \notin {"idle", "cleanup"}
  PROVE  \A c \in committed : c.ts # ts[t]
  BY LogFacts

\* Version p of row r is there and has value n.
HasValue(r, p, n) ==
  \/ p = 0 /\ base[r] = n
  \/ \E v \in writehis[r] : v.ts = p /\ p # 0 /\ v.data = n

\* What a running reader gets is what the log has written before it.
LEMMA RightValue ==
  ASSUME BufferInv, HistoryInv, NEW t \in Threads, pc[t] \notin {"idle", "cleanup", "begin"},
         NEW r \in Rows, HasRead(t, r), NEW p, IsAt(writehis[r], ts[t], p)
  PROVE  HasValue(r, p, Cardinality(Before(committed, r, ts[t])))
  <1>4. /\ t \in Readers(r) /\ Floors[t] = ts[t] /\ Announcers(r) \subseteq Threads
        /\ \A c \in committed : c.ts # ts[t] /\ c.ts \in Nat \ {0}
        /\ Reading(r, readhis[r], Announcers(r), Readers(r), ts, Floors, committed)
        /\ Writing(r, writehis[r], base[r], Announcers(r), ts, Floors, committed)
    BY ClockFacts, NotLogged, RowFacts, LogFacts DEF Readers, Running
  <1>0. ts[t] \in Nat \ {0} /\ \A v \in writehis[r] : v.ts \in Nat
    BY ClockFacts, DataBound
  <1>1. ASSUME NEW c \in committed, Ordered!Writes(c.query, r), c.ts < ts[t]
        PROVE  \E v \in writehis[r] : c.ts <= v.ts /\ v.ts < ts[t]
    <2>1. ~ \E u \in Announcers(r) : ts[u] = c.ts
      <3> SUFFICES ASSUME NEW u \in Announcers(r), ts[u] = c.ts PROVE FALSE
        OBVIOUS
      <3>1. ts[t] <= ts[u] /\ c.ts \in Nat
        BY <1>4 DEF Reading
      <3> QED BY <1>0, <1>1, <3>1
    <2>2. PICK v \in writehis[r] : v.ts = c.ts \/ (c.ts < v.ts /\ Over(Floors, v.ts))
      BY <1>4, <1>1, <2>1 DEF Writing
    <2>3. Over(Floors, v.ts) => v.ts < ts[t]
      BY <1>4 DEF Over
    <2>4. c.ts \in Nat /\ v.ts \in Nat
      BY <1>4, <1>0
    <2> QED BY <1>1, <2>2, <2>3, <2>4
  <1>2. CASE p = 0 /\ \A v \in writehis[r] : ts[t] < v.ts
    <2>1. \A v \in writehis[r] : ~ (v.ts < ts[t])
      BY <1>0, <1>2
    <2>2. Before(committed, r, ts[t]) = {}
      BY <1>1, <2>1 DEF Before
    <2>3. base[r] = 0
      BY <1>4, <2>1 DEF Writing, Over
    <2> QED BY <1>2, <2>2, <2>3, FS_EmptySet DEF HasValue
  <1>3. CASE \E v \in writehis[r] : v.ts = p /\ p <= ts[t] /\ \A w \in writehis[r] : w.ts <= ts[t] => w.ts <= p
    <2>1. PICK v \in writehis[r] : v.ts = p /\ p <= ts[t] /\ \A w \in writehis[r] : w.ts <= ts[t] => w.ts <= p
      BY <1>3
    <2>2. PICK c \in committed : c.ts = p
      BY <1>4, <2>1 DEF Writing
    <2>3. p \in Nat /\ p < ts[t]
      BY <1>4, <1>0, <2>1, <2>2
    <2>4. UpTo(committed, r, p) = Before(committed, r, ts[t])
      <3>1. ASSUME NEW d \in committed, Ordered!Writes(d.query, r), d.ts < ts[t] PROVE d.ts <= p
        <4>1. PICK w \in writehis[r] : d.ts <= w.ts /\ w.ts < ts[t]
          BY <1>1, <3>1
        <4>2. w.ts <= p /\ w.ts \in Nat /\ d.ts \in Nat
          BY <1>4, <1>0, <2>1, <4>1
        <4> QED BY <2>3, <4>1, <4>2
      <3>2. ASSUME NEW d \in committed, d.ts <= p PROVE d.ts < ts[t]
        <4>1. d.ts \in Nat
          BY <1>4
        <4> QED BY <1>0, <2>3, <3>2, <4>1
      <3> QED BY <3>1, <3>2 DEF UpTo, Before
    <2>5. v.data = Cardinality(Before(committed, r, ts[t]))
      BY <1>4, <2>1, <2>4 DEF Writing
    <2>6. p # 0
      BY <1>4, <2>2
    <2> QED BY <2>1, <2>5, <2>6 DEF HasValue
  <1> QED BY <1>2, <1>3 DEF IsAt

\* The version that a running reader gets has the value before its timestamp.
LEMMA Value ==
  ASSUME BufferInv, HistoryInv, NEW t \in Threads, pc[t] \notin {"idle", "cleanup", "begin"},
         NEW r \in Rows, HasRead(t, r), NEW p, IsAt(writehis[r], ts[t], p)
  PROVE  Deref(r, p) = Cardinality(Before(committed, r, ts[t])) /\ Deref(r, p) \in Nat
  <1>2. \/ p = 0 /\ base[r] = Cardinality(Before(committed, r, ts[t]))
        \/ \E v \in writehis[r] :
             v.ts = p /\ p # 0 /\ v.data = Cardinality(Before(committed, r, ts[t]))
    <2>1. HasValue(r, p, Cardinality(Before(committed, r, ts[t])))
      BY RightValue
    <2> QED BY <2>1 DEF HasValue
  <1>3. Cardinality(Before(committed, r, ts[t])) \in Nat
    BY LogFacts, LogFinite
  <1>4. CASE p = 0 /\ base[r] = Cardinality(Before(committed, r, ts[t]))
    BY <1>3, <1>4 DEF Deref
  <1>5. CASE \E v \in writehis[r] :
             v.ts = p /\ p # 0 /\ v.data = Cardinality(Before(committed, r, ts[t]))
    <2>1. PICK v \in writehis[r] :
             v.ts = p /\ p # 0 /\ v.data = Cardinality(Before(committed, r, ts[t]))
      BY <1>5
    <2> DEFINE w == CHOOSE x \in writehis[r] : x.ts = p
    <2>2. w \in writehis[r] /\ w.ts = p /\ Deref(r, p) = w.data
      BY <2>1 DEF Deref
    <2> HIDE DEF w
    <2>3. w = v
      BY <2>1, <2>2, RowFacts DEF Writing
    <2> QED BY <1>3, <2>1, <2>2, <2>3
  <1> QED BY <1>2, <1>4, <1>5

------------------------------------------------------------------------------
(***************************************************************************)
(* Types, clock, log and progress are inductive                            *)
(***************************************************************************)

LEMMA ProgressFrame ==
  ASSUME NEW u \in Threads, Progress(u), accesses'[u] = accesses[u],
         query'[u] = query[u], pc'[u] = pc[u]
  PROVE  Progress(u)'
  BY DEF Progress, Cur

\* An action of a thread t that runs its query, and ends in an abort if it ends.
LEMMA CoreFrame ==
  ASSUME BufferInv, Types', NEW t \in Threads,
         UNCHANGED <<timestamp, all_ts, ts, committed, query>>,
         \A u \in Threads \ {t} :
           pc'[u] = pc[u] /\ rc'[u] = rc[u] /\ accesses'[u] = accesses[u],
         pc[t] \notin {"idle", "cleanup", "begin"}, pc'[t] \notin {"idle", "begin"},
         pc'[t] = "cleanup" => rc'[t] = "Abort", Progress(t)'
  PROVE  Core'
  <1>1. Clock'
    BY DEF BufferInv, Clock, Registering
  <1>2. Log'
    <2>1. \A c \in committed : c.ts # ts[t]
      BY NotLogged
    <2> QED BY <2>1 DEF BufferInv, Log
  <1>3. \A u \in Threads : Progress(u)'
    <2>1. ASSUME NEW u \in Threads, u # t PROVE Progress(u)'
      BY <2>1, ProgressFrame DEF BufferInv
    <2> QED BY <2>1
  <1> QED BY <1>1, <1>2, <1>3 DEF Core

\* A thread in its query.
LEMMA InQuery ==
  ASSUME BufferInv, NEW t \in Threads, pc[t] # "idle"
  PROVE  query[t] \in Queries /\ Len(query[t]) \in Nat /\ Types /\ Progress(t)
  BY QueryType DEF BufferInv, Progress

LEMMA StartCore ==
  ASSUME BufferInv, NEW t \in Threads, StartTxn(t)
  PROVE  Core'
  <1>1. /\ pc[t] \in {"idle", "retry"} /\ timestamp <= MAX_TS
        /\ ts' = [ts EXCEPT ![t] = timestamp] /\ timestamp' = timestamp + 1
        /\ pc' = [pc EXCEPT ![t] = "begin"]
        /\ UNCHANGED <<all_ts, readreq, prereq, readhis, writehis, base, ts_ready, cur_row,
                       accesses, rc, committed>>
    BY DEF StartTxn, Goto, rowVars
  <1>2. PICK q \in Queries : query' = [query EXCEPT ![t] = q]
    BY <1>1 DEF StartTxn, BufferInv, Progress
  <1>3. timestamp \in 1..MAX_TS /\ MAX_TS \in Nat /\ timestamp' \in 1..UINT64_MAX
        /\ timestamp \in Nat
    BY <1>1, ConfigAssumption DEF BufferInv, Types, UINT64_MAX
  <1>4. Types'
    <2>1. ts' \in Stamps /\ pc' \in [Threads -> PC]
          /\ query' \in [Threads -> Queries \union {<<>>}]
      BY <1>1, <1>2, <1>3 DEF BufferInv, Types, PC, Stamps, UINT64_MAX
    <2> QED BY <1>1, <1>3, <2>1 DEF BufferInv, Types
  <1>5. ts \in Stamps /\ pc \in [Threads -> PC]
        /\ query \in [Threads -> Queries \union {<<>>}]
    BY DEF BufferInv, Types
  <1>6. /\ ts'[t] = timestamp /\ \A u \in Threads \ {t} : ts'[u] = ts[u]
        /\ pc'[t] = "begin" /\ \A u \in Threads \ {t} : pc'[u] = pc[u]
        /\ query'[t] = q /\ \A u \in Threads \ {t} : query'[u] = query[u]
    BY <1>1, <1>2, <1>5 DEF Stamps
  <1>7. Clock'
    <2>1. MAX_TS < UINT64_MAX /\ timestamp # UINT64_MAX /\ UINT64_MAX \in Nat
      BY <1>3 DEF UINT64_MAX
    <2>2. \A u \in Threads : /\ all_ts[u] \in Nat /\ ts[u] \in Nat
                             /\ ts[u] < timestamp \/ (ts[u] = UINT64_MAX /\ pc[u] = "idle")
                             /\ all_ts[u] <= ts[u] \/ Registering(u)
                             /\ pc[u] # "begin" => all_ts[u] = ts[u]
      BY ClockFacts DEF BufferInv, Clock
    <2>3. \A u, w \in Threads : ts'[u] = ts'[w] => u = w \/ ts'[u] = UINT64_MAX
      <3>1. \A u, w \in Threads : ts[u] = ts[w] => u = w \/ ts[u] = UINT64_MAX
        BY DEF BufferInv, Clock
      <3>2. \A u \in Threads : ts[u] # timestamp
        BY <1>3, <2>1, <2>2
      <3> QED BY <1>6, <3>1, <3>2
    <2>4. ASSUME NEW u \in Threads
          PROVE  /\ ts'[u] < timestamp' \/ (ts'[u] = UINT64_MAX /\ pc'[u] = "idle")
                 /\ all_ts'[u] <= ts'[u] \/ (pc'[u] = "begin" /\ all_ts'[u] = UINT64_MAX)
                 /\ pc'[u] # "begin" => all_ts'[u] = ts'[u]
      <3>1. CASE u = t
        <4>1. all_ts[t] = ts[t] /\ (ts[t] < timestamp \/ ts[t] = UINT64_MAX)
          BY <1>1, <2>2
        <4> QED BY <1>1, <1>3, <1>6, <2>2, <3>1, <4>1
      <3>2. CASE u # t
        BY <1>1, <1>3, <1>6, <2>2, <3>2 DEF Registering
      <3> QED BY <3>1, <3>2
    <2> QED BY <2>3, <2>4 DEF Clock, Registering
  <1>8. Log'
    <2>1. \A c \in committed : c.ts \in Nat /\ 0 < c.ts /\ c.ts < timestamp
      BY LogFacts
    <2>2. \A c \in committed : c.ts < timestamp' /\ c.ts # timestamp
      BY <1>1, <1>3, <2>1
    <2>3. IsFiniteSet(committed) /\ \A c, d \in committed : c.ts = d.ts => c = d
      BY LogFacts
    <2>4. \A c \in committed, u \in Threads : c.ts = ts'[u] =>
            pc'[u] = "idle" \/ (pc'[u] = "cleanup" /\ rc'[u] = "RCOK")
      BY <1>1, <1>6, <2>2, LogFacts
    <2>5. \A u \in Threads : pc'[u] = "cleanup" /\ rc'[u] = "RCOK" =>
            \E c \in committed : c.ts = ts'[u] /\ c.query = query'[u]
      BY <1>1, <1>6 DEF BufferInv, Log
    <2> QED BY <1>1, <2>1, <2>2, <2>3, <2>4, <2>5 DEF Log
  <1>9. ASSUME NEW u \in Threads PROVE Progress(u)'
    <2>1. CASE u # t
      <3>1. Progress(u) /\ accesses'[u] = accesses[u]
        BY <1>1 DEF BufferInv
      <3> QED BY <1>6, <2>1, <3>1, ProgressFrame
    <2>2. CASE u = t
      <3>1. accesses'[t] = <<>> /\ Len(q) \in Nat
        BY <1>1, QueryType DEF BufferInv, Progress
      <3> QED BY <1>6, <2>2, <3>1 DEF Progress
    <2> QED BY <2>1, <2>2
  <1> QED BY <1>4, <1>7, <1>8, <1>9 DEF Core

LEMMA AddCore ==
  ASSUME BufferInv, NEW t \in Threads, add_ts(t)
  PROVE  Core'
  <1>1. /\ pc[t] = "begin" /\ all_ts' = [all_ts EXCEPT ![t] = ts[t]]
        /\ pc' = [pc EXCEPT ![t] = "run"]
        /\ UNCHANGED <<timestamp, ts, readreq, prereq, readhis, writehis, base, ts_ready,
                       cur_row, query, accesses, rc, committed>>
    BY DEF add_ts, Goto, rowVars
  <1>2. ts \in Stamps /\ pc \in [Threads -> PC]
        /\ all_ts \in Stamps
    BY DEF BufferInv, Types
  <1>3. Types'
    <2>1. all_ts' \in Stamps /\ pc' \in [Threads -> PC]
      BY <1>1, <1>2 DEF PC, Stamps
    <2> QED BY <1>1, <2>1 DEF BufferInv, Types
  <1>4. /\ all_ts'[t] = ts[t] /\ \A u \in Threads \ {t} : all_ts'[u] = all_ts[u]
        /\ pc'[t] = "run" /\ \A u \in Threads \ {t} : pc'[u] = pc[u]
    BY <1>1, <1>2 DEF Stamps
  <1>5. Clock'
    <2>1. \A u \in Threads : ts[u] \in Nat
      BY ClockFacts
    <2> QED BY <1>1, <1>4, <2>1 DEF BufferInv, Clock, Registering
  <1>6. Log'
    BY <1>1, <1>4, NotLogged DEF BufferInv, Log
  <1>7. ASSUME NEW u \in Threads PROVE Progress(u)'
    <2>1. CASE u # t
      BY <1>1, <1>4, <2>1, ProgressFrame DEF BufferInv
    <2>2. CASE u = t
      BY <1>1, <1>4, <2>2 DEF BufferInv, Progress
    <2> QED BY <2>1, <2>2
  <1> QED BY <1>3, <1>5, <1>6, <1>7 DEF Core

\* The reads, versions and base of a row take recycled ones in.
LEMMA RowTypes ==
  ASSUME Types, Threads # {}, NEW r \in Rows, NEW R \in SUBSET Stamp,
         NEW W \in SUBSET [ts : Stamp, data : Nat], Recycled(r, R, W)
  PROVE  /\ readhis' \in [Rows -> SUBSET Stamp]
         /\ writehis' \in [Rows -> SUBSET [ts : Stamp, data : Nat]]
         /\ base' \in [Rows -> Nat]
  <1>1. PICK R2 \in SUBSET R, W2 \in SUBSET W, b2 \in Nat :
           /\ readhis' = [readhis EXCEPT ![r] = R2]
           /\ writehis' = [writehis EXCEPT ![r] = W2]
           /\ base' = [base EXCEPT ![r] = b2]
    <2>1. Cuts(r, R, W, all_ts)
      BY RecycledCuts
    <2> QED BY <2>1 DEF Cuts
  <1>2. R2 \in SUBSET Stamp /\ W2 \in SUBSET [ts : Stamp, data : Nat]
    OBVIOUS
  <1> DEFINE Vs == SUBSET [ts : Stamp, data : Nat]
             Ss == SUBSET Stamp
  <1>3. readhis \in [Rows -> Ss] /\ writehis \in [Rows -> Vs] /\ base \in [Rows -> Nat]
    BY DEF Types
  <1>4. R2 \in Ss /\ W2 \in Vs
    BY <1>2
  <1> HIDE DEF Vs, Ss
  <1>5. readhis' \in [Rows -> Ss] /\ writehis' \in [Rows -> Vs] /\ base' \in [Rows -> Nat]
    BY <1>1, <1>3, <1>4
  <1> QED BY <1>5 DEF Vs, Ss

\* A thread that makes a request is in its query.
LEMMA RequestFacts ==
  ASSUME BufferInv, NEW t \in Threads, Requests(t) \/ pc[t] = "read" \/ pc[t] = "spin" \/ pc[t] = "granted"
  PROVE  /\ pc[t] \in {"run", "read", "granted", "spin"} /\ query[t] \in Queries
         /\ Len(accesses[t]) < Len(query[t]) /\ Row(t) \in Rows /\ Cur(t).row = Row(t)
         /\ Cur(t).type \in {"RD", "WR"}
         /\ \A r : Cur(t) = [row |-> r, type |-> "WR"] <=> Row(t) = r /\ Cur(t).type = "WR"
         /\ \A k \in 1..Len(accesses[t]) : accesses[t][k].row # Row(t)
         /\ writehis[Row(t)] \in SUBSET [ts : Stamp, data : Nat]
         /\ readhis[Row(t)] \in SUBSET Stamp
         /\ [txn |-> t, ts |-> ts[t]] \in Request
  <1>1. pc[t] \in {"run", "read", "granted", "spin"} /\ Progress(t) /\ Types
    BY DEF Requests, BufferInv
  <1>2. query[t] \in Queries /\ Len(accesses[t]) < Len(query[t])
    BY <1>1 DEF Requests, Progress
  <1>3. ts[t] \in Stamp
    BY ClockFacts
  <1> QED BY <1>1, <1>2, <1>3, CurFacts, QueueFacts DEF Request

LEMMA PrewriteCore ==
  ASSUME BufferInv, NEW t \in Threads, Prewrite(t)
  PROVE  Core'
  <1>1. /\ Requests(t) /\ Cur(t).type = "WR" /\ pc[t] = "run"
        /\ prereq' = [prereq EXCEPT ![Row(t)] =
                        prereq[Row(t)] \union {[txn |-> t, ts |-> ts[t]]}]
        /\ Recycled(Row(t), readhis[Row(t)], writehis[Row(t)])
        /\ pc' = [pc EXCEPT ![t] = "read"]
        /\ UNCHANGED <<timestamp, all_ts, ts, readreq, ts_ready, cur_row, query, accesses,
                       rc, committed>>
    BY DEF Prewrite, Goto, tsVars, Requests
  <1>2. Types
    BY DEF BufferInv
  <1>3. prereq' \in [Rows -> SUBSET Request] /\ pc' \in [Threads -> PC]
    BY <1>1, <1>2, RequestFacts DEF Types, PC
  <1>4. /\ readhis' \in [Rows -> SUBSET Stamp]
        /\ writehis' \in [Rows -> SUBSET [ts : Stamp, data : Nat]]
        /\ base' \in [Rows -> Nat]
    BY <1>1, <1>2, RequestFacts, RowTypes
  <1>5. Types'
    BY <1>1, <1>2, <1>3, <1>4 DEF Types
  <1>6. pc'[t] = "read" /\ \A u \in Threads \ {t} : pc'[u] = pc[u]
    BY <1>1, <1>2 DEF Types
  <1>7. Progress(t)'
    <2>1. Progress(t)
      BY DEF BufferInv
    <2> QED BY <1>1, <1>6, <2>1, RequestFacts DEF Progress, Cur
  <1> QED BY <1>1, <1>5, <1>6, <1>7, CoreFrame

LEMMA AbortCore ==
  ASSUME BufferInv, NEW t \in Threads, PrewriteAborts(t)
  PROVE  Core'
  <1>1. /\ Requests(t) /\ pc[t] = "run"
        /\ rc' = [rc EXCEPT ![t] = "Abort"] /\ pc' = [pc EXCEPT ![t] = "cleanup"]
        /\ UNCHANGED <<timestamp, all_ts, ts, readreq, prereq, readhis, writehis, base,
                       ts_ready, cur_row, query, accesses, committed>>
    BY DEF PrewriteAborts, Goto, tsVars, rowVars, Requests
  <1>2. Types
    BY DEF BufferInv
  <1>3. rc' \in [Threads -> {"RCOK", "Abort"}] /\ pc' \in [Threads -> PC]
    BY <1>1, <1>2 DEF Types, PC
  <1>4. Types'
    BY <1>1, <1>2, <1>3 DEF Types
  <1>5. /\ pc'[t] = "cleanup" /\ rc'[t] = "Abort"
        /\ \A u \in Threads \ {t} : pc'[u] = pc[u] /\ rc'[u] = rc[u]
    BY <1>1, <1>2 DEF Types
  <1>6. Progress(t)'
    <2>1. Progress(t)
      BY DEF BufferInv
    <2> QED BY <1>1, <1>5, <2>1, RequestFacts DEF Progress
  <1> QED BY <1>1, <1>4, <1>5, <1>6, CoreFrame

LEMMA ReadCore ==
  ASSUME BufferInv, NEW t \in Threads, ReadRow(t)
  PROVE  Core'
  <1>1. /\ pc[t] = "read" \/ Requests(t)
        /\ cur_row' = [cur_row EXCEPT ![t] = VersionAt(writehis[Row(t)], ts[t])]
        /\ Recycled(Row(t), readhis[Row(t)] \union {ts[t]}, writehis[Row(t)])
        /\ pc' = [pc EXCEPT ![t] = "granted"]
        /\ UNCHANGED <<timestamp, all_ts, ts, readreq, prereq, ts_ready, query, accesses,
                       rc, committed>>
    BY DEF ReadRow, Reads, Goto, tsVars
  <1>2. Types /\ ts[t] \in Stamp /\ ts[t] \in Nat
    BY ClockFacts DEF BufferInv
  <1>3. VersionAt(writehis[Row(t)], ts[t]) \in Stamp
    BY <1>1, <1>2, RequestFacts, Latest
  <1>4. cur_row' \in [Threads -> Stamp] /\ pc' \in [Threads -> PC]
    BY <1>1, <1>2, <1>3 DEF Types, PC
  <1>5. /\ readhis' \in [Rows -> SUBSET Stamp]
        /\ writehis' \in [Rows -> SUBSET [ts : Stamp, data : Nat]]
        /\ base' \in [Rows -> Nat]
    <2>1. readhis[Row(t)] \union {ts[t]} \in SUBSET Stamp
      BY <1>1, <1>2, RequestFacts
    <2> QED BY <1>1, <1>2, <2>1, RequestFacts, RowTypes
  <1>6. Types'
    BY <1>1, <1>2, <1>4, <1>5 DEF Types
  <1>7. pc'[t] = "granted" /\ \A u \in Threads \ {t} : pc'[u] = pc[u]
    BY <1>1, <1>2 DEF Types
  <1>8. Progress(t)'
    <2>1. Progress(t)
      BY DEF BufferInv
    <2> QED BY <1>1, <1>7, <2>1, RequestFacts DEF Progress
  <1>9. pc[t] \notin {"idle", "cleanup", "begin"}
    BY <1>1 DEF Requests
  <1> QED BY <1>1, <1>6, <1>7, <1>8, <1>9, CoreFrame

LEMMA WaitCore ==
  ASSUME BufferInv, NEW t \in Threads, ReadWaits(t)
  PROVE  Core'
  <1>1. /\ pc[t] = "read" \/ Requests(t)
        /\ readreq' = [readreq EXCEPT ![Row(t)] =
                         readreq[Row(t)] \union {[txn |-> t, ts |-> ts[t]]}]
        /\ ts_ready' = [ts_ready EXCEPT ![t] = FALSE]
        /\ pc' = [pc EXCEPT ![t] = "spin"]
        /\ UNCHANGED <<timestamp, all_ts, ts, prereq, readhis, writehis, base, cur_row,
                       query, accesses, rc, committed>>
    BY DEF ReadWaits, Reads, Goto, tsVars
  <1>2. Types
    BY DEF BufferInv
  <1>3. /\ readreq' \in [Rows -> SUBSET Request] /\ pc' \in [Threads -> PC]
        /\ ts_ready' \in [Threads -> BOOLEAN]
    BY <1>1, <1>2, RequestFacts DEF Types, PC
  <1>4. Types'
    BY <1>1, <1>2, <1>3 DEF Types
  <1>5. pc'[t] = "spin" /\ \A u \in Threads \ {t} : pc'[u] = pc[u]
    BY <1>1, <1>2 DEF Types
  <1>6. Progress(t)'
    <2>1. Progress(t)
      BY DEF BufferInv
    <2> QED BY <1>1, <1>5, <2>1, RequestFacts DEF Progress
  <1>7. pc[t] \notin {"idle", "cleanup", "begin"}
    BY <1>1 DEF Requests
  <1> QED BY <1>1, <1>4, <1>5, <1>6, <1>7, CoreFrame

\* The access that UseRow records.
Used(t) == [row |-> Row(t), type |-> Cur(t).type, version |-> cur_row[t],
            data |-> Deref(Row(t), cur_row[t])]

LEMMA UsedType ==
  ASSUME BufferInv, NEW t \in Threads, Granted(t)
  PROVE  Used(t) \in AccessType /\ HasRead(t, Row(t))
  <1>1. pc[t] \in {"granted", "spin"} /\ cur_row[t] \in Stamp
    BY DEF Granted, BufferInv, Types
  <1>2. Row(t) \in Rows /\ Cur(t).type \in {"RD", "WR"}
    BY <1>1, RequestFacts
  <1>3. base[Row(t)] \in Nat /\ UINT64_MAX \in Nat
        /\ \A v \in writehis[Row(t)] : v.data \in Nat
    BY <1>2, QueueFacts, ClockFacts
  <1>4. Deref(Row(t), cur_row[t]) \in Nat
    <2>1. CASE cur_row[t] = 0
      BY <1>3, <2>1 DEF Deref
    <2>2. CASE cur_row[t] # 0 /\ \E v \in writehis[Row(t)] : v.ts = cur_row[t]
      <3>1. PICK w : w = CHOOSE v \in writehis[Row(t)] : v.ts = cur_row[t]
        OBVIOUS
      <3>2. w \in writehis[Row(t)] /\ Deref(Row(t), cur_row[t]) = w.data
        BY <2>2, <3>1 DEF Deref
      <3> QED BY <1>3, <3>2
    <2>3. CASE cur_row[t] # 0 /\ ~ \E v \in writehis[Row(t)] : v.ts = cur_row[t]
      BY <1>3, <2>3 DEF Deref
    <2> QED BY <2>1, <2>2, <2>3
  <1> QED BY <1>1, <1>2, <1>4 DEF Used, AccessType, HasRead

LEMMA UseFacts ==
  ASSUME BufferInv, HistoryInv, NEW t \in Threads, Granted(t)
  PROVE  Used(t).data = Cardinality(Before(committed, Row(t), ts[t]))
  <1>1. pc[t] \in {"granted", "spin"} /\ IsAt(writehis[Row(t)], ts[t], cur_row[t])
    BY DEF Granted, HistoryInv, Pointers
  <1> QED BY <1>1, RequestFacts, UsedType, Value DEF Used

LEMMA UseCore ==
  ASSUME BufferInv, NEW t \in Threads, UseRow(t)
  PROVE  Core'
  <1>1. /\ Granted(t)
        /\ accesses' = [accesses EXCEPT ![t] = Append(accesses[t], Used(t))]
        /\ pc' = [pc EXCEPT ![t] = "run"]
        /\ UNCHANGED <<timestamp, all_ts, ts, readreq, prereq, readhis, writehis, base,
                       ts_ready, cur_row, query, rc, committed>>
    BY DEF UseRow, Granted, Goto, Used, tsVars, rowVars
  <1>2. Types /\ accesses \in [Threads -> Seq(AccessType)] /\ pc[t] \in {"granted", "spin"}
    BY <1>1 DEF BufferInv, Types, Granted
  <1> DEFINE new == Append(accesses[t], Used(t))
  <1>3. /\ Len(accesses[t]) \in Nat /\ new \in Seq(AccessType)
        /\ Len(new) = Len(accesses[t]) + 1 /\ new[Len(accesses[t]) + 1] = Used(t)
        /\ \A k \in 1..Len(accesses[t]) : new[k] = accesses[t][k]
    <2>1. Used(t) \in AccessType /\ accesses[t] \in Seq(AccessType)
      BY <1>1, <1>2, UsedType
    <2> HIDE DEF AccessType
    <2> QED BY <2>1
  <1>4. Used(t).row = query[t][Len(accesses[t]) + 1].row
        /\ Used(t).type = query[t][Len(accesses[t]) + 1].type
    BY DEF Used, Row, Cur
  <1> HIDE DEF new
  <1>5. accesses' = [accesses EXCEPT ![t] = new]
    BY <1>1 DEF new
  <1>6. accesses' \in [Threads -> Seq(AccessType)] /\ pc' \in [Threads -> PC]
    BY <1>1, <1>2, <1>3, <1>5 DEF Types, PC
  <1>7. Types'
    BY <1>1, <1>2, <1>6 DEF Types
  <1>8. /\ pc'[t] = "run" /\ accesses'[t] = new
        /\ \A u \in Threads \ {t} : pc'[u] = pc[u] /\ accesses'[u] = accesses[u]
    BY <1>1, <1>2, <1>5 DEF Types
  <1>9. Progress(t)'
    <2>1. Progress(t) /\ query[t] \in Queries /\ Len(accesses[t]) < Len(query[t])
      BY <1>2, RequestFacts DEF BufferInv
    <2>2. Len(query[t]) \in Nat
      BY <2>1, QueryType
    <2>3. \A k \in 1..(Len(accesses[t]) + 1) : k \in 1..Len(accesses[t]) \/ k = Len(accesses[t]) + 1
      BY <1>3
    <2>4. \A k \in 1..Len(new) : new[k].row = query[t][k].row /\ new[k].type = query[t][k].type
      BY <1>3, <1>4, <2>1, <2>3 DEF Progress
    <2>5. Len(new) <= Len(query[t])
      BY <1>3, <2>1, <2>2
    <2> QED BY <1>1, <1>8, <2>1, <2>4, <2>5 DEF Progress
  <1> QED BY <1>1, <1>2, <1>7, <1>8, <1>9, CoreFrame

\* The transaction that FinishTxn logs.
Logged(t) == [ts |-> ts[t], query |-> query[t],
              saw |-> [i \in DOMAIN accesses[t] |-> accesses[t][i].data]]

LEMMA FinishFacts ==
  ASSUME BufferInv, NEW t \in Threads, FinishTxn(t)
  PROVE  /\ pc[t] = "run" /\ Len(accesses[t]) = Len(query[t]) /\ query[t] \in Queries
         /\ rc' = [rc EXCEPT ![t] = "RCOK"] /\ pc' = [pc EXCEPT ![t] = "cleanup"]
         /\ committed' = committed \union {Logged(t)}
         /\ Logged(t) \in Transaction /\ Logged(t).ts = ts[t] /\ Logged(t).query = query[t]
         /\ UNCHANGED <<timestamp, all_ts, ts, readreq, prereq, readhis, writehis, base,
                        ts_ready, cur_row, query, accesses>>
  <1>1. /\ pc[t] = "run" /\ Len(accesses[t]) = Len(query[t])
        /\ rc' = [rc EXCEPT ![t] = "RCOK"] /\ pc' = [pc EXCEPT ![t] = "cleanup"]
        /\ committed' = committed \union {Logged(t)}
        /\ UNCHANGED <<timestamp, all_ts, ts, readreq, prereq, readhis, writehis, base,
                       ts_ready, cur_row, query, accesses>>
    BY DEF FinishTxn, Goto, Logged, tsVars, rowVars
  <1>2. query[t] \in Queries /\ ts[t] \in Stamp
    BY <1>1, InQuery, ClockFacts
  <1>3. [i \in DOMAIN accesses[t] |-> accesses[t][i].data] \in Seq(Nat)
    <2>1. /\ DOMAIN accesses[t] = 1..Len(accesses[t]) /\ Len(accesses[t]) \in Nat
          /\ \A k \in 1..Len(accesses[t]) : accesses[t][k].data \in Nat
      BY ThreadFacts DEF BufferInv
    <2> QED BY <2>1
  <1> QED BY <1>1, <1>2, <1>3 DEF Logged, Transaction

LEMMA FinishCore ==
  ASSUME BufferInv, NEW t \in Threads, FinishTxn(t)
  PROVE  Core'
  <1>1. Types /\ Clock /\ \A u \in Threads : Progress(u)
    BY DEF BufferInv
  <1>2. rc' \in [Threads -> {"RCOK", "Abort"}] /\ pc' \in [Threads -> PC]
    BY <1>1, FinishFacts DEF Types, PC
  <1>3. Types'
    BY <1>1, <1>2, FinishFacts DEF Types
  <1>4. /\ pc'[t] = "cleanup" /\ rc'[t] = "RCOK" /\ pc[t] = "run"
        /\ \A u \in Threads \ {t} : pc'[u] = pc[u] /\ rc'[u] = rc[u]
    BY <1>1, FinishFacts DEF Types
  <1>5. /\ UNCHANGED <<timestamp, all_ts, ts, query, accesses>>
        /\ committed' = committed \union {Logged(t)}
        /\ Logged(t).ts = ts[t] /\ Logged(t).query = query[t]
    BY FinishFacts
  <1>6. Clock'
    BY <1>1, <1>4, <1>5 DEF Clock, Registering
  <1>7. Log'
    <2>1. IsFiniteSet(committed')
      BY <1>5, LogFacts, FS_AddElement
    <2>2. 0 < ts[t] /\ ts[t] < timestamp
      BY <1>4, ClockFacts
    <2>3. \A c \in committed : c.ts # ts[t]
      BY <1>4, NotLogged
    <2>4. \A u \in Threads : ts[u] = ts[t] => u = t
      BY <1>4, ClockFacts
    <2>5. \A c \in committed' : 0 < c.ts /\ c.ts < timestamp'
      BY <1>5, <2>2 DEF BufferInv, Log
    <2>6. \A c, d \in committed' : c.ts = d.ts => c = d
      BY <1>5, <2>3, LogFacts
    <2>7. \A c \in committed', u \in Threads : c.ts = ts'[u] =>
            pc'[u] = "idle" \/ (pc'[u] = "cleanup" /\ rc'[u] = "RCOK")
      BY <1>4, <1>5, <2>3, <2>4, LogFacts
    <2>8. \A u \in Threads : pc'[u] = "cleanup" /\ rc'[u] = "RCOK" =>
            \E c \in committed' : c.ts = ts'[u] /\ c.query = query'[u]
      BY <1>4, <1>5 DEF BufferInv, Log
    <2> QED BY <2>1, <2>5, <2>6, <2>7, <2>8 DEF Log
  <1>8. ASSUME NEW u \in Threads PROVE Progress(u)'
    <2>1. CASE u # t
      BY <1>1, <1>4, <1>5, <2>1, ProgressFrame
    <2>2. CASE u = t
      BY <1>1, <1>4, <1>5, <2>2 DEF Progress
    <2> QED BY <2>1, <2>2
  <1> QED BY <1>3, <1>6, <1>7, <1>8 DEF Core

LEMMA EndsCore ==
  ASSUME BufferInv, NEW t \in Threads, TxnEnds(t)
  PROVE  Core'
  <1>1. /\ pc[t] = "cleanup" /\ accesses[t] = <<>>
        /\ pc' = [pc EXCEPT ![t] = IF rc[t] = "Abort" THEN "retry" ELSE "idle"]
        /\ UNCHANGED <<timestamp, all_ts, ts, readreq, prereq, readhis, writehis, base,
                       ts_ready, cur_row, query, accesses, rc, committed>>
    BY DEF TxnEnds, Goto, tsVars, rowVars
  <1>2. Types /\ Clock /\ Log /\ (\A u \in Threads : Progress(u)) /\ rc[t] \in {"RCOK", "Abort"}
    BY DEF BufferInv, Types
  <1>3. pc' \in [Threads -> PC]
    BY <1>1, <1>2 DEF Types, PC
  <1>4. Types'
    BY <1>1, <1>2, <1>3 DEF Types
  <1>5. /\ pc'[t] = IF rc[t] = "Abort" THEN "retry" ELSE "idle"
        /\ \A u \in Threads \ {t} : pc'[u] = pc[u]
    BY <1>1, <1>2 DEF Types
  <1>6. Clock'
    BY <1>1, <1>2, <1>5 DEF Clock, Registering
  <1>7. Log'
    BY <1>1, <1>2, <1>5 DEF Log
  <1>8. ASSUME NEW u \in Threads PROVE Progress(u)'
    <2>1. CASE u # t
      BY <1>1, <1>2, <1>5, <2>1, ProgressFrame
    <2>2. CASE u = t
      BY <1>1, <1>2, <1>5, <2>2 DEF Progress
    <2> QED BY <2>1, <2>2
  <1> QED BY <1>4, <1>6, <1>7, <1>8 DEF Core

\* What a turn of cleanup does to the accesses of its thread.
LEMMA ReturnFacts ==
  ASSUME BufferInv, NEW t \in Threads, ReturnRow(t)
  PROVE  /\ pc[t] = "cleanup" /\ accesses[t] # <<>> /\ query[t] \in Queries
         /\ Last(accesses[t]) \in AccessType /\ Last(accesses[t]).row \in Rows
         /\ Last(accesses[t]).type \in {"RD", "WR"} /\ Last(accesses[t]).data \in Nat
         /\ Len(accesses[t]) \in 1..Len(accesses[t])
         /\ Last(accesses[t]) = accesses[t][Len(accesses[t])]
         /\ Front(accesses[t]) \in Seq(AccessType)
         /\ Len(Front(accesses[t])) = Len(accesses[t]) - 1
         /\ \A i \in 1..(Len(accesses[t]) - 1) : Front(accesses[t])[i] = accesses[t][i]
         /\ accesses' = [accesses EXCEPT ![t] = Front(accesses[t])]
         /\ UNCHANGED <<timestamp, all_ts, ts, query, rc, pc, committed>>
  <1>1. /\ pc[t] = "cleanup" /\ accesses[t] # <<>>
        /\ accesses' = [accesses EXCEPT ![t] = Front(accesses[t])]
        /\ UNCHANGED <<timestamp, all_ts, ts, query, rc, pc, committed>>
    BY DEF ReturnRow, tsVars
  <1>2. accesses[t] \in Seq(AccessType) /\ query[t] \in Queries
    BY <1>1, InQuery, ThreadFacts
  <1>3. /\ Front(accesses[t]) \in Seq(AccessType)
        /\ Len(Front(accesses[t])) = Len(accesses[t]) - 1
        /\ \A i \in 1..(Len(accesses[t]) - 1) : Front(accesses[t])[i] = accesses[t][i]
        /\ Last(accesses[t]) \in AccessType /\ Len(accesses[t]) \in 1..Len(accesses[t])
        /\ Last(accesses[t]) = accesses[t][Len(accesses[t])]
    <2> HIDE DEF AccessType
    <2> QED BY <1>1, <1>2, FrontLemma
  <1>4. \A a \in AccessType : a.row \in Rows /\ a.type \in {"RD", "WR"} /\ a.data \in Nat
    BY DEF AccessType
  <1> QED BY <1>1, <1>2, <1>3, <1>4

\* The versions that are there once t has returned access a.
LEMMA VersionsType ==
  ASSUME BufferInv, NEW t \in Threads, NEW a \in AccessType
  PROVE  Versions(t, a) \in SUBSET [ts : Stamp, data : Nat]
  <1>1. a.row \in Rows /\ a.data + 1 \in Nat /\ ts[t] \in Stamp
    BY ClockFacts DEF AccessType
  <1>2. writehis[a.row] \in SUBSET [ts : Stamp, data : Nat]
    BY <1>1, QueueFacts
  <1>3. [ts |-> ts[t], data |-> a.data + 1] \in [ts : Stamp, data : Nat]
    BY <1>1
  <1> QED BY <1>2, <1>3 DEF Versions

\* What a turn of cleanup does when thread t returns a write of row r: it lets
\* reads through, and leaves versions W.
Loose(t, r) == Runnable(Others(prereq[r], t), readreq[r])

WithReads(r, reads) == readhis[r] \union {e.ts : e \in reads}

Releases(t, r, W) ==
  /\ prereq' = [prereq EXCEPT ![r] = Others(prereq[r], t)]
  /\ readreq' = [readreq EXCEPT ![r] = readreq[r] \ Loose(t, r)]
  /\ Loose(t, r) \subseteq readreq[r]
  /\ ts_ready' \in [Threads -> BOOLEAN] /\ cur_row' \in [Threads -> Stamp]
  /\ \A u \in Threads : ts_ready'[u] <=> ts_ready[u] \/ \E e \in Loose(t, r) : e.txn = u
  /\ \A u \in Threads : cur_row'[u] = IF \E e \in Loose(t, r) : e.txn = u
                                      THEN VersionAt(W, ts[u]) ELSE cur_row[u]
  /\ Recycled(r, WithReads(r, Loose(t, r)), W) /\ WithReads(r, Loose(t, r)) \in SUBSET Stamp

LEMMA ReleaseFacts ==
  ASSUME BufferInv, NEW t \in Threads, NEW a \in AccessType,
         Released(a.row, Others(prereq[a.row], t), Versions(t, a))
  PROVE  Releases(t, a.row, Versions(t, a))
  <1> DEFINE r     == a.row
             reads == Loose(t, r)
             R     == WithReads(r, reads)
             Got(u) == {e \in reads : e.txn = u}
             Free(u) == \E e \in reads : e.txn = u
  <1>1. r \in Rows /\ ts_ready \in [Threads -> BOOLEAN] /\ cur_row \in [Threads -> Stamp]
    BY DEF AccessType, BufferInv, Types
  <1>2. \A u : Got(u) # {} <=> Free(u)
    OBVIOUS
  <1>3. reads \subseteq readreq[r]
    BY DEF Runnable, Loose
  <1>4. /\ prereq' = [prereq EXCEPT ![r] = Others(prereq[r], t)]
        /\ readreq' = [readreq EXCEPT ![r] = readreq[r] \ reads]
        /\ ts_ready' = [u \in Threads |-> ts_ready[u] \/ Got(u) # {}]
        /\ cur_row' = [u \in Threads |->
             IF Got(u) # {} THEN VersionAt(Versions(t, a), ts[u]) ELSE cur_row[u]]
        /\ Recycled(r, R, Versions(t, a))
    BY DEF Released, Loose, WithReads
  <1>5. R \in SUBSET Stamp
    <2>1. readhis[r] \subseteq Stamp /\ readreq[r] \subseteq Request
      BY <1>1, QueueFacts
    <2> HIDE DEF reads
    <2>2. \A e \in reads : e.ts \in Stamp
      BY <1>3, <2>1 DEF Request
    <2> QED BY <2>1, <2>2 DEF WithReads
  <1>6. \A u \in Threads : VersionAt(Versions(t, a), ts[u]) \in Stamp
    BY VersionsType, ClockFacts, Latest
  <1> HIDE DEF reads, R, r
  <1>7. ts_ready' \in [Threads -> BOOLEAN] /\ \A u \in Threads : ts_ready'[u] <=> ts_ready[u] \/ Free(u)
    <2>1. ts_ready' = [u \in Threads |-> ts_ready[u] \/ Free(u)]
      BY <1>2, <1>4
    <2> HIDE DEF Free
    <2> QED BY <1>1, <2>1
  <1>8. \A u \in Threads : cur_row'[u] = IF Free(u) THEN VersionAt(Versions(t, a), ts[u])
                                                ELSE cur_row[u]
    BY <1>2, <1>4
  <1>9. cur_row' \in [Threads -> Stamp]
    <2> DEFINE New(u) == IF Got(u) # {} THEN VersionAt(Versions(t, a), ts[u]) ELSE cur_row[u]
    <2>1. \A u \in Threads : New(u) \in Stamp
      BY <1>1, <1>6
    <2>2. cur_row' = [u \in Threads |-> New(u)]
      BY <1>4
    <2> HIDE DEF New
    <2> QED BY <2>1, <2>2
  <1> QED BY <1>3, <1>4, <1>5, <1>7, <1>8, <1>9 DEF Releases, r, reads, R

LEMMA ReturnCore ==
  ASSUME BufferInv, NEW t \in Threads, ReturnRow(t)
  PROVE  Core'
  <1> DEFINE a == Last(accesses[t])
  <1>1. Types /\ Clock /\ Log /\ (\A u \in Threads : Progress(u))
    BY DEF BufferInv
  <1>2. /\ prereq' \in [Rows -> SUBSET Request] /\ readreq' \in [Rows -> SUBSET Request]
        /\ ts_ready' \in [Threads -> BOOLEAN] /\ cur_row' \in [Threads -> Stamp]
        /\ readhis' \in [Rows -> SUBSET Stamp]
        /\ writehis' \in [Rows -> SUBSET [ts : Stamp, data : Nat]]
        /\ base' \in [Rows -> Nat]
    <2>1. CASE a.type = "WR"
      <3>1. Released(a.row, Others(prereq[a.row], t), Versions(t, a))
        BY <2>1 DEF ReturnRow, Others
      <3>2. a \in AccessType /\ a.row \in Rows
        BY ReturnFacts
      <3>3. Versions(t, a) \in SUBSET [ts : Stamp, data : Nat]
        BY <3>2, VersionsType
      <3>7. PICK r, reads, R : r = a.row /\ reads = Loose(t, r) /\ R = WithReads(r, reads)
        OBVIOUS
      <3>4. /\ prereq' = [prereq EXCEPT ![r] = Others(prereq[r], t)]
            /\ readreq' = [readreq EXCEPT ![r] = readreq[r] \ reads]
            /\ ts_ready' \in [Threads -> BOOLEAN] /\ cur_row' \in [Threads -> Stamp]
            /\ Recycled(r, R, Versions(t, a)) /\ R \in SUBSET Stamp
        <4> HIDE DEF a
        <4> QED BY <3>1, <3>2, <3>7, ReleaseFacts DEF Releases
      <3> HIDE DEF a
      <3>5. /\ readhis' \in [Rows -> SUBSET Stamp]
            /\ writehis' \in [Rows -> SUBSET [ts : Stamp, data : Nat]]
            /\ base' \in [Rows -> Nat]
        BY <1>1, <3>2, <3>3, <3>4, <3>7, RowTypes
      <3>6. prereq' \in [Rows -> SUBSET Request] /\ readreq' \in [Rows -> SUBSET Request]
        <4>1. prereq \in [Rows -> SUBSET Request] /\ readreq \in [Rows -> SUBSET Request]
          BY <1>1 DEF Types
        <4>2. Others(prereq[r], t) \in SUBSET Request /\ readreq[r] \ reads \in SUBSET Request
          BY <3>2, <3>7, <4>1 DEF Others
        <4> QED BY <3>4, <4>1, <4>2
      <3> QED BY <3>4, <3>5, <3>6
    <2>2. CASE a.type # "WR"
      BY <1>1, <2>2 DEF ReturnRow, rowVars, Types
    <2> QED BY <2>1, <2>2
  <1>3. accesses \in [Threads -> Seq(AccessType)] /\ Front(accesses[t]) \in Seq(AccessType)
    BY <1>1, ReturnFacts DEF Types
  <1>4. accesses' \in [Threads -> Seq(AccessType)]
    BY <1>3, ReturnFacts
  <1>5. Types'
    BY <1>1, <1>2, <1>4, ReturnFacts DEF Types
  <1>6. /\ accesses'[t] = Front(accesses[t])
        /\ \A u \in Threads \ {t} : accesses'[u] = accesses[u]
    BY <1>3, ReturnFacts
  <1>7. Clock' /\ Log'
    BY <1>1, ReturnFacts DEF Clock, Log, Registering
  <1>8. ASSUME NEW u \in Threads PROVE Progress(u)'
    <2>1. CASE u # t
      BY <1>1, <1>6, <2>1, ReturnFacts, ProgressFrame
    <2>2. CASE u = t
      <3> DEFINE s == accesses[t]
      <3>1. /\ Len(Front(s)) = Len(s) - 1 /\ Len(s) \in 1..Len(s)
            /\ \A i \in 1..(Len(s) - 1) : Front(s)[i] = s[i]
        BY ReturnFacts
      <3>2. Len(s) \in Nat
        BY <1>1, ThreadFacts
      <3>3. \A i \in 1..Len(Front(s)) : i \in 1..Len(s) /\ Front(s)[i] = s[i]
        BY <3>1, <3>2
      <3>4. pc[t] = "cleanup" /\ pc' = pc /\ query' = query
        BY ReturnFacts
      <3>5. Len(Front(s)) <= Len(query[t])
        <4>1. Len(query[t]) \in Nat /\ Len(s) <= Len(query[t])
          BY <1>1, <3>4, InQuery DEF Progress
        <4> QED BY <3>1, <3>2, <4>1
      <3> QED BY <1>1, <1>6, <2>2, <3>3, <3>4, <3>5 DEF Progress
    <2> QED BY <2>1, <2>2
  <1> QED BY <1>5, <1>7, <1>8 DEF Core

------------------------------------------------------------------------------
(***************************************************************************)
(* What a step does to the announcers, readers and waiters of a row        *)
(***************************************************************************)

\* Thread u is to row r what it was.
SameTo(u, r) == /\ Announced(u, r)' <=> Announced(u, r)
                /\ HasRead(u, r)' <=> HasRead(u, r)
                /\ Waits(u, r)' <=> Waits(u, r)

LEMMA SetsNext ==
  ASSUME NEW t \in Threads, NEW r
  PROVE  /\ Announced(t, r)' <=>
              \/ WrOn(accesses'[t], r)
              \/ pc'[t] \in {"read", "granted", "spin"} /\ Cur(t)' = [row |-> r, type |-> "WR"]
         /\ HasRead(t, r)' <=> On(accesses'[t], r) \/ (Granted(t)' /\ Row(t)' = r)
         /\ Waits(t, r)' <=> pc'[t] = "spin" /\ ~ ts_ready'[t] /\ Row(t)' = r
         /\ Granted(t)' <=> pc'[t] = "granted" \/ (pc'[t] = "spin" /\ ts_ready'[t])
         /\ Row(t)' = Cur(t)'.row /\ Cur(t)' = query'[t][Len(accesses'[t]) + 1]
  BY DEF Announced, HasRead, On, WrOn, Waits, Granted, Row, Cur

LEMMA NothingOn ==
  ASSUME NEW r
  PROVE  ~ On(<<>>, r) /\ ~ WrOn(<<>>, r)
  BY DEF On, WrOn

LEMMA OthersSame ==
  ASSUME NEW u \in Threads, Unmoved(u), NEW r
  PROVE  SameTo(u, r)
  BY UnmovedSets DEF SameTo

LEMMA StartSets ==
  ASSUME BufferInv, NEW t \in Threads, StartTxn(t) \/ add_ts(t), NEW u \in Threads, NEW r
  PROVE  /\ SameTo(u, r) /\ (u # t => Unmoved(u))
         /\ ~ Announced(t, r) /\ ~ HasRead(t, r) /\ ~ Waits(t, r)
  <1>1. /\ pc[t] \in {"idle", "retry", "begin"} /\ accesses[t] = <<>>
        /\ pc'[t] \in {"begin", "run"} /\ accesses' = accesses /\ ts_ready' = ts_ready
    BY DEF StartTxn, add_ts, Goto, BufferInv, Progress, Types
  <1>2. \A w \in Threads \ {t} : Unmoved(w)
    BY <1>1 DEF StartTxn, add_ts, Goto, BufferInv, Types, Unmoved
  <1>3. ~ Announced(t, r) /\ ~ HasRead(t, r) /\ ~ Waits(t, r)
    BY <1>1, Sets, NothingOn DEF Granted, Waits
  <1>4. ~ Announced(t, r)' /\ ~ HasRead(t, r)' /\ ~ Waits(t, r)'
    BY <1>1, SetsNext, NothingOn
  <1> QED BY <1>2, <1>3, <1>4, OthersSame DEF SameTo

LEMMA QuietSets ==
  ASSUME BufferInv, NEW t \in Threads, PrewriteAborts(t) \/ FinishTxn(t) \/ TxnEnds(t),
         NEW u \in Threads, NEW r
  PROVE  SameTo(u, r) /\ (u # t => Unmoved(u))
  <1>1. /\ pc[t] \in {"run", "cleanup"} /\ pc'[t] \in {"cleanup", "idle", "retry"}
        /\ accesses' = accesses /\ ts_ready' = ts_ready
    BY DEF PrewriteAborts, FinishTxn, TxnEnds, Requests, Goto, BufferInv, Types
  <1>2. \A w \in Threads \ {t} : Unmoved(w)
    BY <1>1 DEF PrewriteAborts, FinishTxn, TxnEnds, Goto, BufferInv, Types, Unmoved
  <1>3. SameTo(t, r)
    BY <1>1, Sets, SetsNext DEF SameTo, Granted, Waits
  <1> QED BY <1>2, <1>3, OthersSame

LEMMA UseSets ==
  ASSUME BufferInv, NEW t \in Threads, UseRow(t), NEW u \in Threads, NEW r
  PROVE  SameTo(u, r) /\ (u # t => Unmoved(u))
  <1>1. /\ Granted(t) /\ accesses' = [accesses EXCEPT ![t] = Append(accesses[t], Used(t))]
        /\ pc' = [pc EXCEPT ![t] = "run"] /\ UNCHANGED <<query, ts_ready>>
    BY DEF UseRow, Granted, Goto, Used
  <1>2. /\ accesses \in [Threads -> Seq(AccessType)] /\ pc \in [Threads -> PC]
        /\ pc[t] \in {"granted", "spin"} /\ (pc[t] = "spin" => ts_ready[t])
    BY <1>1 DEF BufferInv, Types, Granted
  <1>3. /\ accesses'[t] = Append(accesses[t], Used(t)) /\ pc'[t] = "run"
        /\ \A w \in Threads \ {t} : Unmoved(w)
    BY <1>1, <1>2 DEF Unmoved
  <1>4. Used(t) \in AccessType /\ accesses[t] \in Seq(AccessType)
    BY <1>1, <1>2, UsedType
  <1>5. Used(t).row = Row(t) /\ Used(t).type = Cur(t).type
    BY DEF Used
  <1>6. /\ On(accesses'[t], r) <=> On(accesses[t], r) \/ Row(t) = r
        /\ WrOn(accesses'[t], r) <=> WrOn(accesses[t], r) \/ (Row(t) = r /\ Cur(t).type = "WR")
    BY <1>3, <1>4, <1>5, OnAppend
  <1>7. Cur(t) = [row |-> r, type |-> "WR"] <=> Row(t) = r /\ Cur(t).type = "WR"
    BY <1>2, RequestFacts
  <1>8. SameTo(t, r)
    BY <1>1, <1>2, <1>3, <1>6, <1>7, Sets, SetsNext DEF SameTo, Waits
  <1> QED BY <1>3, <1>8, OthersSame

\* A prewrite makes an announcer of its thread, ...
LEMMA PrewriteSets ==
  ASSUME BufferInv, NEW t \in Threads, Prewrite(t), NEW u \in Threads, NEW r
  PROVE  /\ u # t \/ r # Row(t) => SameTo(u, r)
         /\ u # t => Unmoved(u)
         /\ r = Row(t) => ~ Announced(t, r) /\ Announced(t, r)'
         /\ HasRead(t, r)' <=> HasRead(t, r)
         /\ ~ Waits(t, r)' /\ ~ Waits(t, r) /\ ~ Granted(t)'
  <1>1. /\ pc[t] = "run" /\ Cur(t).type = "WR" /\ Requests(t)
        /\ pc' = [pc EXCEPT ![t] = "read"] /\ UNCHANGED <<query, accesses, ts_ready>>
    BY DEF Prewrite, Goto, Requests
  <1>2. pc \in [Threads -> PC]
    BY DEF BufferInv, Types
  <1>3. pc'[t] = "read" /\ \A w \in Threads \ {t} : Unmoved(w)
    BY <1>1, <1>2 DEF Unmoved
  <1>4. Cur(t)' = Cur(t) /\ Row(t)' = Row(t)
    BY <1>1 DEF Cur, Row
  <1>5. /\ \A s : Cur(t) = [row |-> s, type |-> "WR"] <=> Row(t) = s /\ Cur(t).type = "WR"
        /\ \A k \in 1..Len(accesses[t]) : accesses[t][k].row # Row(t)
    BY <1>1, RequestFacts
  <1>6. ~ WrOn(accesses[t], Row(t))
    <2>1. DOMAIN accesses[t] = 1..Len(accesses[t])
      BY ThreadFacts DEF BufferInv
    <2> QED BY <1>5, <2>1 DEF WrOn
  <1>7. r = Row(t) => ~ Announced(t, r) /\ Announced(t, r)'
    BY <1>1, <1>3, <1>4, <1>5, <1>6, Sets, SetsNext
  <1>8. /\ HasRead(t, r)' <=> HasRead(t, r)
        /\ ~ Waits(t, r)' /\ ~ Waits(t, r) /\ ~ Granted(t)'
    BY <1>1, <1>3, Sets, SetsNext DEF Waits, Granted
  <1>9. r # Row(t) => (Announced(t, r)' <=> Announced(t, r))
    BY <1>1, <1>3, <1>4, <1>5, Sets, SetsNext
  <1> QED BY <1>3, <1>7, <1>8, <1>9, OthersSame DEF SameTo

\* ... a read that is let in a reader, ...
LEMMA ReadSets ==
  ASSUME BufferInv, NEW t \in Threads, ReadRow(t), NEW u \in Threads, NEW r
  PROVE  /\ u # t \/ r # Row(t) => SameTo(u, r)
         /\ u # t => Unmoved(u)
         /\ (r = Row(t) => HasRead(t, r)') /\ (Announced(t, r)' <=> Announced(t, r))
         /\ ~ Waits(t, r)' /\ ~ Waits(t, r) /\ Row(t)' = Row(t) /\ pc'[t] = "granted"
  <1>1. /\ pc[t] = "read" \/ (Requests(t) /\ Cur(t).type = "RD")
        /\ pc[t] \in {"read", "run"}
        /\ pc' = [pc EXCEPT ![t] = "granted"] /\ UNCHANGED <<query, accesses, ts_ready>>
    BY DEF ReadRow, Reads, Goto, Requests
  <1>2. pc \in [Threads -> PC] /\ (pc[t] = "read" => Cur(t).type = "WR")
    BY DEF BufferInv, Types, Progress
  <1>3. pc'[t] = "granted" /\ \A w \in Threads \ {t} : Unmoved(w)
    BY <1>1, <1>2 DEF Unmoved
  <1>4. Cur(t)' = Cur(t) /\ Row(t)' = Row(t)
    BY <1>1 DEF Cur, Row
  <1>5. \A s : Cur(t) = [row |-> s, type |-> "WR"] <=> Row(t) = s /\ Cur(t).type = "WR"
    BY <1>1, RequestFacts
  <1>6. Announced(t, r)' <=> Announced(t, r)
    BY <1>1, <1>2, <1>3, <1>4, <1>5, Sets, SetsNext
  <1>7. (r = Row(t) => HasRead(t, r)') /\ (r # Row(t) => (HasRead(t, r)' <=> HasRead(t, r)))
    BY <1>1, <1>3, <1>4, Sets, SetsNext DEF Granted
  <1>8. ~ Waits(t, r)' /\ ~ Waits(t, r)
    BY <1>1, <1>3, SetsNext DEF Waits
  <1> QED BY <1>3, <1>4, <1>6, <1>7, <1>8, OthersSame DEF SameTo

\* ... and one that is not a waiter.
LEMMA WaitSets ==
  ASSUME BufferInv, NEW t \in Threads, ReadWaits(t), NEW u \in Threads, NEW r
  PROVE  /\ u # t \/ r # Row(t) => SameTo(u, r)
         /\ u # t => Unmoved(u)
         /\ (r = Row(t) => Waits(t, r)') /\ (Announced(t, r)' <=> Announced(t, r))
         /\ (HasRead(t, r)' <=> HasRead(t, r)) /\ ~ Granted(t)'
  <1>1. /\ pc[t] = "read" \/ (Requests(t) /\ Cur(t).type = "RD")
        /\ pc[t] \in {"read", "run"}
        /\ pc' = [pc EXCEPT ![t] = "spin"] /\ UNCHANGED <<query, accesses>>
        /\ ts_ready' = [ts_ready EXCEPT ![t] = FALSE]
    BY DEF ReadWaits, Reads, Goto, Requests
  <1>2. pc \in [Threads -> PC] /\ (pc[t] = "read" => Cur(t).type = "WR")
        /\ ts_ready \in [Threads -> BOOLEAN]
    BY DEF BufferInv, Types, Progress
  <1>3. pc'[t] = "spin" /\ ~ ts_ready'[t] /\ \A w \in Threads \ {t} : Unmoved(w)
    BY <1>1, <1>2 DEF Unmoved
  <1>4. Cur(t)' = Cur(t) /\ Row(t)' = Row(t)
    BY <1>1 DEF Cur, Row
  <1>5. \A s : Cur(t) = [row |-> s, type |-> "WR"] <=> Row(t) = s /\ Cur(t).type = "WR"
    BY <1>1, RequestFacts
  <1>6. Announced(t, r)' <=> Announced(t, r)
    BY <1>1, <1>2, <1>3, <1>4, <1>5, Sets, SetsNext
  <1>7. HasRead(t, r)' <=> HasRead(t, r)
    BY <1>1, <1>3, <1>4, Sets, SetsNext DEF Granted
  <1>8. /\ (r = Row(t) => Waits(t, r)') /\ ~ Granted(t)'
        /\ r # Row(t) => (Waits(t, r)' <=> Waits(t, r))
    BY <1>1, <1>3, <1>4, SetsNext DEF Waits
  <1> QED BY <1>3, <1>6, <1>7, <1>8, OthersSame DEF SameTo

\* A turn of cleanup makes its thread nothing to the row, and readers of the
\* waiters that it frees.
LEMMA ReturnSets ==
  ASSUME BufferInv, NEW t \in Threads, ReturnRow(t), NEW u \in Threads, NEW r,
         NEW s, s = Last(accesses[t]).row
  PROVE  /\ r # s => SameTo(t, r)
         /\ ~ Announced(t, s)' /\ ~ HasRead(t, s)' /\ ~ Waits(t, s)' /\ ~ Waits(t, s)
         /\ HasRead(t, s) /\ (Announced(t, s) <=> Last(accesses[t]).type = "WR")
         /\ u # t => /\ Announced(u, r)' <=> Announced(u, r)
                     /\ On(accesses'[u], r) <=> On(accesses[u], r)
                     /\ Row(u)' = Row(u) /\ accesses'[u] = accesses[u]
                     /\ Waits(u, r)' <=> pc[u] = "spin" /\ ~ ts_ready'[u] /\ Row(u) = r
                     /\ HasRead(u, r)' <=>
                          \/ On(accesses[u], r)
                          \/ /\ pc[u] = "granted" \/ (pc[u] = "spin" /\ ts_ready'[u])
                             /\ Row(u) = r
  <1> DEFINE acc == accesses[t]
  <1>1. /\ pc[t] = "cleanup" /\ acc # <<>> /\ acc \in Seq(AccessType)
        /\ accesses' = [accesses EXCEPT ![t] = Front(acc)] /\ UNCHANGED <<query, pc>>
        /\ accesses \in [Threads -> Seq(AccessType)]
    BY ReturnFacts DEF BufferInv, Types
  <1>2. accesses'[t] = Front(acc) /\ (u # t => accesses'[u] = accesses[u])
    BY <1>1
  <1>3. \A i, j \in 1..Len(acc) : acc[i].row = acc[j].row => i = j
    BY OneEach DEF BufferInv
  <1>4. /\ On(Front(acc), r) <=> On(acc, r) /\ s # r
        /\ WrOn(Front(acc), r) <=> WrOn(acc, r) /\ s # r
        /\ ~ On(Front(acc), s) /\ ~ WrOn(Front(acc), s) /\ On(acc, s)
        /\ WrOn(acc, s) <=> Last(acc).type = "WR"
    BY <1>1, <1>3, OnFront
  <1>5. r # s => SameTo(t, r)
    BY <1>1, <1>2, <1>4, Sets, SetsNext DEF SameTo, Granted, Waits
  <1>6. /\ ~ Announced(t, s)' /\ ~ HasRead(t, s)' /\ ~ Waits(t, s)' /\ ~ Waits(t, s)
        /\ HasRead(t, s) /\ (Announced(t, s) <=> Last(accesses[t]).type = "WR")
    <2>1. /\ Announced(t, s)' <=>
              \/ WrOn(accesses'[t], s)
              \/ pc'[t] \in {"read", "granted", "spin"} /\ Cur(t)' = [row |-> s, type |-> "WR"]
          /\ HasRead(t, s)' <=> On(accesses'[t], s) \/ (Granted(t)' /\ Row(t)' = s)
          /\ Waits(t, s)' <=> pc'[t] = "spin" /\ ~ ts_ready'[t] /\ Row(t)' = s
          /\ Granted(t)' <=> pc'[t] = "granted" \/ (pc'[t] = "spin" /\ ts_ready'[t])
      BY SetsNext
    <2>2. /\ Announced(t, s) <=>
              \/ WrOn(acc, s)
              \/ pc[t] \in {"read", "granted", "spin"} /\ Cur(t) = [row |-> s, type |-> "WR"]
          /\ HasRead(t, s) <=> On(acc, s) \/ (Granted(t) /\ Row(t) = s)
      BY Sets
    <2> HIDE DEF acc
    <2>3. ~ Announced(t, s)' /\ ~ HasRead(t, s)' /\ ~ Waits(t, s)'
      BY <1>1, <1>2, <1>4, <2>1
    <2>4. HasRead(t, s) /\ (Announced(t, s) <=> Last(acc).type = "WR") /\ ~ Waits(t, s)
      BY <1>1, <1>4, <2>2 DEF Waits
    <2> QED BY <2>3, <2>4 DEF acc
  <1>7. ASSUME u # t
        PROVE  /\ Announced(u, r)' <=> Announced(u, r)
               /\ Row(u)' = Row(u) /\ accesses'[u] = accesses[u]
               /\ Waits(u, r)' <=> pc[u] = "spin" /\ ~ ts_ready'[u] /\ Row(u) = r
               /\ HasRead(u, r)' <=>
                    \/ On(accesses[u], r)
                    \/ /\ pc[u] = "granted" \/ (pc[u] = "spin" /\ ts_ready'[u])
                       /\ Row(u) = r
    <2>1. Cur(u)' = Cur(u) /\ Row(u)' = Row(u)
      BY <1>1, <1>2, <1>7 DEF Cur, Row
    <2> QED BY <1>1, <1>2, <1>7, <2>1, Sets, SetsNext
  <1> QED BY <1>2, <1>5, <1>6, <1>7

------------------------------------------------------------------------------
(***************************************************************************)
(* The rows                                                                *)
(***************************************************************************)

LEMMA SameSets ==
  ASSUME NEW r, \A u \in Threads : SameTo(u, r)
  PROVE  /\ Announcers(r)' = Announcers(r) /\ Readers(r)' = Readers(r)
         /\ Waiters(r)' = Waiters(r)
  BY DEF SameTo, Announcers, Readers, Waiters

LEMMA ReaderRuns ==
  ASSUME BufferInv, NEW u \in Threads, NEW r, HasRead(u, r)
  PROVE  pc[u] \notin {"idle", "retry", "begin"} /\ Running(u) /\ Floors[u] = ts[u]
  <1>1. pc[u] \notin {"idle", "retry", "begin"}
    BY Sets, NothingOn DEF BufferInv, Progress, Granted
  <1> QED BY <1>1, ClockFacts DEF Running

LEMMA ReaderRunsCore ==
  ASSUME NEW u \in Threads, NEW r
  PROVE  Core /\ HasRead(u, r) => Running(u)
  <1> SUFFICES ASSUME Core, HasRead(u, r) PROVE Running(u)
    OBVIOUS
  <1>1. pc[u] \notin {"idle", "begin"}
    BY Sets, NothingOn DEF Core, Progress, Granted
  <1> QED BY <1>1 DEF Running

LEMMA ReaderRunsNext ==
  ASSUME NEW u \in Threads, NEW r
  PROVE  Core' /\ HasRead(u, r)' => Running(u)'
  <1>1. Core /\ HasRead(u, r) => Running(u)
    BY ReaderRunsCore
  <1> QED BY <1>1, PTL

\* The floors of the next state.
LEMMA FloorsType == Types => Floors \in Stamps
  <1> SUFFICES ASSUME Types PROVE Floors \in Stamps
    OBVIOUS
  <1>1. /\ timestamp \in 1..UINT64_MAX
        /\ \A t \in Threads : ts[t] \in 1..UINT64_MAX /\ all_ts[t] \in 1..UINT64_MAX
    BY DEF Types, Stamps
  <1> QED BY <1>1 DEF Floors, Stamps

LEMMA FloorsNext == Types' => (Floors \in Stamps)'
  <1>1. Types => Floors \in Stamps
    BY FloorsType
  <1> QED BY <1>1, PTL

LEMMA FloorsStay == UNCHANGED <<timestamp, all_ts, ts>> => Floors' = Floors
  BY DEF Floors

\* No history that somebody needs is cut, as no thread is taken for one without
\* a transaction: the cut reads R and versions W of a row lie below all floors,
\* and not only below the entries of all_ts.
LEMMA TimelyCuts ==
  ASSUME BufferInv, OnTime, NEW t \in Threads, Running(t), NEW r \in Rows,
         NEW R \in SUBSET Stamp, NEW W \in SUBSET [ts : Stamp, data : Nat],
         \A h \in R : h \in readhis[r] \/ \E u \in Threads : Running(u) /\ h = ts[u],
         \A v \in W : v \in writehis[r] \/ v.ts = ts[t],
         Cuts(r, R, W, all_ts)
  PROVE  Cuts(r, R, W, Floors)
  <1>1. PICK R2 \in SUBSET R, W2 \in SUBSET W, b2 \in Nat :
           /\ CutReads(R, R2, all_ts) /\ CutVersions(W, base[r], W2, b2, all_ts)
           /\ readhis' = [readhis EXCEPT ![r] = R2]
           /\ writehis' = [writehis EXCEPT ![r] = W2]
           /\ base' = [base EXCEPT ![r] = b2]
    BY DEF Cuts
  <1>2. /\ \A u \in Threads : /\ all_ts[u] \in Nat /\ ts[u] \in Nat /\ Floors[u] \in Nat
                              /\ Running(u) => all_ts[u] = ts[u] /\ ts[u] < timestamp
        /\ timestamp \in Nat
    BY ClockFacts DEF Running
  <1>3. CASE ~ \E u \in Threads : Registering(u)
    <2>1. ASSUME NEW n \in Nat, Over(all_ts, n) PROVE Over(Floors, n)
      <3>1. n < timestamp
        BY <1>2, <2>1 DEF Over
      <3>2. ASSUME NEW u \in Threads PROVE n < Floors[u]
        <4>1. n < all_ts[u] /\ (all_ts[u] = UINT64_MAX => ts[u] = UINT64_MAX)
          BY <1>3, <2>1, ClockFacts DEF Over, Registering
        <4> QED BY <3>1, <4>1 DEF Floors
      <3> QED BY <3>2 DEF Over
    <2>2. CutReads(R, R2, Floors)
      BY <1>1, <2>1 DEF CutReads, Stamp
    <2>3. CutVersions(W, base[r], W2, b2, Floors)
      <3>1. \A v \in W2 : v.ts \in Nat
        BY DEF Stamp
      <3> QED BY <1>1, <2>1, <3>1 DEF CutVersions
    <2> QED BY <1>1, <2>2, <2>3 DEF Cuts
  <1>4. CASE \E u \in Threads : Registering(u)
    <2>1. readhis[r] \subseteq readhis'[r] /\ writehis[r] \subseteq writehis'[r]
      BY <1>4 DEF OnTime
    <2>2. readhis'[r] = R2 /\ writehis'[r] = W2
      BY <1>1 DEF BufferInv, Types
    <2>3. \A u \in Threads : Running(u) => ~ Over(all_ts, ts[u])
      BY <1>2 DEF Over
    <2>4. R2 = R
      <3>1. ASSUME NEW h \in R, h \notin R2 PROVE FALSE
        BY <1>1, <2>1, <2>2, <2>3, <3>1 DEF CutReads
      <3> QED BY <3>1
    <2>5. W2 = W
      <3>1. ASSUME NEW v \in W, v \notin W2 PROVE FALSE
        <4>1. v.ts = ts[t]
          BY <2>1, <2>2, <3>1
        <4>2. PICK w \in W2 : v.ts < w.ts /\ Over(all_ts, w.ts)
          BY <1>1, <3>1 DEF CutVersions
        <4>3. w.ts < ts[t] /\ w.ts \in Nat
          BY <1>2, <4>2 DEF Over, Stamp
        <4> QED BY <1>2, <4>1, <4>2, <4>3
      <3> QED BY <3>1
    <2>6. CutReads(R, R2, Floors) /\ CutVersions(W, base[r], W2, b2, Floors)
      BY <1>1, <2>4, <2>5 DEF CutReads, CutVersions
    <2> QED BY <1>1, <2>6 DEF Cuts
  <1> QED BY <1>3, <1>4

LEMMA PrewriteCuts ==
  ASSUME BufferInv, OnTime, NEW t \in Threads, Prewrite(t), NEW r, r = Row(t)
  PROVE  Cuts(r, readhis[r], writehis[r], Floors) /\ readhis[r] \in SUBSET Stamp
  <1>1. /\ Recycled(r, readhis[r], writehis[r]) /\ r \in Rows /\ Running(t) /\ Types
        /\ readhis[r] \in SUBSET Stamp /\ writehis[r] \in SUBSET [ts : Stamp, data : Nat]
    BY RequestFacts DEF Prewrite, Requests, Running, BufferInv
  <1>2. Cuts(r, readhis[r], writehis[r], all_ts)
    BY <1>1, RecycledCuts
  <1> QED BY <1>1, <1>2, TimelyCuts

LEMMA ReadCuts ==
  ASSUME BufferInv, OnTime, NEW t \in Threads, ReadRow(t), NEW r, r = Row(t),
         NEW R, R = readhis[r] \union {ts[t]}
  PROVE  Cuts(r, R, writehis[r], Floors) /\ R \in SUBSET Stamp /\ Running(t)
  <1>1. /\ Recycled(r, R, writehis[r]) /\ r \in Rows /\ Running(t) /\ Types
        /\ R \in SUBSET Stamp /\ writehis[r] \in SUBSET [ts : Stamp, data : Nat]
    BY RequestFacts, ClockFacts DEF ReadRow, Reads, Requests, Running, BufferInv
  <1>2. Cuts(r, R, writehis[r], all_ts)
    BY <1>1, RecycledCuts
  <1> QED BY <1>1, <1>2, TimelyCuts

\* The lists of row r are as they were.
BuffersSame(r) == prereq'[r] = prereq[r] /\ readreq'[r] = readreq[r]

RowSame(r) == /\ readhis'[r] = readhis[r] /\ writehis'[r] = writehis[r]
              /\ base'[r] = base[r]

LEMMA BuffersStay ==
  ASSUME BufferInv, NEW r \in Rows, BuffersSame(r), \A u \in Threads : SameTo(u, r),
         \A u \in Threads : Announced(u, r) \/ Waits(u, r) => ts'[u] = ts[u]
  PROVE  Buffered(r)'
  <1>1. Announcers(r)' = Announcers(r) /\ Waiters(r)' = Waiters(r)
    BY SameSets
  <1>2. \A u \in Announcers(r) \union Waiters(r) : ts'[u] = ts[u]
    BY DEF Announcers, Waiters
  <1>3. Buffers(prereq[r], readreq[r], Announcers(r), Waiters(r), ts')
    BY <1>2, QueueFacts DEF Buffers
  <1> QED BY <1>1, <1>3 DEF Buffered, BuffersSame

LEMMA RowStays ==
  ASSUME BufferInv, HistoryInv, NEW r \in Rows, RowSame(r), \A u \in Threads : SameTo(u, r),
         committed' = committed, Floors' \in Stamps,
         \A u \in Threads : Floors[u] <= Floors'[u],
         \A u \in Threads : Announced(u, r) \/ HasRead(u, r) \/ Waits(u, r) => ts'[u] = ts[u]
  PROVE  RowInv(r)'
  <1>1. Announcers(r)' = Announcers(r) /\ Readers(r)' = Readers(r)
    BY SameSets
  <1>2. \A u \in Announcers(r) \union Readers(r) : ts'[u] = ts[u]
    BY DEF Announcers, Readers
  <1>3. Floors \in Stamps /\ \A c \in committed : c.ts \in Nat
    BY ClockFacts, LogFacts
  <1>4. /\ Reading(r, readhis[r], Announcers(r), Readers(r), ts', Floors', committed)
        /\ Writing(r, writehis[r], base[r], Announcers(r), ts', Floors', committed)
    BY <1>2, <1>3, RowFacts, RowFrame
  <1> QED BY <1>1, <1>4 DEF RowInv, RowSame

\* What has been shown of a row before its history is recycled holds after it.
LEMMA CutRow ==
  ASSUME BufferInv, HistoryInv, NEW r \in Rows, NEW R, NEW W, NEW ann, NEW has \in SUBSET Threads,
         Reading(r, R, ann, has, ts, Floors, committed),
         Writing(r, W, base[r], ann, ts, Floors, committed),
         \A v \in W : v.data \in 0..MAX_TS, \A u \in has : Floors[u] = ts[u],
         NEW R2, NEW W2, NEW b2, CutReads(R, R2, Floors), CutVersions(W, base[r], W2, b2, Floors)
  PROVE  /\ Reading(r, R2, ann, has, ts, Floors, committed)
         /\ Writing(r, W2, b2, ann, ts, Floors, committed)
  <1>1. ts \in Stamps /\ \A c \in committed : c.ts \in Nat
    BY ClockFacts, LogFacts
  <1>2. Reading(r, R2, ann, has, ts, Floors, committed)
    BY <1>1, ReadingCut
  <1>3. Writing(r, W2, b2, ann, ts, Floors, committed)
    BY <1>1, WritingCut
  <1> QED BY <1>2, <1>3

\* Timestamps change for threads that do nothing on any row.
LEMMA StartBuffers ==
  ASSUME BufferInv, NEW t \in Threads, StartTxn(t) \/ add_ts(t), NEW r \in Rows
  PROVE  /\ Buffered(r)' /\ \A u \in Threads : SameTo(u, r)
         /\ \A u \in Threads : Announced(u, r) \/ HasRead(u, r) \/ Waits(u, r) => ts'[u] = ts[u]
  <1>1. BuffersSame(r)
    BY DEF StartTxn, add_ts, rowVars, BuffersSame
  <1>2. \A u \in Threads : SameTo(u, r)
    BY StartSets
  <1>3. \A u \in Threads : Announced(u, r) \/ HasRead(u, r) \/ Waits(u, r) => ts'[u] = ts[u]
    <2>1. \A u \in Threads \ {t} : ts'[u] = ts[u]
      BY ClockFacts DEF StartTxn, add_ts, Stamps
    <2> QED BY <2>1, StartSets
  <1> QED BY <1>1, <1>2, <1>3, BuffersStay

\* The floors grow.
LEMMA FloorsGrow ==
  ASSUME BufferInv, NEW t \in Threads, StartTxn(t) \/ add_ts(t), NEW u \in Threads
  PROVE  Floors[u] <= Floors'[u]
  <1>1. /\ ts \in Stamps /\ all_ts \in Stamps /\ timestamp \in Nat /\ UINT64_MAX \in Nat
        /\ \A w \in Threads : ts[w] \in Nat /\ all_ts[w] \in Nat /\ Floors[w] \in Nat
                              /\ Floors[w] <= ts[w]
    BY ClockFacts
  <1>2. /\ Floors[u] = IF all_ts[u] # UINT64_MAX THEN all_ts[u]
                       ELSE IF ts[u] # UINT64_MAX THEN ts[u] ELSE timestamp
        /\ Floors'[u] = IF all_ts'[u] # UINT64_MAX THEN all_ts'[u]
                        ELSE IF ts'[u] # UINT64_MAX THEN ts'[u] ELSE timestamp'
    BY DEF Floors
  <1>3. CASE StartTxn(t)
    <2>1. /\ timestamp <= MAX_TS /\ MAX_TS \in Nat /\ timestamp # UINT64_MAX
          /\ timestamp' = timestamp + 1 /\ all_ts' = all_ts
          /\ ts' = [ts EXCEPT ![t] = timestamp] /\ pc[t] # "begin"
      BY <1>1, <1>3, ConfigAssumption DEF StartTxn, UINT64_MAX
    <2>2. all_ts[t] = ts[t]
      BY <2>1, ClockFacts
    <2>3. ts'[t] = timestamp /\ (u # t => ts'[u] = ts[u])
      BY <1>1, <2>1 DEF Stamps
    <2> QED BY <1>1, <1>2, <2>1, <2>2, <2>3
  <1>4. CASE add_ts(t)
    <2>1. /\ timestamp' = timestamp /\ ts' = ts /\ pc[t] = "begin"
          /\ all_ts' = [all_ts EXCEPT ![t] = ts[t]]
      BY <1>4 DEF add_ts
    <2>2. all_ts'[t] = ts[t] /\ ts[t] # UINT64_MAX /\ (u # t => all_ts'[u] = all_ts[u])
      <3>1. ts[t] < timestamp /\ timestamp <= UINT64_MAX
        BY <2>1, ClockFacts
      <3> QED BY <1>1, <2>1, <3>1 DEF Stamps
    <2> QED BY <1>1, <1>2, <2>1, <2>2
  <1> QED BY <1>3, <1>4

LEMMA StartRows ==
  ASSUME BufferInv, HistoryInv, Core', NEW t \in Threads, StartTxn(t) \/ add_ts(t), NEW r \in Rows
  PROVE  RowInv(r)'
  <1>1. RowSame(r) /\ committed' = committed
    BY DEF StartTxn, add_ts, rowVars, RowSame
  <1>2. Floors' \in Stamps
    BY FloorsNext DEF Core
  <1>3. \A u \in Threads : Floors[u] <= Floors'[u]
    BY FloorsGrow
  <1> QED BY <1>1, <1>2, <1>3, StartBuffers, RowStays

\* An action of t on another row than r leaves r as it is.
LEMMA OtherBuffers ==
  ASSUME BufferInv, NEW r \in Rows, BuffersSame(r), \A u \in Threads : SameTo(u, r), ts' = ts
  PROVE  Buffered(r)'
  BY BuffersStay

LEMMA OtherRow ==
  ASSUME BufferInv, HistoryInv, NEW r \in Rows, RowSame(r), \A u \in Threads : SameTo(u, r),
         UNCHANGED <<committed, timestamp, all_ts, ts>>
  PROVE  RowInv(r)'
  <1>1. Floors' = Floors /\ Floors \in Stamps
    BY FloorsStay, ClockFacts
  <1>2. \A u \in Threads : Floors[u] <= Floors'[u]
    <2>1. \A u \in Threads : Floors[u] \in Nat
      BY ClockFacts
    <2> QED BY <1>1, <2>1
  <1> QED BY <1>1, <1>2, RowStays

LEMMA QuietBuffers ==
  ASSUME BufferInv, NEW t \in Threads,
         PrewriteAborts(t) \/ FinishTxn(t) \/ TxnEnds(t) \/ UseRow(t), NEW r \in Rows
  PROVE  Buffered(r)' /\ \A u \in Threads : SameTo(u, r)
  <1>1. BuffersSame(r) /\ ts' = ts
    BY DEF PrewriteAborts, FinishTxn, TxnEnds, UseRow, rowVars, tsVars, BuffersSame
  <1>2. \A u \in Threads : SameTo(u, r)
    BY QuietSets, UseSets
  <1> QED BY <1>1, <1>2, OtherBuffers

LEMMA QuietRows ==
  ASSUME BufferInv, HistoryInv, NEW t \in Threads,
         PrewriteAborts(t) \/ TxnEnds(t) \/ UseRow(t), NEW r \in Rows
  PROVE  RowInv(r)'
  <1>1. RowSame(r) /\ UNCHANGED <<committed, timestamp, all_ts, ts>>
    BY DEF PrewriteAborts, TxnEnds, UseRow, rowVars, tsVars, RowSame
  <1> QED BY <1>1, QuietBuffers, OtherRow

LEMMA FinishRows ==
  ASSUME BufferInv, HistoryInv, NEW t \in Threads, FinishTxn(t), NEW r \in Rows
  PROVE  RowInv(r)'
  <1>1. /\ RowSame(r) /\ ts' = ts /\ Floors' = Floors
        /\ committed' = committed \union {Logged(t)}
        /\ Logged(t).ts = ts[t] /\ Logged(t).query = query[t]
        /\ pc[t] = "run" /\ Len(accesses[t]) = Len(query[t]) /\ query[t] \in Queries
    BY FinishFacts, FloorsStay DEF RowSame
  <1>2. Announcers(r)' = Announcers(r) /\ Readers(r)' = Readers(r)
    BY QuietSets, SameSets
  <1>3. /\ DOMAIN query[t] = DOMAIN accesses[t]
        /\ \A k \in DOMAIN query[t] : /\ accesses[t][k].row = query[t][k].row
                                      /\ accesses[t][k].type = query[t][k].type
    <2>1. Progress(t) /\ DOMAIN accesses[t] = 1..Len(accesses[t])
      BY ThreadFacts DEF BufferInv
    <2> QED BY <1>1, <2>1, QueryType DEF Progress
  <1>4. Ordered!Touches(query[t], r) => t \in Readers(r)
    BY <1>3 DEF Ordered!Touches, Readers, HasRead
  <1>5. Ordered!Writes(query[t], r) => t \in Announcers(r)
    BY <1>3 DEF Ordered!Writes, Announcers, Announced
  <1>6. PICK c : c = Logged(t)
    OBVIOUS
  <1>7. Reading(r, readhis[r], Announcers(r), Readers(r), ts, Floors, committed \union {c})
    BY <1>1, <1>4, <1>6, RowFacts, ReadingLog
  <1>8. Writing(r, writehis[r], base[r], Announcers(r), ts, Floors, committed \union {c})
    BY <1>1, <1>5, <1>6, RowFacts, ClockFacts, WritingLog
  <1> QED BY <1>1, <1>2, <1>6, <1>7, <1>8 DEF RowInv, RowSame

\* A prewrite adds an announcer to its row, ...
LEMMA PrewriteMoves ==
  ASSUME BufferInv, NEW t \in Threads, Prewrite(t), NEW r, r = Row(t)
  PROVE  /\ Announcers(r)' = Announcers(r) \union {t} /\ Readers(r)' = Readers(r)
         /\ Waiters(r)' = Waiters(r)
         /\ \A s : s # r => \A u \in Threads : SameTo(u, s)
  <1>1. \A u \in Threads : /\ Announced(u, r)' <=> Announced(u, r) \/ u = t
                           /\ HasRead(u, r)' <=> HasRead(u, r)
                           /\ Waits(u, r)' <=> Waits(u, r)
    BY PrewriteSets DEF SameTo
  <1> QED BY <1>1, PrewriteSets DEF Announcers, Readers, Waiters

LEMMA PrewriteBuffers ==
  ASSUME BufferInv, NEW t \in Threads, Prewrite(t), NEW s \in Rows
  PROVE  Buffered(s)'
  <1>1. PICK r \in Rows : r = Row(t)
    BY RequestFacts DEF Prewrite
  <1>2. /\ prereq' = [prereq EXCEPT ![r] = prereq[r] \union {[txn |-> t, ts |-> ts[t]]}]
        /\ UNCHANGED <<ts, readreq>> /\ prereq \in [Rows -> SUBSET Request]
    BY <1>1 DEF Prewrite, tsVars, BufferInv, Types
  <1>3. CASE s # r
    BY <1>1, <1>2, <1>3, PrewriteMoves, OtherBuffers DEF BuffersSame
  <1>4. CASE s = r
    <2>1. Buffers(prereq[r] \union {[txn |-> t, ts |-> ts[t]]}, readreq[r],
                  Announcers(r) \union {t}, Waiters(r), ts)
      BY QueueFacts, BuffersAnnounce
    <2> QED BY <1>1, <1>2, <1>4, <2>1, PrewriteMoves DEF Buffered
  <1> QED BY <1>3, <1>4

LEMMA PrewriteRows ==
  ASSUME BufferInv, HistoryInv, OnTime, NEW t \in Threads, Prewrite(t), NEW s \in Rows
  PROVE  RowInv(s)'
  <1>1. PICK r \in Rows : r = Row(t)
    BY RequestFacts DEF Prewrite
  <1>2. /\ pc[t] = "run" /\ ~ conflict_prewrite(r, ts[t])
        /\ UNCHANGED <<timestamp, all_ts, ts, committed>> /\ Floors' = Floors
    BY <1>1, FloorsStay DEF Prewrite, Requests, tsVars
  <1>3. PICK R2 \in SUBSET readhis[r], W2 \in SUBSET writehis[r], b2 \in Nat :
           /\ CutReads(readhis[r], R2, Floors)
           /\ CutVersions(writehis[r], base[r], W2, b2, Floors)
           /\ readhis' = [readhis EXCEPT ![r] = R2]
           /\ writehis' = [writehis EXCEPT ![r] = W2]
           /\ base' = [base EXCEPT ![r] = b2]
    BY <1>1, PrewriteCuts DEF Cuts
  <1>4. /\ readhis \in [Rows -> SUBSET Stamp] /\ base \in [Rows -> Nat]
        /\ writehis \in [Rows -> SUBSET [ts : Stamp, data : Nat]]
    BY DEF BufferInv, Types
  <1>5. CASE s # r
    <2>1. RowSame(s)
      BY <1>3, <1>4, <1>5 DEF RowSame
    <2> QED BY <1>1, <1>2, <1>5, <2>1, PrewriteMoves, OtherRow
  <1>6. CASE s = r
    <2>1. Reading(r, readhis[r], Announcers(r) \union {t}, Readers(r), ts, Floors, committed)
      <3>1. \A h \in readhis[r] : h <= ts[t]
        BY <1>2, ConflictWrite DEF Running
      <3> QED BY <3>1, RowFacts, ReadingAnnounce
    <2>2. Writing(r, writehis[r], base[r], Announcers(r) \union {t}, ts, Floors, committed)
      <3>1. \A c \in committed : c.ts # ts[t]
        BY <1>2, NotLogged
      <3> QED BY <3>1, RowFacts, WritingAnnounce
    <2>3. /\ Reading(r, R2, Announcers(r) \union {t}, Readers(r), ts, Floors, committed)
          /\ Writing(r, W2, b2, Announcers(r) \union {t}, ts, Floors, committed)
      <3>1. \A u \in Readers(r) : Floors[u] = ts[u]
        BY ReaderRuns DEF Readers
      <3>2. \A v \in writehis[r] : v.data \in 0..MAX_TS
        BY DataBound
      <3> QED BY <1>3, <2>1, <2>2, <3>1, <3>2, RowFacts, CutRow
    <2>4. readhis'[r] = R2 /\ writehis'[r] = W2 /\ base'[r] = b2
      BY <1>3, <1>4
    <2> QED BY <1>1, <1>2, <1>6, <2>3, <2>4, PrewriteMoves DEF RowInv
  <1> QED BY <1>5, <1>6

\* ... a read that is let in a reader, ...
LEMMA ReadMoves ==
  ASSUME BufferInv, NEW t \in Threads, ReadRow(t), NEW r, r = Row(t)
  PROVE  /\ Announcers(r)' = Announcers(r) /\ Readers(r)' = Readers(r) \union {t}
         /\ Waiters(r)' = Waiters(r)
         /\ \A s : s # r => \A u \in Threads : SameTo(u, s)
  <1>1. \A u \in Threads : /\ Announced(u, r)' <=> Announced(u, r)
                           /\ HasRead(u, r)' <=> HasRead(u, r) \/ u = t
                           /\ Waits(u, r)' <=> Waits(u, r)
    BY ReadSets DEF SameTo
  <1> QED BY <1>1, ReadSets DEF Announcers, Readers, Waiters

LEMMA ReadBuffers ==
  ASSUME BufferInv, NEW t \in Threads, ReadRow(t), NEW s \in Rows
  PROVE  Buffered(s)'
  <1>1. UNCHANGED <<ts, readreq, prereq>>
    BY DEF ReadRow, tsVars
  <1>2. CASE s # Row(t)
    BY <1>1, <1>2, ReadMoves, OtherBuffers DEF BuffersSame
  <1>3. CASE s = Row(t)
    BY <1>1, <1>3, QueueFacts, ReadMoves DEF Buffered
  <1> QED BY <1>2, <1>3

LEMMA ReadRows ==
  ASSUME BufferInv, HistoryInv, OnTime, NEW t \in Threads, ReadRow(t), NEW s \in Rows
  PROVE  RowInv(s)'
  <1>1. PICK r \in Rows : r = Row(t)
    BY RequestFacts DEF ReadRow, Reads
  <1>2. /\ ~ conflict_read(r, ts[t])
        /\ UNCHANGED <<timestamp, all_ts, ts, committed>> /\ Floors' = Floors
    BY <1>1, FloorsStay DEF ReadRow, tsVars
  <1>3. PICK R : R = readhis[r] \union {ts[t]}
    OBVIOUS
  <1>4. PICK R2 \in SUBSET R, W2 \in SUBSET writehis[r], b2 \in Nat :
           /\ CutReads(R, R2, Floors) /\ CutVersions(writehis[r], base[r], W2, b2, Floors)
           /\ readhis' = [readhis EXCEPT ![r] = R2]
           /\ writehis' = [writehis EXCEPT ![r] = W2]
           /\ base' = [base EXCEPT ![r] = b2]
    BY <1>1, <1>3, ReadCuts DEF Cuts
  <1>5. /\ readhis \in [Rows -> SUBSET Stamp] /\ base \in [Rows -> Nat]
        /\ writehis \in [Rows -> SUBSET [ts : Stamp, data : Nat]]
    BY DEF BufferInv, Types
  <1>6. CASE s # r
    <2>1. RowSame(s)
      BY <1>4, <1>5, <1>6 DEF RowSame
    <2> QED BY <1>1, <1>2, <1>6, <2>1, ReadMoves, OtherRow
  <1>7. CASE s = r
    <2>1. Reading(r, R, Announcers(r), Readers(r) \union {t}, ts, Floors, committed)
      <3>1. \A u \in {t}, a \in Announcers(r) : ts[u] <= ts[a]
        <4>1. \A a \in Announcers(r) : ~ (ts[a] < ts[t]) /\ ts[a] \in Nat /\ ts[t] \in Nat
          BY <1>2, ConflictRead, ClockFacts, RowFacts
        <4> QED BY <4>1
      <3>2. \A h : h \in R <=> h \in readhis[r] \/ \E u \in {t} : h = ts[u]
        BY <1>3
      <3>3. {t} \in SUBSET Threads /\ Announcers(r) \in SUBSET Announcers(r)
            /\ Readers(r) \union {t} \in SUBSET (Readers(r) \union {t}) /\ ts \in Stamps
        BY ClockFacts
      <3> QED BY <3>1, <3>2, <3>3, RowFacts, ReadingRead
    <2>2. /\ Reading(r, R2, Announcers(r), Readers(r) \union {t}, ts, Floors, committed)
          /\ Writing(r, W2, b2, Announcers(r), ts, Floors, committed)
      <3>1. \A u \in Readers(r) \union {t} : Floors[u] = ts[u]
        BY <1>1, <1>3, ReadCuts, ReaderRuns, ClockFacts DEF Readers
      <3>2. \A v \in writehis[r] : v.data \in 0..MAX_TS
        BY DataBound
      <3>3. Readers(r) \union {t} \in SUBSET Threads
        BY RowFacts
      <3> QED BY <1>4, <2>1, <3>1, <3>2, <3>3, RowFacts, CutRow
    <2>3. readhis'[r] = R2 /\ writehis'[r] = W2 /\ base'[r] = b2
      BY <1>4, <1>5
    <2> QED BY <1>1, <1>2, <1>7, <2>2, <2>3, ReadMoves DEF RowInv
  <1> QED BY <1>6, <1>7

\* ... and one that is not a waiter.
LEMMA WaitMoves ==
  ASSUME BufferInv, NEW t \in Threads, ReadWaits(t), NEW r, r = Row(t)
  PROVE  /\ Announcers(r)' = Announcers(r) /\ Readers(r)' = Readers(r)
         /\ Waiters(r)' = Waiters(r) \union {t}
         /\ \A s : s # r => \A u \in Threads : SameTo(u, s)
  <1>1. \A u \in Threads : /\ Announced(u, r)' <=> Announced(u, r)
                           /\ HasRead(u, r)' <=> HasRead(u, r)
                           /\ Waits(u, r)' <=> Waits(u, r) \/ u = t
    BY WaitSets DEF SameTo
  <1> QED BY <1>1, WaitSets DEF Announcers, Readers, Waiters

LEMMA WaitBuffers ==
  ASSUME BufferInv, NEW t \in Threads, ReadWaits(t), NEW s \in Rows
  PROVE  Buffered(s)'
  <1>1. PICK r \in Rows : r = Row(t)
    BY RequestFacts DEF ReadWaits, Reads
  <1>2. /\ conflict_read(r, ts[t]) /\ UNCHANGED <<ts, prereq>>
        /\ readreq' = [readreq EXCEPT ![r] = readreq[r] \union {[txn |-> t, ts |-> ts[t]]}]
        /\ readreq \in [Rows -> SUBSET Request]
    BY <1>1 DEF ReadWaits, tsVars, BufferInv, Types
  <1>3. CASE s # r
    BY <1>1, <1>2, <1>3, WaitMoves, OtherBuffers DEF BuffersSame
  <1>4. CASE s = r
    <2>1. Buffers(prereq[r], readreq[r] \union {[txn |-> t, ts |-> ts[t]]},
                  Announcers(r), Waiters(r) \union {t}, ts)
      BY <1>2, ConflictBehind, QueueFacts, BuffersWait
    <2> QED BY <1>1, <1>2, <1>4, <2>1, WaitMoves DEF Buffered
  <1> QED BY <1>3, <1>4

LEMMA WaitRows ==
  ASSUME BufferInv, HistoryInv, NEW t \in Threads, ReadWaits(t), NEW s \in Rows
  PROVE  RowInv(s)'
  <1>1. /\ RowSame(s) /\ UNCHANGED <<timestamp, all_ts, ts, readhis, writehis, base, committed>>
        /\ Floors' = Floors
    BY FloorsStay DEF ReadWaits, tsVars, RowSame
  <1>2. CASE s # Row(t)
    BY <1>1, <1>2, WaitMoves, OtherRow
  <1>3. CASE s = Row(t)
    BY <1>1, <1>3, RowFacts, WaitMoves DEF RowInv
  <1> QED BY <1>2, <1>3

\* When t returns a write of row r, the threads rel are let go.
Releasing(t, r, W, rel) ==
  /\ Buffers(prereq'[r], readreq'[r], Announcers(r) \ {t}, Waiters(r) \ rel, ts)
  /\ \A u \in rel, a \in Announcers(r) \ {t} : ts[u] <= ts[a]
  /\ \A u \in Threads \ rel : ts_ready'[u] = ts_ready[u] /\ cur_row'[u] = cur_row[u]
  /\ \A u \in rel : ts_ready'[u] /\ cur_row'[u] = VersionAt(W, ts[u])
  /\ \A s \in Rows \ {r} : prereq'[s] = prereq[s] /\ readreq'[s] = readreq[s]

CutsWith(r, W, rel, A) ==
  \E R \in SUBSET Stamp : /\ \A h : h \in R <=> h \in readhis[r] \/ \E u \in rel : h = ts[u]
                         /\ Cuts(r, R, W, A)

FreedBy(t, r) == Freed(Others(prereq[r], t), readreq[r], Waiters(r))

LEMMA ReleaseStep ==
  ASSUME BufferInv, NEW t \in Threads, ReturnRow(t),
         NEW a, a = Last(accesses[t]), a.type = "WR"
  PROVE  /\ a.row \in Rows /\ FreedBy(t, a.row) \in SUBSET Waiters(a.row)
         /\ Releasing(t, a.row, Versions(t, a), FreedBy(t, a.row))
         /\ CutsWith(a.row, Versions(t, a), FreedBy(t, a.row), all_ts)
  <1>1. PICK r, W, reads, R, rel :
          /\ r = a.row /\ W = Versions(t, a) /\ reads = Loose(t, r)
          /\ R = WithReads(r, reads) /\ rel = FreedBy(t, r)
    OBVIOUS
  <1>2. a \in AccessType /\ r \in Rows
    BY <1>1, ReturnFacts
  <1>3. Released(a.row, Others(prereq[a.row], t), Versions(t, a))
    BY DEF ReturnRow, Others
  <1>6. /\ prereq' = [prereq EXCEPT ![r] = Others(prereq[r], t)]
        /\ readreq' = [readreq EXCEPT ![r] = readreq[r] \ reads]
        /\ reads \subseteq readreq[r]
        /\ ts_ready' \in [Threads -> BOOLEAN]
        /\ \A u \in Threads : ts_ready'[u] <=> ts_ready[u] \/ \E e \in reads : e.txn = u
        /\ \A u \in Threads : cur_row'[u] = IF \E e \in reads : e.txn = u
                                            THEN VersionAt(W, ts[u]) ELSE cur_row[u]
        /\ Recycled(r, R, W) /\ R \in SUBSET Stamp
    <2>1. Releases(t, a.row, Versions(t, a))
      BY <1>2, <1>3, ReleaseFacts
    <2> QED BY <1>1, <2>1 DEF Releases
  <1>7. /\ prereq \in [Rows -> SUBSET Request] /\ readreq \in [Rows -> SUBSET Request]
        /\ ts_ready \in [Threads -> BOOLEAN] /\ Types
    BY DEF BufferInv, Types
  <1>8. \A e : e \in readreq[r] <=> \E u \in Waiters(r) : e = [txn |-> u, ts |-> ts[u]]
    BY <1>2, QueueFacts DEF Buffers
  <1>10. \A u \in Threads : (\E e \in reads : e.txn = u) => u \in Waiters(r)
    BY <1>6, <1>8
  <1>11. /\ \A u \in Threads : u \in rel <=> \E e \in reads : e.txn = u
         /\ rel \in SUBSET Waiters(r) /\ rel \in SUBSET Threads
    BY <1>1, <1>10 DEF FreedBy, Freed, Loose, Waiters
  <1>13. /\ Buffers(Others(prereq[r], t), readreq[r] \ reads, Announcers(r) \ {t},
                    Waiters(r) \ rel, ts)
         /\ \A e : e \in reads <=> \E u \in rel : e = [txn |-> u, ts |-> ts[u]]
         /\ \A u \in rel, b \in Announcers(r) \ {t} : ts[u] <= ts[b]
    <2>1. LetThrough(Others(prereq[r], t), readreq[r], Announcers(r) \ {t}, Waiters(r), ts)
      <3>1. /\ Buffers(prereq[r], readreq[r], Announcers(r), Waiters(r), ts) /\ ts \in Stamps
            /\ Announcers(r) \in SUBSET Threads /\ Waiters(r) \in SUBSET Threads
        BY <1>2, QueueFacts, ClockFacts
      <3> QED BY <3>1, BuffersRelease
    <2> QED BY <1>1, <2>1 DEF LetThrough, FreedBy, Loose
  <1>14. prereq'[r] = Others(prereq[r], t) /\ readreq'[r] = readreq[r] \ reads
         /\ \A s \in Rows \ {r} : prereq'[s] = prereq[s] /\ readreq'[s] = readreq[s]
    BY <1>2, <1>6, <1>7
  <1>15. \A h : h \in R <=> h \in readhis[r] \/ \E u \in rel : h = ts[u]
    <2>1. ASSUME NEW e \in reads PROVE \E u \in rel : e.ts = ts[u]
      <3>1. PICK u \in rel : e = [txn |-> u, ts |-> ts[u]]
        BY <1>13
      <3> QED BY <3>1
    <2>2. ASSUME NEW u \in rel PROVE \E e \in reads : e.ts = ts[u]
      <3>1. [txn |-> u, ts |-> ts[u]] \in reads
        BY <1>13
      <3> QED BY <3>1
    <2> QED BY <1>1, <2>1, <2>2 DEF WithReads
  <1>16. Cuts(r, R, W, all_ts)
    <2>1. W \in SUBSET [ts : Stamp, data : Nat] /\ Recycled(r, R, W) /\ Threads # {}
      BY <1>1, <1>2, <1>6, VersionsType
    <2> QED BY <1>2, <1>6, <1>7, <2>1, RecycledCuts
  <1>17. \A u \in Threads \ rel : ts_ready'[u] = ts_ready[u] /\ cur_row'[u] = cur_row[u]
    <2> TAKE u \in Threads \ rel
    <2>1. ~ \E e \in reads : e.txn = u
      BY <1>11
    <2>2. ts_ready'[u] \in BOOLEAN /\ ts_ready[u] \in BOOLEAN /\ (ts_ready'[u] <=> ts_ready[u])
      BY <1>6, <1>7, <2>1
    <2>3. cur_row'[u] = cur_row[u]
      BY <1>6, <2>1
    <2> QED BY <2>2, <2>3
  <1>18. \A u \in rel : ts_ready'[u] /\ cur_row'[u] = VersionAt(W, ts[u])
    <2> TAKE u \in rel
    <2>1. u \in Threads /\ \E e \in reads : e.txn = u
      BY <1>11
    <2> QED BY <1>6, <2>1
  <1>19. Releasing(t, r, W, rel)
    BY <1>13, <1>14, <1>17, <1>18 DEF Releasing
  <1>20. CutsWith(r, W, rel, all_ts)
    BY <1>6, <1>15, <1>16 DEF CutsWith
  <1> QED BY <1>1, <1>2, <1>11, <1>19, <1>20

\* What the step cuts off, nobody needs.
LEMMA ReturnCuts ==
  ASSUME BufferInv, OnTime, NEW t \in Threads, ReturnRow(t),
         NEW a, a = Last(accesses[t]), a.type = "WR"
  PROVE  CutsWith(a.row, Versions(t, a), FreedBy(t, a.row), Floors)
  <1>1. PICK r, W, rel : r = a.row /\ W = Versions(t, a) /\ rel = FreedBy(t, r)
    OBVIOUS
  <1>2. r \in Rows /\ rel \in SUBSET Waiters(r) /\ CutsWith(r, W, rel, all_ts)
    BY <1>1, ReleaseStep
  <1>3. PICK R \in SUBSET Stamp :
           /\ \A h : h \in R <=> h \in readhis[r] \/ \E u \in rel : h = ts[u]
           /\ Cuts(r, R, W, all_ts)
    BY <1>2 DEF CutsWith
  <1>4. \A u \in rel : u \in Threads /\ Running(u)
    BY <1>2 DEF Waiters, Waits, Running
  <1>5. a \in AccessType /\ Running(t)
    BY ReturnFacts DEF Running
  <1>6. W \in SUBSET [ts : Stamp, data : Nat]
    BY <1>1, <1>5, VersionsType
  <1>7. \A v \in W : v \in writehis[r] \/ v.ts = ts[t]
    BY <1>1 DEF Versions
  <1>8. \A h \in R : h \in readhis[r] \/ \E u \in Threads : Running(u) /\ h = ts[u]
    BY <1>3, <1>4
  <1>9. Cuts(r, R, W, Floors)
    BY <1>2, <1>3, <1>5, <1>6, <1>7, <1>8, TimelyCuts
  <1> QED BY <1>1, <1>3, <1>9 DEF CutsWith

\* The last access of t in cleanup has the value that the log gives it, and a
\* committed one is in the log.
LEMMA LastFacts ==
  ASSUME BufferInv, HistoryInv, NEW t \in Threads, ReturnRow(t), NEW a, a = Last(accesses[t])
  PROVE  /\ a \in AccessType /\ a.row \in Rows
         /\ a.data = Cardinality(Before(committed, a.row, ts[t]))
         /\ rc[t] = "Abort" => \A c \in committed : c.ts # ts[t]
         /\ rc[t] # "Abort" => \E c \in committed :
              c.ts = ts[t] /\ (a.type = "WR" => Ordered!Writes(c.query, a.row))
  <1>1. /\ a \in AccessType /\ a.row \in Rows /\ pc[t] = "cleanup" /\ query[t] \in Queries
        /\ Len(accesses[t]) \in 1..Len(accesses[t]) /\ a = accesses[t][Len(accesses[t])]
    BY ReturnFacts
  <1>2. a.data = Cardinality(Before(committed, a.row, ts[t]))
    BY <1>1 DEF BufferInv, HistoryInv, Seen
  <1>3. rc[t] = "Abort" => \A c \in committed : c.ts # ts[t]
    BY <1>1, LogFacts
  <1>4. ASSUME rc[t] # "Abort"
        PROVE  \E c \in committed : c.ts = ts[t] /\ (a.type = "WR" => Ordered!Writes(c.query, a.row))
    <2>1. rc[t] = "RCOK"
      BY <1>4 DEF BufferInv, HistoryInv, Types
    <2>2. PICK c \in committed : c.ts = ts[t] /\ c.query = query[t]
      BY <1>1, <2>1 DEF BufferInv, HistoryInv, Log
    <2>3. Len(accesses[t]) \in DOMAIN query[t] /\ query[t][Len(accesses[t])].row = a.row
          /\ query[t][Len(accesses[t])].type = a.type
      <3>1. Progress(t) /\ Len(accesses[t]) \in Nat /\ Len(query[t]) \in Nat
            /\ DOMAIN query[t] = 1..Len(query[t])
        BY <1>1, QueryType, ThreadFacts DEF BufferInv, HistoryInv
      <3> QED BY <1>1, <3>1 DEF Progress
    <2> QED BY <2>2, <2>3 DEF Ordered!Writes
  <1> QED BY <1>1, <1>2, <1>3, <1>4

\* The versions of row r once t has returned its write, before they are recycled.
Returned(t, r, W) ==
  /\ W \in SUBSET [ts : Stamp, data : Nat]
  /\ Writing(r, W, base[r], Announcers(r) \ {t}, ts, Floors, committed)
  /\ \A v \in W : v.data \in 0..MAX_TS
  /\ \/ W = writehis[r]
     \/ \E new : W = writehis[r] \union {new} /\ new.ts = ts[t]

LEMMA ReturnedVersions ==
  ASSUME BufferInv, HistoryInv, NEW t \in Threads, ReturnRow(t), NEW a, a = Last(accesses[t]), a.type = "WR"
  PROVE  Returned(t, a.row, Versions(t, a))
  <1>1. PICK r, W : r = a.row /\ W = Versions(t, a)
    OBVIOUS
  <1>2. a \in AccessType /\ r = a.row /\ r \in Rows /\ t \in Announcers(r)
    BY <1>1, ReturnFacts, ReturnSets DEF Announcers
  <1>3. W \in SUBSET [ts : Stamp, data : Nat] /\ W = Versions(t, a)
    BY <1>1, <1>2, VersionsType
  <1>4. CASE rc[t] = "Abort"
    <2>1. W = writehis[r] /\ \A c \in committed : c.ts # ts[t]
      BY <1>1, <1>2, <1>3, <1>4, LastFacts DEF Versions
    <2>2. Writing(r, W, base[r], Announcers(r) \ {t}, ts, Floors, committed)
      BY <1>2, <2>1, RowFacts, WritingAbort
    <2> QED BY <1>1, <1>2, <1>3, <2>1, <2>2, DataBound DEF Returned
  <1>5. CASE rc[t] # "Abort"
    <2>1. PICK c \in committed : c.ts = ts[t] /\ Ordered!Writes(c.query, r)
      BY <1>1, <1>2, <1>5, LastFacts
    <2>2. PICK new : new = [ts |-> ts[t], data |-> Cardinality(Before(committed, r, ts[t])) + 1]
      OBVIOUS
    <2>3. W = writehis[r] \union {new} /\ new.ts = ts[t]
      BY <1>1, <1>2, <1>3, <1>5, <2>2, LastFacts DEF Versions
    <2>4. Writing(r, writehis[r] \union {new}, base[r], Announcers(r) \ {t}, ts, Floors, committed)
      <3>1. /\ Announcers(r) \in SUBSET Threads /\ t \in Announcers(r)
            /\ Writing(r, writehis[r], base[r], Announcers(r), ts, Floors, committed)
        BY <1>2, RowFacts
      <3>2. /\ IsFiniteSet(committed) /\ (\A d, e \in committed : d.ts = e.ts => d = e)
            /\ \A d \in committed : d.ts \in Nat
        BY LogFacts
      <3>3. ts \in Stamps /\ \A u \in Threads : ts[u] = ts[t] => u = t
        <4>1. pc[t] = "cleanup"
          BY ReturnFacts
        <4> QED BY <4>1, ClockFacts
      <3> QED BY <2>1, <2>2, <3>1, <3>2, <3>3, WritingAdd
    <2>5. new.data \in 0..MAX_TS
      <3>1. Cardinality(Before(committed, r, ts[t])) < ts[t]
        BY LogFacts, ClockFacts, FewBefore
      <3>2. Cardinality(Before(committed, r, ts[t])) \in Nat
        BY LogFacts, LogFinite
      <3>3. ts[t] \in 1..MAX_TS /\ MAX_TS \in Nat
        <4>1. pc[t] = "cleanup"
          BY ReturnFacts
        <4> QED BY <4>1, ConfigAssumption, ClockFacts DEF UINT64_MAX
      <3> QED BY <2>2, <3>1, <3>2, <3>3
    <2> QED BY <1>1, <1>2, <1>3, <2>3, <2>4, <2>5, DataBound DEF Returned
  <1> QED BY <1>4, <1>5

\* A turn of cleanup takes its thread from its row, and the waiters it frees from
\* the waiters.
LEMMA KeepMoves ==
  ASSUME BufferInv, NEW t \in Threads, ReturnRow(t), NEW r, r = Last(accesses[t]).row,
         Last(accesses[t]).type # "WR"
  PROVE  /\ Announcers(r)' = Announcers(r) /\ Readers(r)' = Readers(r) \ {t}
         /\ Waiters(r)' = Waiters(r)
         /\ \A s : s # r => \A u \in Threads : SameTo(u, s)
  <1>1. ts_ready' = ts_ready
    BY DEF ReturnRow
  <1>2. \A s : \A u \in Threads : u # t \/ s # r => SameTo(u, s)
    BY <1>1, Sets, ReturnSets DEF SameTo, Granted, Waits
  <1>3. \A u \in Threads : /\ Announced(u, r)' <=> Announced(u, r)
                           /\ HasRead(u, r)' <=> HasRead(u, r) /\ u # t
                           /\ Waits(u, r)' <=> Waits(u, r)
    BY <1>2, ReturnSets DEF SameTo
  <1> QED BY <1>2, <1>3 DEF Announcers, Readers, Waiters

LEMMA ReturnMoves ==
  ASSUME BufferInv, NEW t \in Threads, ReturnRow(t), NEW r, r = Last(accesses[t]).row,
         Last(accesses[t]).type = "WR", NEW rel, rel = FreedBy(t, r)
  PROVE  /\ Announcers(r)' = Announcers(r) \ {t} /\ Waiters(r)' = Waiters(r) \ rel
         /\ Readers(r)' \subseteq Readers(r) \union rel /\ Readers(r)' \subseteq Threads
         /\ \A s : s # r => \A u \in Threads : SameTo(u, s)
  <1>1. PICK a : a = Last(accesses[t])
    OBVIOUS
  <1>2. /\ rel \in SUBSET Waiters(r) /\ rel \in SUBSET Threads
        /\ \A u \in Threads \ rel : ts_ready'[u] = ts_ready[u]
        /\ \A u \in rel : ts_ready'[u]
    <2>1. rel \in SUBSET Waiters(r) /\ Releasing(t, r, Versions(t, a), rel)
      BY <1>1, ReleaseStep
    <2> QED BY <2>1 DEF Releasing, Waiters
  <1>3. \A u \in rel : pc[u] = "spin" /\ ~ ts_ready[u] /\ Row(u) = r /\ u # t
    <2>1. pc[t] = "cleanup"
      BY ReturnFacts
    <2> QED BY <1>2, <2>1 DEF Waiters, Waits
  <1>4. ASSUME NEW s, s # r, NEW u \in Threads PROVE SameTo(u, s)
    <2>1. SameTo(t, s)
      BY <1>4, ReturnSets
    <2>2. ASSUME u # t, u \notin rel PROVE SameTo(u, s)
      BY <1>2, <2>2, Sets, ReturnSets DEF SameTo, Granted, Waits
    <2>3. ASSUME u \in rel PROVE SameTo(u, s)
      <3>1. u # t /\ Row(u) # s
        BY <1>3, <1>4, <2>3
      <3> QED BY <1>3, <2>3, <3>1, Sets, ReturnSets DEF SameTo, Granted, Waits
    <2> QED BY <2>1, <2>2, <2>3
  <1>5. \A u \in Threads : /\ Announced(u, r)' <=> Announced(u, r) /\ u # t
                           /\ HasRead(u, r)' => HasRead(u, r) \/ u \in rel
                           /\ Waits(u, r)' <=> Waits(u, r) /\ u \notin rel
    <2>1. ~ Announced(t, r)' /\ ~ HasRead(t, r)' /\ ~ Waits(t, r)' /\ ~ Waits(t, r)
      BY ReturnSets
    <2>2. ASSUME NEW u \in Threads, u # t, u \notin rel
          PROVE  /\ Announced(u, r)' <=> Announced(u, r)
                 /\ HasRead(u, r)' <=> HasRead(u, r)
                 /\ Waits(u, r)' <=> Waits(u, r)
      BY <1>2, <2>2, Sets, ReturnSets DEF Granted, Waits
    <2>3. ASSUME NEW u \in rel
          PROVE  u \in Threads /\ (Announced(u, r)' <=> Announced(u, r)) /\ ~ Waits(u, r)'
      BY <1>2, <1>3, ReturnSets
    <2>4. t \notin rel
      BY <1>3
    <2> QED BY <2>1, <2>2, <2>3, <2>4
  <1> QED BY <1>4, <1>5 DEF Announcers, Waiters, Readers

LEMMA ReturnBuffers ==
  ASSUME BufferInv, NEW t \in Threads, ReturnRow(t), NEW s \in Rows
  PROVE  Buffered(s)'
  <1>1. PICK a, r, rel : a = Last(accesses[t]) /\ r = a.row /\ rel = FreedBy(t, r)
    OBVIOUS
  <1>2. ts' = ts /\ r \in Rows
    BY <1>1, ReturnFacts
  <1>3. CASE a.type # "WR"
    <2>1. BuffersSame(s)
      BY <1>1, <1>3 DEF ReturnRow, rowVars, BuffersSame
    <2>2. CASE s # r
      BY <1>1, <1>2, <1>3, <2>1, <2>2, KeepMoves, OtherBuffers
    <2>3. CASE s = r
      BY <1>1, <1>2, <1>3, <2>1, <2>3, QueueFacts, KeepMoves DEF Buffered, BuffersSame
    <2> QED BY <2>2, <2>3
  <1>4. CASE a.type = "WR"
    <2>1. /\ Buffers(prereq'[r], readreq'[r], Announcers(r) \ {t}, Waiters(r) \ rel, ts)
          /\ \A q \in Rows \ {r} : BuffersSame(q)
      BY <1>1, <1>4, ReleaseStep DEF Releasing, BuffersSame
    <2>2. /\ Announcers(r)' = Announcers(r) \ {t} /\ Waiters(r)' = Waiters(r) \ rel
          /\ \A q : q # r => \A u \in Threads : SameTo(u, q)
      BY <1>1, <1>4, ReturnMoves
    <2>3. CASE s # r
      BY <1>2, <2>1, <2>2, <2>3, OtherBuffers
    <2>4. CASE s = r
      BY <1>2, <2>1, <2>2, <2>4 DEF Buffered
    <2> QED BY <2>3, <2>4
  <1> QED BY <1>3, <1>4

LEMMA ReturnRows ==
  ASSUME BufferInv, HistoryInv, OnTime, Core', NEW t \in Threads, ReturnRow(t), NEW s \in Rows
  PROVE  RowInv(s)'
  <1>1. PICK a, r : a = Last(accesses[t]) /\ r = a.row
    OBVIOUS
  <1>2. /\ r \in Rows /\ UNCHANGED <<timestamp, all_ts, ts, query, rc, pc, committed>>
        /\ Floors' = Floors
    BY <1>1, ReturnFacts, FloorsStay
  <1>3. CASE a.type # "WR"
    <2>1. RowSame(s)
      BY <1>1, <1>3 DEF ReturnRow, rowVars, RowSame
    <2>2. CASE s # r
      BY <1>1, <1>2, <1>3, <2>1, <2>2, KeepMoves, OtherRow
    <2>3. CASE s = r
      <3>1. Announcers(r)' = Announcers(r) /\ Readers(r)' = Readers(r) \ {t}
        BY <1>1, <1>3, KeepMoves
      <3>2. Reading(r, readhis[r], Announcers(r), Readers(r) \ {t}, ts, Floors, committed)
        BY <1>2, RowFacts DEF Reading
      <3> QED BY <1>2, <2>1, <2>3, <3>1, <3>2, RowFacts DEF RowInv, RowSame
    <2> QED BY <2>2, <2>3
  <1>4. CASE a.type = "WR"
    <2>1. PICK W, rel : W = Versions(t, a) /\ rel = FreedBy(t, r)
      OBVIOUS
    <2>2. /\ \A u \in rel, b \in Announcers(r) \ {t} : ts[u] <= ts[b]
          /\ rel \in SUBSET Threads /\ Returned(t, r, W) /\ CutsWith(r, W, rel, Floors)
      BY <1>1, <1>4, <2>1, ReleaseStep, ReturnCuts, ReturnedVersions DEF Releasing, Waiters
    <2>3. PICK R \in SUBSET Stamp :
              /\ \A h : h \in R <=> h \in readhis[r] \/ \E u \in rel : h = ts[u]
              /\ Cuts(r, R, W, Floors)
      BY <2>2 DEF CutsWith
    <2>4. PICK R2 \in SUBSET R, W2 \in SUBSET W, b2 \in Nat :
            /\ CutReads(R, R2, Floors) /\ CutVersions(W, base[r], W2, b2, Floors)
            /\ readhis' = [readhis EXCEPT ![r] = R2]
            /\ writehis' = [writehis EXCEPT ![r] = W2]
            /\ base' = [base EXCEPT ![r] = b2]
      BY <2>3 DEF Cuts
    <2>5. /\ readhis \in [Rows -> SUBSET Stamp] /\ base \in [Rows -> Nat]
          /\ writehis \in [Rows -> SUBSET [ts : Stamp, data : Nat]]
      BY DEF BufferInv, Types
    <2>6. /\ Announcers(r)' = Announcers(r) \ {t}
          /\ Readers(r)' \subseteq Readers(r) \union rel /\ Readers(r)' \subseteq Threads
          /\ \A q : q # r => \A u \in Threads : SameTo(u, q)
      BY <1>1, <1>4, <2>1, ReturnMoves
    <2>7. CASE s # r
      <3>1. RowSame(s)
        BY <2>4, <2>5, <2>7 DEF RowSame
      <3> QED BY <1>2, <2>6, <2>7, <3>1, OtherRow
    <2>8. CASE s = r
      <3>1. PICK has : has = Readers(r)'
        OBVIOUS
      <3>2. Reading(r, R, Announcers(r) \ {t}, has, ts, Floors, committed)
        <4>1. /\ Announcers(r) \ {t} \in SUBSET Announcers(r)
              /\ has \in SUBSET (Readers(r) \union rel) /\ ts \in Stamps
          BY <2>6, <3>1, ClockFacts
        <4> QED BY <1>2, <2>2, <2>3, <4>1, RowFacts, ReadingRead
      <3>3. /\ Writing(r, W, base[r], Announcers(r) \ {t}, ts, Floors, committed)
            /\ \A v \in W : v.data \in 0..MAX_TS
        BY <2>2 DEF Returned
      <3>4. \A u \in has : Floors[u] = ts[u]
        <4>1. \A u \in Threads : HasRead(u, r)' => Running(u)'
          BY ReaderRunsNext
        <4>2. \A u \in has : u \in Threads /\ Running(u)
          BY <1>2, <3>1, <4>1 DEF Readers, Running
        <4> QED BY <4>2, ClockFacts
      <3>5. /\ Reading(r, R2, Announcers(r) \ {t}, has, ts, Floors, committed)
            /\ Writing(r, W2, b2, Announcers(r) \ {t}, ts, Floors, committed)
        <4>1. has \in SUBSET Threads
          BY <2>6, <3>1
        <4> QED BY <1>2, <2>4, <3>2, <3>3, <3>4, <4>1, CutRow
      <3>6. readhis'[r] = R2 /\ writehis'[r] = W2 /\ base'[r] = b2
        BY <1>2, <2>4, <2>5
      <3> QED BY <1>2, <2>6, <2>8, <3>1, <3>5, <3>6 DEF RowInv
    <2> QED BY <2>7, <2>8
  <1> QED BY <1>3, <1>4

------------------------------------------------------------------------------
(***************************************************************************)
(* The versions that the threads hold                                      *)
(***************************************************************************)

\* What thread u gets of row r does not change.
StaysAt(u, r) == \A p : IsAt(writehis[r], ts[u], p) => IsAt(writehis'[r], ts[u], p)

\* The pointer to a version that has been read but not yet used.
NewPointer(u) == Granted(u)' => IsAt(writehis'[Row(u)], ts[u], cur_row'[u])

LEMMA PointersFrame ==
  ASSUME Types, NEW u \in Threads, Pointers(u),
         accesses'[u] = accesses[u], query'[u] = query[u], ts'[u] = ts[u],
         pc'[u] = "cleanup" \/ pc[u] # "cleanup", NewPointer(u),
         \A r \in Rows : HasRead(u, r) /\ pc[u] # "cleanup" => StaysAt(u, r)
  PROVE  Pointers(u)'
  <1>1. Row(u)' = Row(u)
    BY DEF Row, Cur
  <1>2. Granted(u)' => IsAt(writehis'[Row(u)'], ts'[u], cur_row'[u])
    BY <1>1 DEF NewPointer
  <1>3. ASSUME pc'[u] # "cleanup", NEW k \in 1..Len(accesses'[u])
        PROVE  IsAt(writehis'[accesses'[u][k].row], ts'[u], accesses'[u][k].version)
    <2>1. pc[u] # "cleanup" /\ k \in 1..Len(accesses[u]) /\ k \in DOMAIN accesses[u]
          /\ accesses[u][k].row \in Rows
      BY <1>3, ThreadFacts
    <2>2. IsAt(writehis[accesses[u][k].row], ts[u], accesses[u][k].version)
      BY <2>1 DEF Pointers
    <2>3. HasRead(u, accesses[u][k].row)
      BY <2>1 DEF HasRead
    <2> QED BY <2>1, <2>2, <2>3 DEF StaysAt
  <1> QED BY <1>2, <1>3 DEF Pointers

\* A thread that an action leaves alone keeps its pointers if the versions stay.
LEMMA UnmovedPointers ==
  ASSUME BufferInv, HistoryInv, NEW u \in Threads, Unmoved(u), ts'[u] = ts[u], cur_row'[u] = cur_row[u],
         \A r \in Rows : HasRead(u, r) /\ pc[u] # "cleanup" => StaysAt(u, r)
  PROVE  Pointers(u)'
  <1>1. NewPointer(u)
    <2> SUFFICES ASSUME Granted(u)' PROVE IsAt(writehis'[Row(u)], ts[u], cur_row'[u])
      BY DEF NewPointer
    <2>1. Granted(u)
      BY UnmovedSets
    <2>2. pc[u] \in {"granted", "spin"}
      BY <2>1 DEF Granted
    <2>3. Row(u) \in Rows /\ HasRead(u, Row(u)) /\ IsAt(writehis[Row(u)], ts[u], cur_row[u])
      BY <2>1, <2>2, RequestFacts DEF HasRead, BufferInv, HistoryInv, Pointers
    <2> QED BY <2>2, <2>3 DEF StaysAt
  <1>2. /\ accesses'[u] = accesses[u] /\ query'[u] = query[u]
        /\ pc'[u] = "cleanup" \/ pc[u] # "cleanup"
    BY DEF Unmoved
  <1>3. Types /\ Pointers(u)
    BY DEF BufferInv, HistoryInv
  <1> QED BY <1>1, <1>2, <1>3, PointersFrame

\* What a running thread gets of the versions W it gets of what is left of
\* them, and the other rows keep theirs.
LEMMA AfterCut ==
  ASSUME BufferInv, NEW r \in Rows, NEW R, NEW W \in SUBSET [ts : Stamp, data : Nat],
         Cuts(r, R, W, Floors), NEW u \in Threads, Running(u)
  PROVE  /\ \A p : IsAt(W, ts[u], p) => IsAt(writehis'[r], ts[u], p)
         /\ \A s \in Rows \ {r} : writehis'[s] = writehis[s]
  <1>1. PICK R2 \in SUBSET R, W2 \in SUBSET W, b2 \in Nat :
          /\ CutVersions(W, base[r], W2, b2, Floors)
          /\ writehis' = [writehis EXCEPT ![r] = W2]
    BY DEF Cuts
  <1>2. writehis \in [Rows -> SUBSET [ts : Stamp, data : Nat]]
    BY DEF BufferInv, Types
  <1>3. writehis'[r] = W2 /\ \A s \in Rows \ {r} : writehis'[s] = writehis[s]
    BY <1>1, <1>2
  <1>4. ASSUME NEW p, IsAt(W, ts[u], p) PROVE IsAt(W2, ts[u], p)
    <2>1. Floors \in Stamps /\ ts[u] = Floors[u]
      BY ClockFacts
    <2>2. IsAt(W, Floors[u], p)
      BY <1>4, <2>1
    <2>3. IsAt(W2, Floors[u], p)
      BY <1>1, <2>1, <2>2, IsAtCut
    <2> QED BY <2>1, <2>3
  <1> QED BY <1>3, <1>4

\* So an access that only reads changes nothing for whoever has read.
LEMMA CutStays ==
  ASSUME BufferInv, NEW r \in Rows, NEW R, Cuts(r, R, writehis[r], Floors),
         NEW u \in Threads, Running(u), NEW s \in Rows
  PROVE  StaysAt(u, s)
  <1>1. PICK W : W = writehis[r]
    OBVIOUS
  <1>2. W \in SUBSET [ts : Stamp, data : Nat] /\ Cuts(r, R, W, Floors)
    BY <1>1, QueueFacts
  <1>3. /\ \A p : IsAt(W, ts[u], p) => IsAt(writehis'[r], ts[u], p)
        /\ \A q \in Rows \ {r} : writehis'[q] = writehis[q]
    BY <1>2, AfterCut
  <1> QED BY <1>1, <1>3 DEF StaysAt

LEMMA SameStays ==
  ASSUME NEW u, NEW r, writehis' = writehis
  PROVE  StaysAt(u, r)
  BY DEF StaysAt

\* A thread that holds nothing.
LEMMA NoPointers ==
  ASSUME NEW u \in Threads, accesses'[u] = <<>> \/ pc'[u] = "cleanup",
         pc'[u] \notin {"granted", "spin"}
  PROVE  Pointers(u)'
  <1>1. ~ Granted(u)'
    BY DEF Granted
  <1>2. accesses'[u] = <<>> => 1..Len(accesses'[u]) = {}
    OBVIOUS
  <1> QED BY <1>1, <1>2 DEF Pointers

LEMMA StartPointers ==
  ASSUME BufferInv, HistoryInv, NEW t \in Threads, StartTxn(t) \/ add_ts(t), NEW u \in Threads
  PROVE  Pointers(u)'
  <1>1. /\ pc \in [Threads -> PC] /\ ts \in Stamps
        /\ accesses' = accesses /\ writehis' = writehis /\ cur_row' = cur_row
    BY DEF StartTxn, add_ts, rowVars, BufferInv, HistoryInv, Types
  <1>2. CASE u = t
    <2>1. accesses'[u] = <<>> /\ pc'[u] \in {"begin", "run"}
      BY <1>1, <1>2 DEF StartTxn, add_ts, Goto, BufferInv, HistoryInv, Progress
    <2> QED BY <2>1, NoPointers
  <1>3. CASE u # t
    <2>1. ts'[u] = ts[u]
      BY <1>1, <1>3 DEF StartTxn, add_ts, Stamps
    <2>2. Unmoved(u)
      BY <1>3, StartSets
    <2> QED BY <1>1, <2>1, <2>2, SameStays, UnmovedPointers
  <1> QED BY <1>2, <1>3

LEMMA QuietPointers ==
  ASSUME BufferInv, HistoryInv, NEW t \in Threads, PrewriteAborts(t) \/ FinishTxn(t) \/ TxnEnds(t),
         NEW u \in Threads
  PROVE  Pointers(u)'
  <1>1. /\ pc \in [Threads -> PC] /\ accesses' = accesses
        /\ writehis' = writehis /\ cur_row' = cur_row /\ ts' = ts
    BY DEF PrewriteAborts, FinishTxn, TxnEnds, tsVars, rowVars, BufferInv, HistoryInv, Types
  <1>2. CASE u = t
    <2>1. pc'[u] = "cleanup" \/ (accesses'[u] = <<>> /\ pc'[u] \in {"retry", "idle"})
      BY <1>1, <1>2 DEF PrewriteAborts, FinishTxn, TxnEnds, Goto
    <2> QED BY <2>1, NoPointers
  <1>3. CASE u # t
    <2>1. Unmoved(u)
      BY <1>3, QuietSets
    <2> QED BY <1>1, <2>1, SameStays, UnmovedPointers
  <1> QED BY <1>2, <1>3

LEMMA UsePointers ==
  ASSUME BufferInv, HistoryInv, NEW t \in Threads, UseRow(t), NEW u \in Threads
  PROVE  Pointers(u)'
  <1>1. /\ Granted(t) /\ accesses' = [accesses EXCEPT ![t] = Append(accesses[t], Used(t))]
        /\ pc' = [pc EXCEPT ![t] = "run"]
        /\ writehis' = writehis /\ cur_row' = cur_row /\ ts' = ts
    BY DEF UseRow, Granted, Goto, Used, tsVars, rowVars
  <1>2. /\ accesses \in [Threads -> Seq(AccessType)] /\ pc \in [Threads -> PC] /\ Types
        /\ Pointers(u)
    BY DEF BufferInv, HistoryInv, Types
  <1>3. CASE u = t
    <2>1. accesses'[t] = Append(accesses[t], Used(t)) /\ pc'[t] = "run"
      BY <1>1, <1>2
    <2>2. ~ Granted(t)'
      BY <2>1 DEF Granted
    <2>3. IsAt(writehis[Row(t)], ts[t], cur_row[t]) /\ pc[t] # "cleanup"
      BY <1>1, <1>2, <1>3 DEF Pointers, Granted
    <2>4. PICK n \in Nat : n = Len(accesses[t])
      BY <1>2, ThreadFacts
    <2>5. /\ Len(Append(accesses[t], Used(t))) = n + 1
          /\ Append(accesses[t], Used(t))[n + 1] = Used(t)
          /\ \A k \in 1..n : Append(accesses[t], Used(t))[k] = accesses[t][k]
      <3>1. accesses[t] \in Seq(AccessType) /\ Used(t) \in AccessType
        BY <1>1, <1>2, UsedType
      <3> HIDE DEF AccessType
      <3> QED BY <2>4, <3>1
    <2>6. ASSUME NEW k \in 1..(n + 1)
          PROVE  IsAt(writehis'[accesses'[t][k].row], ts'[t], accesses'[t][k].version)
      <3>1. CASE k = n + 1
        <4>1. accesses'[t][k].row = Row(t) /\ accesses'[t][k].version = cur_row[t]
          BY <2>1, <2>5, <3>1 DEF Used
        <4> QED BY <1>1, <2>3, <4>1
      <3>2. CASE k \in 1..n
        <4>1. accesses'[t][k] = accesses[t][k]
          BY <2>1, <2>5, <3>2
        <4>2. IsAt(writehis[accesses[t][k].row], ts[t], accesses[t][k].version)
          BY <1>2, <1>3, <2>3, <2>4, <3>2 DEF Pointers
        <4> QED BY <1>1, <4>1, <4>2
      <3> QED BY <3>1, <3>2
    <2> QED BY <1>3, <2>1, <2>2, <2>5, <2>6 DEF Pointers
  <1>4. CASE u # t
    <2>1. Unmoved(u)
      BY <1>4, UseSets
    <2> QED BY <1>1, <2>1, SameStays, UnmovedPointers
  <1> QED BY <1>3, <1>4

LEMMA WaitPointers ==
  ASSUME BufferInv, HistoryInv, NEW t \in Threads, ReadWaits(t), NEW u \in Threads
  PROVE  Pointers(u)'
  <1>1. /\ pc \in [Threads -> PC] /\ accesses' = accesses /\ query' = query
        /\ writehis' = writehis /\ cur_row' = cur_row /\ ts' = ts
    BY DEF ReadWaits, tsVars, BufferInv, HistoryInv, Types
  <1>2. CASE u = t
    <2>1. NewPointer(u) /\ pc[u] # "cleanup"
      BY <1>2, WaitSets DEF NewPointer, ReadWaits, Reads, Requests
    <2> QED BY <1>1, <2>1, SameStays, PointersFrame DEF BufferInv, HistoryInv
  <1>3. CASE u # t
    <2>1. Unmoved(u)
      BY <1>3, WaitSets
    <2> QED BY <1>1, <2>1, SameStays, UnmovedPointers
  <1> QED BY <1>2, <1>3

LEMMA PrewritePointers ==
  ASSUME BufferInv, HistoryInv, OnTime, NEW t \in Threads, Prewrite(t), NEW u \in Threads
  PROVE  Pointers(u)'
  <1>1. PICK r \in Rows : r = Row(t)
    BY RequestFacts DEF Prewrite
  <1>2. /\ Cuts(r, readhis[r], writehis[r], Floors)
        /\ accesses' = accesses /\ query' = query /\ cur_row' = cur_row /\ ts' = ts
        /\ pc[t] # "cleanup"
    BY <1>1, PrewriteCuts DEF Prewrite, Requests, tsVars
  <1>3. \A s \in Rows : HasRead(u, s) => StaysAt(u, s)
    BY <1>2, ReaderRuns, CutStays
  <1>4. CASE u = t
    <2>1. NewPointer(u)
      BY <1>4, PrewriteSets DEF NewPointer
    <2> QED BY <1>2, <1>3, <1>4, <2>1, PointersFrame DEF BufferInv, HistoryInv
  <1>5. CASE u # t
    <2>1. Unmoved(u)
      BY <1>5, PrewriteSets
    <2> QED BY <1>2, <1>3, <2>1, UnmovedPointers
  <1> QED BY <1>4, <1>5

LEMMA ReadPointers ==
  ASSUME BufferInv, HistoryInv, OnTime, NEW t \in Threads, ReadRow(t), NEW u \in Threads
  PROVE  Pointers(u)'
  <1>1. PICK r \in Rows : r = Row(t)
    BY RequestFacts DEF ReadRow, Reads
  <1>2. PICK R : R = readhis[r] \union {ts[t]}
    OBVIOUS
  <1>3. /\ Cuts(r, R, writehis[r], Floors) /\ Running(t)
        /\ accesses' = accesses /\ query' = query /\ ts' = ts
        /\ cur_row' = [cur_row EXCEPT ![t] = VersionAt(writehis[r], ts[t])]
        /\ pc[t] # "cleanup"
    BY <1>1, <1>2, ReadCuts DEF ReadRow, Reads, Requests, tsVars
  <1>4. \A s \in Rows : HasRead(u, s) => StaysAt(u, s)
    BY <1>3, ReaderRuns, CutStays
  <1>5. cur_row \in [Threads -> Stamp]
    BY DEF BufferInv, HistoryInv, Types
  <1>6. CASE u = t
    <2>1. NewPointer(u)
      <3>1. cur_row'[t] = VersionAt(writehis[r], ts[t])
        BY <1>3, <1>5
      <3>2. IsAt(writehis[r], ts[t], VersionAt(writehis[r], ts[t]))
        BY RowFacts, ClockFacts, Latest
      <3>3. StaysAt(t, r)
        BY <1>3, CutStays
      <3> QED BY <1>1, <1>6, <3>1, <3>2, <3>3 DEF NewPointer, StaysAt
    <2> QED BY <1>3, <1>4, <1>6, <2>1, PointersFrame DEF BufferInv, HistoryInv
  <1>7. CASE u # t
    <2>1. Unmoved(u) /\ cur_row'[u] = cur_row[u]
      BY <1>3, <1>5, <1>7, ReadSets
    <2> QED BY <1>3, <1>4, <2>1, UnmovedPointers
  <1> QED BY <1>6, <1>7

\* When t returns a write, a version is added that is later than all reads of
\* the row, and the history is cut.
LEMMA ReturnStays ==
  ASSUME BufferInv, HistoryInv, OnTime, NEW t \in Threads, ReturnRow(t),
         NEW a, a = Last(accesses[t]), a.type = "WR",
         NEW u \in Threads, pc[u] # "cleanup", NEW s \in Rows, HasRead(u, s)
  PROVE  StaysAt(u, s)
  <1>1. PICK r, W : r = a.row /\ W = Versions(t, a)
    OBVIOUS
  <1>2. r \in Rows /\ Returned(t, r, W) /\ t \in Announcers(r) /\ pc[t] = "cleanup"
    BY <1>1, ReleaseStep, ReturnedVersions, ReturnSets, ReturnFacts DEF Announcers
  <1>3. PICK R : Cuts(r, R, W, Floors)
    <2>1. CutsWith(r, W, FreedBy(t, r), Floors)
      BY <1>1, ReturnCuts
    <2> QED BY <2>1 DEF CutsWith
  <1>4. /\ \A p : IsAt(W, ts[u], p) => IsAt(writehis'[r], ts[u], p)
        /\ \A q \in Rows \ {r} : writehis'[q] = writehis[q]
    <2>1. Running(u) /\ W \in SUBSET [ts : Stamp, data : Nat]
      BY <1>2, ReaderRuns DEF Returned
    <2> QED BY <1>2, <1>3, <2>1, AfterCut
  <1>5. CASE s # r
    BY <1>4, <1>5 DEF StaysAt
  <1>6. CASE s = r
    <2>1. ASSUME NEW p, IsAt(writehis[r], ts[u], p) PROVE IsAt(W, ts[u], p)
      <3>1. CASE W = writehis[r]
        BY <2>1, <3>1
      <3>2. CASE \E new : W = writehis[r] \union {new} /\ new.ts = ts[t]
        <4>1. PICK new : W = writehis[r] \union {new} /\ new.ts = ts[t]
          BY <3>2
        <4>2. ts[u] <= ts[t]
          <5>1. u \in Readers(r)
            BY <1>6 DEF Readers
          <5> QED BY <1>2, <5>1, RowFacts DEF Reading
        <4>3. ts[u] # ts[t] /\ ts[u] \in Nat /\ ts[t] \in Nat
          BY <1>2, ClockFacts
        <4>4. writehis[r] \in SUBSET [ts : Stamp, data : Nat]
          BY <1>2, RowFacts
        <4> QED BY <2>1, <4>1, <4>2, <4>3, <4>4, IsAtAdd
      <3> QED BY <1>2, <3>1, <3>2 DEF Returned
    <2> QED BY <1>4, <1>6, <2>1 DEF StaysAt
  <1> QED BY <1>5, <1>6

LEMMA ReturnPointers ==
  ASSUME BufferInv, HistoryInv, OnTime, NEW t \in Threads, ReturnRow(t), NEW u \in Threads
  PROVE  Pointers(u)'
  <1>1. PICK a : a = Last(accesses[t])
    OBVIOUS
  <1>2. /\ pc[t] = "cleanup" /\ pc' = pc /\ query' = query /\ ts' = ts
        /\ accesses' = [accesses EXCEPT ![t] = Front(accesses[t])]
    BY ReturnFacts
  <1>3. CASE u = t
    BY <1>2, <1>3, NoPointers
  <1>4. CASE u # t /\ a.type # "WR"
    <2>1. writehis' = writehis /\ cur_row' = cur_row /\ ts_ready' = ts_ready
      BY <1>1, <1>4 DEF ReturnRow, rowVars
    <2>2. Unmoved(u)
      BY <1>1, <1>2, <1>4, <2>1, ReturnSets DEF Unmoved
    <2> QED BY <1>2, <2>1, <2>2, SameStays, UnmovedPointers
  <1>5. CASE u # t /\ a.type = "WR"
    <2>1. PICK r, W, rel : r = a.row /\ W = Versions(t, a) /\ rel = FreedBy(t, r)
      OBVIOUS
    <2>2. /\ r \in Rows /\ rel \in SUBSET Waiters(r) /\ Releasing(t, r, W, rel)
          /\ Returned(t, r, W) /\ CutsWith(r, W, rel, Floors)
      BY <1>1, <1>5, <2>1, ReleaseStep, ReturnCuts, ReturnedVersions
    <2>3. \A s \in Rows : HasRead(u, s) /\ pc[u] # "cleanup" => StaysAt(u, s)
      BY <1>1, <1>5, ReturnStays
    <2>4. accesses'[u] = accesses[u] /\ Row(u)' = Row(u)
      BY <1>1, <1>5, ReturnSets
    <2>5. CASE u \notin rel
      <3>1. ts_ready'[u] = ts_ready[u] /\ cur_row'[u] = cur_row[u]
        BY <2>2, <2>5 DEF Releasing
      <3>2. Unmoved(u)
        BY <1>2, <2>4, <3>1 DEF Unmoved
      <3> QED BY <1>2, <2>3, <3>1, <3>2, UnmovedPointers
    <2>6. CASE u \in rel
      <3>1. pc[u] = "spin" /\ Row(u) = r /\ cur_row'[u] = VersionAt(W, ts[u])
        BY <2>2, <2>6 DEF Waiters, Waits, Releasing
      <3>2. NewPointer(u)
        <4>1. PICK R : Cuts(r, R, W, Floors)
          BY <2>2 DEF CutsWith
        <4>2. Running(u) /\ W \in SUBSET [ts : Stamp, data : Nat] /\ ts[u] \in Nat
          BY <2>2, <3>1, ClockFacts DEF Running, Returned
        <4>3. IsAt(W, ts[u], VersionAt(W, ts[u]))
          BY <4>2, Latest
        <4>4. IsAt(writehis'[r], ts[u], VersionAt(W, ts[u]))
          BY <2>2, <4>1, <4>2, <4>3, AfterCut
        <4> QED BY <3>1, <4>4 DEF NewPointer
      <3> QED BY <1>2, <2>3, <2>4, <3>2, PointersFrame DEF BufferInv, HistoryInv
    <2> QED BY <2>5, <2>6
  <1> QED BY <1>3, <1>4, <1>5

------------------------------------------------------------------------------
(***************************************************************************)
(* What the threads have seen                                              *)
(***************************************************************************)

LEMMA SeenFrame ==
  ASSUME NEW u \in Threads, Seen(u), committed' = committed,
         accesses'[u] = <<>> \/ (accesses'[u] = accesses[u] /\ ts'[u] = ts[u])
  PROVE  Seen(u)'
  <1>1. CASE accesses'[u] = <<>>
    <2>1. 1..Len(accesses'[u]) = {}
      BY <1>1
    <2> QED BY <2>1 DEF Seen
  <1>2. CASE accesses'[u] = accesses[u] /\ ts'[u] = ts[u]
    BY <1>2 DEF Seen
  <1> QED BY <1>1, <1>2

\* A transaction commits after everything that has been read before it.
LEMMA FinishSeen ==
  ASSUME BufferInv, HistoryInv, NEW t \in Threads, FinishTxn(t), NEW u \in Threads
  PROVE  Seen(u)'
  <1>1. /\ pc[t] = "run" /\ Len(accesses[t]) = Len(query[t]) /\ query[t] \in Queries
        /\ committed' = committed \union {Logged(t)}
        /\ Logged(t).ts = ts[t] /\ Logged(t).query = query[t]
        /\ accesses' = accesses /\ ts' = ts
    BY FinishFacts
  <1>2. ASSUME NEW k \in 1..Len(accesses[u])
        PROVE  Before(committed', accesses[u][k].row, ts[u])
                 = Before(committed, accesses[u][k].row, ts[u])
    <2>1. PICK r : r = accesses[u][k].row
      OBVIOUS
    <2>2. r \in Rows /\ u \in Readers(r)
      <3>1. r \in Rows /\ k \in DOMAIN accesses[u]
        BY <2>1, ThreadFacts DEF BufferInv, HistoryInv
      <3> QED BY <2>1, <3>1 DEF Readers, HasRead
    <2>3. ASSUME Ordered!Writes(query[t], r) PROVE ~ (ts[t] < ts[u])
      <3>1. PICK i \in 1..Len(query[t]) : query[t][i].row = r /\ query[t][i].type = "WR"
        BY <1>1, <2>3, QueryType DEF Ordered!Writes
      <3>2. accesses[t][i].row = r /\ accesses[t][i].type = "WR" /\ i \in DOMAIN accesses[t]
        BY <1>1, <3>1, ThreadFacts DEF BufferInv, HistoryInv, Progress
      <3>3. t \in Announcers(r)
        BY <3>2 DEF Announcers, Announced
      <3>4. ts[u] <= ts[t]
        BY <2>2, <3>3, RowFacts DEF Reading
      <3>5. ts[u] \in Nat /\ ts[t] \in Nat
        BY ClockFacts
      <3> QED BY <3>4, <3>5
    <2> QED BY <1>1, <2>1, <2>3 DEF Before
  <1> QED BY <1>1, <1>2 DEF BufferInv, HistoryInv, Seen

LEMMA UseSeen ==
  ASSUME BufferInv, HistoryInv, NEW t \in Threads, UseRow(t), NEW u \in Threads
  PROVE  Seen(u)'
  <1>1. /\ Granted(t) /\ accesses' = [accesses EXCEPT ![t] = Append(accesses[t], Used(t))]
        /\ ts' = ts /\ committed' = committed
    BY DEF UseRow, Granted, Used, tsVars
  <1>2. accesses \in [Threads -> Seq(AccessType)] /\ Types /\ Seen(u)
    BY DEF BufferInv, HistoryInv, Types
  <1>3. CASE u # t
    <2>1. accesses'[u] = accesses[u]
      BY <1>1, <1>2, <1>3
    <2> QED BY <1>1, <1>2, <2>1, SeenFrame
  <1>4. CASE u = t
    <2>1. accesses'[t] = Append(accesses[t], Used(t))
      BY <1>1, <1>2
    <2>2. PICK n \in Nat : n = Len(accesses[t])
      BY <1>2, ThreadFacts
    <2>3. /\ Len(Append(accesses[t], Used(t))) = n + 1
          /\ Append(accesses[t], Used(t))[n + 1] = Used(t)
          /\ \A k \in 1..n : Append(accesses[t], Used(t))[k] = accesses[t][k]
      <3>1. accesses[t] \in Seq(AccessType) /\ Used(t) \in AccessType
        BY <1>1, <1>2, UsedType
      <3> HIDE DEF AccessType
      <3> QED BY <2>2, <3>1
    <2>4. ASSUME NEW k \in 1..(n + 1)
          PROVE  accesses'[t][k].data
                   = Cardinality(Before(committed', accesses'[t][k].row, ts'[t]))
      <3>1. CASE k = n + 1
        <4>1. accesses'[t][k] = Used(t) /\ Used(t).row = Row(t)
          BY <2>1, <2>3, <3>1 DEF Used
        <4>2. Used(t).data = Cardinality(Before(committed, Row(t), ts[t]))
          BY <1>1, UseFacts
        <4> QED BY <1>1, <4>1, <4>2
      <3>2. CASE k \in 1..n
        <4>1. accesses'[t][k] = accesses[t][k]
          BY <2>1, <2>3, <3>2
        <4>2. accesses[t][k].data = Cardinality(Before(committed, accesses[t][k].row, ts[t]))
          BY <1>2, <1>4, <2>2, <3>2 DEF Seen
        <4> QED BY <1>1, <4>1, <4>2
      <3> QED BY <3>1, <3>2
    <2> QED BY <1>4, <2>1, <2>3, <2>4 DEF Seen
  <1> QED BY <1>3, <1>4

LEMMA ReturnSeen ==
  ASSUME BufferInv, HistoryInv, NEW t \in Threads, ReturnRow(t), NEW u \in Threads
  PROVE  Seen(u)'
  <1>1. accesses \in [Threads -> Seq(AccessType)] /\ Types /\ Seen(u)
    BY DEF BufferInv, HistoryInv, Types
  <1>2. /\ Len(Front(accesses[t])) = Len(accesses[t]) - 1
        /\ \A i \in 1..(Len(accesses[t]) - 1) : Front(accesses[t])[i] = accesses[t][i]
        /\ accesses' = [accesses EXCEPT ![t] = Front(accesses[t])]
        /\ ts' = ts /\ committed' = committed
    BY ReturnFacts
  <1>3. CASE u # t
    <2>1. accesses'[u] = accesses[u]
      BY <1>1, <1>2, <1>3
    <2> QED BY <1>1, <1>2, <2>1, SeenFrame
  <1>4. CASE u = t
    <2>1. accesses'[t] = Front(accesses[t]) /\ Len(accesses[t]) \in Nat
      BY <1>1, <1>2, ThreadFacts
    <2>2. \A k \in 1..Len(accesses'[t]) : k \in 1..Len(accesses[t])
                                          /\ accesses'[t][k] = accesses[t][k]
      BY <1>2, <2>1
    <2> QED BY <1>1, <1>2, <1>4, <2>2 DEF Seen
  <1> QED BY <1>3, <1>4

------------------------------------------------------------------------------
(***************************************************************************)
(* The invariant holds                                                     *)
(***************************************************************************)

\* The timestamp that the run begins with is past all that were registered.
LEMMA FirstTimestamp ==
  ASSUME Init
  PROVE  /\ timestamp \in 1..UINT64_MAX /\ FirstTs \in Stamps
         /\ \A t \in Threads : FirstTs[t] < timestamp \/ FirstTs[t] = UINT64_MAX
  <1>1. /\ MAX_TS \in Nat /\ UINT64_MAX = MAX_TS + 1 /\ FirstTs \in [Threads -> 1..UINT64_MAX]
        /\ \A t \in Threads : FirstTs[t] \in 1..UINT64_MAX
    BY ConfigAssumption, FirstTsAssumption DEF UINT64_MAX
  <1> DEFINE After(n) == \A t \in Threads : FirstTs[t] # UINT64_MAX => FirstTs[t] < n
             S == {n \in 1..UINT64_MAX : After(n)}
             OK(n) == After(n) /\ (n = 1 \/ \E t \in Threads : FirstTs[t] = n - 1)
  <1>3. S \in SUBSET (0..UINT64_MAX) /\ S # {} /\ UINT64_MAX \in Nat
    <2>1. UINT64_MAX \in S
      BY <1>1
    <2> QED BY <1>1, <2>1
  <1>4. PICK n \in S : \A k \in S : n <= k
    <2> HIDE DEF S
    <2> QED BY <1>3, LeastFacts
  <1>5. OK(n)
    <2> SUFFICES ASSUME n # 1 PROVE \E t \in Threads : FirstTs[t] = n - 1
      BY <1>4
    <2>1. n \in 2..UINT64_MAX /\ n - 1 \in 1..UINT64_MAX
      BY <1>1, <1>4
    <2>2. n - 1 \notin S
      BY <1>4, <2>1
    <2>3. PICK t \in Threads : FirstTs[t] # UINT64_MAX /\ ~ (FirstTs[t] < n - 1)
      BY <2>1, <2>2
    <2>4. FirstTs[t] < n /\ FirstTs[t] \in Nat
      BY <1>1, <1>4, <2>3
    <2> QED BY <2>1, <2>3, <2>4
  <1>6. timestamp = CHOOSE m \in 1..UINT64_MAX : OK(m)
    BY DEF Init
  <1>7. n \in 1..UINT64_MAX
    BY <1>4
  <1>8. timestamp \in 1..UINT64_MAX /\ OK(timestamp)
    <2> HIDE DEF OK
    <2> QED BY <1>5, <1>6, <1>7
  <1> QED BY <1>1, <1>8 DEF Stamps

LEMMA InitInv ==
  ASSUME Init
  PROVE  BufferInv /\ HistoryInv
  <1>1. /\ timestamp \in 1..UINT64_MAX /\ FirstTs \in Stamps
        /\ \A t \in Threads : FirstTs[t] < timestamp \/ FirstTs[t] = UINT64_MAX
    BY FirstTimestamp
  <1>2. /\ all_ts = FirstTs /\ ts = FirstTs /\ committed = {}
        /\ \A t \in Threads : /\ pc[t] = "idle" /\ accesses[t] = <<>> /\ query[t] = <<>>
                              /\ rc[t] = "RCOK"
        /\ \A r \in Rows : /\ prereq[r] = {} /\ readreq[r] = {} /\ readhis[r] = {}
                           /\ writehis[r] = {} /\ base[r] = 0
    BY DEF Init
  <1>3. Types
    <2>1. 0 \in Stamp /\ <<>> \in Seq(AccessType)
      BY ConfigAssumption DEF Stamp, UINT64_MAX
    <2> QED BY <1>1, <1>2, <2>1 DEF Init, Types, PC
  <1>4. Clock
    <2>1. \A t \in Threads : FirstTs[t] \in Nat
      BY <1>1, ConfigAssumption DEF Stamps, UINT64_MAX
    <2> QED BY <1>1, <1>2, <2>1, FirstTsAssumption DEF Clock
  <1>5. Log
    BY <1>2, FS_EmptySet DEF Log
  <1>6. ASSUME NEW t \in Threads PROVE Progress(t) /\ Pointers(t) /\ Seen(t)
    <2>1. Len(accesses[t]) = 0 /\ Len(query[t]) = 0 /\ 1..Len(accesses[t]) = {} /\ ~ Granted(t)
      BY <1>2 DEF Granted
    <2> QED BY <1>2, <2>1 DEF Progress, Pointers, Seen
  <1>7. ASSUME NEW r \in Rows PROVE Buffered(r) /\ RowInv(r)
    <2>1. ASSUME NEW t \in Threads PROVE ~ Announced(t, r) /\ ~ HasRead(t, r) /\ ~ Waits(t, r)
      <3>1. DOMAIN accesses[t] = {} /\ pc[t] = "idle"
        BY <1>2
      <3> QED BY <3>1 DEF Announced, HasRead, Waits, Granted
    <2>2. Announcers(r) = {} /\ Readers(r) = {} /\ Waiters(r) = {}
      BY <2>1 DEF Announcers, Readers, Waiters
    <2>3. MAX_TS \in Nat
      BY ConfigAssumption
    <2>4. Buffered(r)
      BY <1>2, <2>2 DEF Buffered, Buffers
    <2>5. RowInv(r)
      BY <1>2, <2>2, <2>3 DEF RowInv, Reading, Writing
    <2> QED BY <2>4, <2>5
  <1> QED BY <1>3, <1>4, <1>5, <1>6, <1>7 DEF BufferInv, HistoryInv

\* What the types, the clock and the log say holds after every step, ...
LEMMA CoreStep ==
  ASSUME BufferInv, NEW t \in Threads, Step(t)
  PROVE  Core'
  BY StartCore, AddCore, PrewriteCore, AbortCore, ReadCore, WaitCore, UseCore, FinishCore,
     ReturnCore, EndsCore DEF Step

\* ... and so do the buffers, ...
LEMMA BufferStep ==
  ASSUME BufferInv, NEW t \in Threads, Step(t)
  PROVE  BufferInv'
  <1>1. ASSUME NEW r \in Rows PROVE Buffered(r)'
    BY StartBuffers, PrewriteBuffers, QuietBuffers, ReadBuffers, WaitBuffers, ReturnBuffers
       DEF Step
  <1> QED BY <1>1, CoreStep DEF BufferInv, Core

\* ... and what history is kept, if the step is in time.
LEMMA HistoryStep ==
  ASSUME BufferInv, HistoryInv, OnTime, NEW t \in Threads, Step(t)
  PROVE  HistoryInv'
  <1>1. Core'
    BY CoreStep
  <1>2. ASSUME NEW u \in Threads PROVE Pointers(u)'
    BY StartPointers, PrewritePointers, QuietPointers, ReadPointers, WaitPointers, UsePointers,
       ReturnPointers DEF Step
  <1>3. ASSUME NEW u \in Threads PROVE Seen(u)'
    <2>1. Seen(u) /\ accesses \in [Threads -> Seq(AccessType)] /\ ts \in Stamps
      BY DEF BufferInv, HistoryInv, Types
    <2>2. CASE StartTxn(t) \/ add_ts(t)
      <3>1. committed' = committed /\ accesses' = accesses
        BY <2>2 DEF StartTxn, add_ts
      <3>2. u = t => accesses[u] = <<>>
        BY <2>2 DEF StartTxn, add_ts, BufferInv, Progress
      <3>3. u # t => ts'[u] = ts[u]
        BY <2>1, <2>2 DEF StartTxn, add_ts, Stamps
      <3> QED BY <2>1, <3>1, <3>2, <3>3, SeenFrame
    <2>3. CASE Prewrite(t) \/ PrewriteAborts(t) \/ ReadRow(t) \/ ReadWaits(t) \/ TxnEnds(t)
      <3>1. committed' = committed /\ accesses' = accesses /\ ts' = ts
        BY <2>3 DEF Prewrite, PrewriteAborts, ReadRow, ReadWaits, TxnEnds, tsVars
      <3> QED BY <2>1, <3>1, SeenFrame
    <2> QED BY <2>2, <2>3, UseSeen, FinishSeen, ReturnSeen DEF Step
  <1>4. ASSUME NEW r \in Rows PROVE RowInv(r)'
    BY <1>1, StartRows, PrewriteRows, QuietRows, ReadRows, WaitRows, FinishRows, ReturnRows
       DEF Step
  <1> QED BY <1>2, <1>3, <1>4 DEF HistoryInv

LEMMA StutterInv ==
  ASSUME BufferInv, UNCHANGED vars
  PROVE  BufferInv' /\ (HistoryInv => HistoryInv')
  <1>1. /\ UNCHANGED <<timestamp, all_ts, ts, readreq, prereq, readhis, writehis, base,
                       ts_ready, cur_row, query, accesses, rc, pc, committed>>
    BY DEF vars, tsVars, rowVars
  <1>2. Types' /\ Clock' /\ Log'
    BY <1>1 DEF BufferInv, Types, Clock, Log, Registering
  <1>3. ASSUME NEW u \in Threads
        PROVE  Unmoved(u) /\ Progress(u)' /\ (HistoryInv => Pointers(u)' /\ Seen(u)')
    <2>1. Unmoved(u) /\ Progress(u) /\ (HistoryInv => Seen(u))
      BY <1>1 DEF BufferInv, HistoryInv, Unmoved
    <2> QED BY <1>1, <2>1, ProgressFrame, SameStays, UnmovedPointers, SeenFrame
  <1>4. ASSUME NEW r \in Rows PROVE Buffered(r)' /\ (HistoryInv => RowInv(r)')
    <2>1. BuffersSame(r) /\ RowSame(r) /\ \A u \in Threads : SameTo(u, r)
      BY <1>1, <1>3, OthersSame DEF BuffersSame, RowSame
    <2> QED BY <1>1, <2>1, OtherBuffers, OtherRow
  <1> QED BY <1>2, <1>3, <1>4 DEF BufferInv, HistoryInv

LEMMA BufferNext == BufferInv /\ [Next]_vars => BufferInv'
  BY BufferStep, StutterInv DEF Next, Terminated

LEMMA NextInv == IInv /\ [Next /\ OnTime]_vars => IInv'
  BY BufferStep, HistoryStep, StutterInv DEF Next, Terminated, IInv

\* From any start, and whatever history is cut: the clock, the log and the
\* buffered requests of every row are what the transactions make them.
THEOREM BufferInductive == Spec => []BufferInv
  <1>1. Init => BufferInv
    BY InitInv
  <1> QED BY <1>1, BufferNext, PTL DEF Spec

\* From any start, the whole invariant is inductive as long as no history is cut
\* while a thread has drawn its first timestamp and not registered it.
THEOREM Inductive == OnTimeSpec => []IInv
  <1>1. Init => IInv
    BY InitInv DEF IInv
  <1> QED BY <1>1, NextInv, PTL DEF OnTimeSpec

\* Every thread has registered a timestamp before the run begins, as it has
\* after a warm-up.
Warmed == \A t \in Threads : FirstTs[t] # UINT64_MAX

\* After a warm-up no history is ever cut too early.
THEOREM WarmOnTime ==
  ASSUME Warmed
  PROVE  Spec => OnTimeSpec
  <1> DEFINE WInv == BufferInv /\ \A t \in Threads : all_ts[t] # UINT64_MAX
  <1>1. Init => WInv
    BY InitInv DEF Warmed, Init
  <1>2. WInv /\ [Next]_vars => WInv'
    <2> SUFFICES ASSUME WInv, [Next]_vars, NEW u \in Threads PROVE all_ts'[u] # UINT64_MAX
      BY BufferNext
    <2>1. CASE \E t \in Threads : add_ts(t)
      <3>1. PICK t \in Threads : add_ts(t)
        BY <2>1
      <3>2. all_ts' = [all_ts EXCEPT ![t] = ts[t]] /\ all_ts \in Stamps /\ ts[t] # UINT64_MAX
        <4>1. pc[t] = "begin" /\ ts[t] \in Nat
          BY <3>1, ClockFacts DEF add_ts
        <4>2. ts[t] < timestamp /\ timestamp <= UINT64_MAX /\ timestamp \in Nat
              /\ UINT64_MAX \in Nat
          BY <4>1, ClockFacts
        <4> QED BY <3>1, <4>1, <4>2, ClockFacts DEF add_ts
      <3> QED BY <3>2 DEF Stamps
    <2>2. CASE ~ \E t \in Threads : add_ts(t)
      <3>1. all_ts' = all_ts
        BY <2>2 DEF Next, Step, StartTxn, Prewrite, PrewriteAborts, ReadRow, ReadWaits, UseRow,
                    FinishTxn, ReturnRow, TxnEnds, Terminated, vars, tsVars
      <3> QED BY <3>1
    <2> QED BY <2>1, <2>2
  <1>3. WInv /\ [Next]_vars => [Next /\ OnTime]_vars
    BY DEF OnTime, Registering
  <1> HIDE DEF WInv
  <1> QED BY <1>1, <1>2, <1>3, PTL DEF Spec, OnTimeSpec

------------------------------------------------------------------------------
(***************************************************************************)
(* What follows from it                                                    *)
(***************************************************************************)

\* Every variable has the type of its field: no transaction gets a value from a
\* version that is gone, and values count writes, so no counter outruns the
\* timestamps.
THEOREM TypeCorrect == OnTimeSpec => []TypeOK
  <1>1. IInv => TypeOK
    <2> SUFFICES ASSUME BufferInv, HistoryInv PROVE TypeOK
      BY DEF IInv
    <2>1. /\ Types /\ MAX_TS \in Nat /\ UINT64_MAX = MAX_TS + 1
          /\ \A n \in 1..UINT64_MAX : n \in Stamp
      BY ConfigAssumption DEF BufferInv, Stamp, UINT64_MAX
    <2>2. \A r \in Rows : writehis[r] \subseteq [ts : Stamp, data : 0..MAX_TS]
      <3> TAKE r \in Rows
      <3>1. \A v \in writehis[r] : v \in [ts : Stamp, data : Nat] /\ v.data \in 0..MAX_TS
        BY DataBound, RowFacts
      <3> QED BY <3>1
    <2>3. base \in [Rows -> 0..MAX_TS]
      <3>1. \A r \in Rows : base[r] \in 0..MAX_TS
        BY RowFacts DEF Writing
      <3> QED BY <2>1, <3>1 DEF Types
    <2>4. accesses \in [Threads ->
            Seq([row : Rows, type : {"RD", "WR"}, version : Stamp, data : 0..MAX_TS])]
      <3> DEFINE A == [row : Rows, type : {"RD", "WR"}, version : Stamp, data : 0..MAX_TS]
      <3>1. ASSUME NEW t \in Threads PROVE accesses[t] \in Seq(A)
        <4>1. PICK n \in Nat : n = Len(accesses[t]) /\ DOMAIN accesses[t] = 1..n
                               /\ accesses[t] \in Seq(AccessType)
          BY <2>1, ThreadFacts
        <4>2. ASSUME NEW k \in 1..n PROVE accesses[t][k] \in A
          <5>1. accesses[t][k] \in AccessType
            BY <4>1
          <5>2. accesses[t][k].data = Cardinality(Before(committed, accesses[t][k].row, ts[t]))
            BY <4>1 DEF HistoryInv, Seen
          <5>3. Cardinality(Before(committed, accesses[t][k].row, ts[t])) < ts[t]
            BY LogFacts, ClockFacts, FewBefore
          <5>4. ts[t] \in 1..UINT64_MAX
            BY <2>1 DEF Types, Stamps
          <5>5. accesses[t][k].data \in Nat
            BY <5>1 DEF AccessType
          <5>6. accesses[t][k].data \in 0..MAX_TS
            BY <2>1, <5>2, <5>3, <5>4, <5>5
          <5> QED BY <5>1, <5>6 DEF AccessType
        <4> HIDE DEF A
        <4> QED BY <4>1, <4>2
      <3> HIDE DEF A
      <3>2. accesses \in [Threads -> Seq(A)]
        BY <2>1, <3>1 DEF Types
      <3> QED BY <3>2 DEF A
    <2>5. all_ts \in [Threads -> Stamp] /\ ts \in [Threads -> Stamp]
      BY <2>1 DEF Types, Stamps
    <2> QED BY <2>1, <2>2, <2>3, <2>4, <2>5 DEF Types, TypeOK
  <1> QED BY <1>1, Inductive, PTL

\* The version that a running transaction reads is not recycled, whatever the
\* others write and cut off meanwhile (row_mvcc.cpp:281-299).
THEOREM VersionsAlwaysKept == OnTimeSpec => []VersionsKept
  <1>1. IInv => VersionsKept
    <2> SUFFICES ASSUME BufferInv, HistoryInv, NEW t \in Threads, NEW i \in DOMAIN accesses[t],
                        pc[t] # "cleanup"
                 PROVE  Deref(accesses[t][i].row, accesses[t][i].version) = accesses[t][i].data
      BY DEF VersionsKept, IInv
    <2>1. i \in 1..Len(accesses[t]) /\ accesses[t][i].row \in Rows
      BY ThreadFacts DEF BufferInv
    <2>2. HasRead(t, accesses[t][i].row)
      BY DEF HasRead
    <2>3. pc[t] \notin {"idle", "cleanup", "begin"}
      BY <2>2, ReaderRuns
    <2>4. IsAt(writehis[accesses[t][i].row], ts[t], accesses[t][i].version)
      BY <2>1 DEF HistoryInv, Pointers
    <2>5. Deref(accesses[t][i].row, accesses[t][i].version)
            = Cardinality(Before(committed, accesses[t][i].row, ts[t]))
      BY <2>1, <2>2, <2>3, <2>4, Value
    <2> QED BY <2>1, <2>5 DEF HistoryInv, Seen
  <1> QED BY <1>1, Inductive, PTL

\* From any start, a reader that waits, waits for a prewrite of a running
\* transaction that is before it, so the end of that one wakes it
\* (row_mvcc.cpp:310), until a timestamp past the constant is given out that
\* debuffer_req searches from.
THEOREM NoWakeupLost == Spec => [](timestamp <= PTS_BOUND + 1 => NoLostWakeup)
  <1>1. BufferInv /\ timestamp <= PTS_BOUND + 1 => NoLostWakeup
    <2> SUFFICES ASSUME BufferInv, timestamp <= PTS_BOUND + 1 PROVE NoLostWakeup
      OBVIOUS
    <2>1. ASSUME NEW r \in Rows
          PROVE  /\ prereq[r] = {[txn |-> t, ts |-> ts[t]] :
                                   t \in {u \in Threads : Announced(u, r)}}
                 /\ \A e \in readreq[r] : \E p \in prereq[r] : p.ts < e.ts
      <3>1. /\ \A e : e \in prereq[r] <=> \E t \in Announcers(r) : e = [txn |-> t, ts |-> ts[t]]
            /\ \A e : e \in readreq[r] <=> \E t \in Waiters(r) : e = [txn |-> t, ts |-> ts[t]]
            /\ \A t \in Waiters(r) : ts[t] <= PTS_BOUND => \E u \in Announcers(r) : ts[u] < ts[t]
        BY QueueFacts DEF Buffers
      <3>2. prereq[r] = {[txn |-> t, ts |-> ts[t]] : t \in {u \in Threads : Announced(u, r)}}
        BY <3>1 DEF Announcers
      <3>3. ASSUME NEW e \in readreq[r] PROVE \E p \in prereq[r] : p.ts < e.ts
        <4>1. PICK t \in Waiters(r) : e = [txn |-> t, ts |-> ts[t]]
          BY <3>1
        <4>2. ts[t] <= PTS_BOUND
          <5>1. t \in Threads /\ pc[t] = "spin"
            BY DEF Waiters, Waits
          <5>2. ts[t] < timestamp /\ ts[t] \in Nat /\ timestamp \in Nat /\ PTS_BOUND \in Nat
            BY <5>1, ClockFacts, ConfigAssumption
          <5> QED BY <5>2
        <4>3. PICK u \in Announcers(r) : ts[u] < ts[t]
          BY <3>1, <4>2
        <4>4. [txn |-> u, ts |-> ts[u]] \in prereq[r]
          BY <3>1
        <4> QED BY <4>1, <4>3, <4>4
      <3> QED BY <3>2, <3>3
    <2>2. ASSUME NEW t \in Threads, pc[t] = "spin", ~ ts_ready[t]
          PROVE  [txn |-> t, ts |-> ts[t]] \in readreq[Row(t)]
      <3>1. Row(t) \in Rows /\ t \in Waiters(Row(t))
        BY <2>2, RequestFacts DEF Waiters, Waits
      <3> QED BY <3>1, QueueFacts DEF Buffers
    <2> QED BY <2>1, <2>2 DEF NoLostWakeup
  <1> QED BY <1>1, BufferInductive, PTL

\* The value of a row at n is what the log has written before n.
LEMMA VersionBefore ==
  ASSUME NEW n, NEW r
  PROVE  Ordered!Version(n, r) = Cardinality(Before(committed, r, n))
  <1>1. \A S : Ordered!Cardinality(S) = Cardinality(S)
    BY DEF Ordered!Cardinality, Cardinality
  <1> QED BY <1>1 DEF Ordered!Version, Before

\* FinishTxn commits at its timestamp, unless a later transaction has read what
\* it writes, and has seen what was written before.
LEMMA FinishCommits ==
  ASSUME BufferInv, HistoryInv, NEW t \in Threads, FinishTxn(t)
  PROVE  Ordered!Next
  <1>1. /\ pc[t] = "run" /\ Len(accesses[t]) = Len(query[t]) /\ query[t] \in Queries
        /\ committed' = committed \union {Logged(t)}
    BY FinishFacts
  <1>2. \A c \in committed : c.ts # ts[t]
    BY <1>1, NotLogged
  <1>3. /\ DOMAIN query[t] = DOMAIN accesses[t] /\ DOMAIN query[t] = 1..Len(accesses[t])
        /\ \A i \in DOMAIN query[t] : /\ accesses[t][i].row = query[t][i].row
                                      /\ accesses[t][i].type = query[t][i].type
                                      /\ query[t][i].row \in Rows
    BY <1>1, QueryType, ThreadFacts DEF BufferInv, HistoryInv, Progress
  <1>4. ASSUME NEW c \in committed, NEW i \in DOMAIN query[t], query[t][i].type = "WR",
               Ordered!Touches(c.query, query[t][i].row)
        PROVE  c.ts < ts[t]
    <2>1. PICK r \in Rows : r = query[t][i].row
      BY <1>3
    <2>2. t \in Announcers(r)
      BY <1>3, <1>4, <2>1 DEF Announcers, Announced
    <2>3. c.ts \in readhis[r] \/ Over(Floors, c.ts)
      BY <1>4, <2>1, RowFacts DEF Reading
    <2>4. c.ts \in readhis[r] => c.ts <= ts[t]
      BY <2>2, RowFacts DEF Reading
    <2>5. Over(Floors, c.ts) => c.ts < Floors[t]
      BY DEF Over
    <2>6. c.ts # ts[t] /\ c.ts \in Nat /\ ts[t] \in Nat /\ Floors[t] \in Nat /\ Floors[t] <= ts[t]
      BY <1>2, LogFacts, ClockFacts
    <2> QED BY <2>3, <2>4, <2>5, <2>6
  <1>5. Logged(t) = [ts |-> ts[t], query |-> query[t],
                     saw |-> [i \in DOMAIN query[t] |-> Ordered!Version(ts[t], query[t][i].row)]]
    <2>1. \A i \in DOMAIN query[t] :
            accesses[t][i].data = Ordered!Version(ts[t], query[t][i].row)
      BY <1>3, VersionBefore DEF BufferInv, HistoryInv, Seen
    <2>2. [i \in DOMAIN accesses[t] |-> accesses[t][i].data]
            = [i \in DOMAIN query[t] |-> Ordered!Version(ts[t], query[t][i].row)]
      BY <1>3, <2>1
    <2> QED BY <2>2 DEF Logged
  <1>6. Ordered!Commit(ts[t], query[t])
    BY <1>1, <1>2, <1>4, <1>5 DEF Ordered!Commit
  <1>7. ts[t] \in Stamp
    BY ClockFacts
  <1> QED BY <1>1, <1>6, <1>7 DEF Ordered!Next

\* Committed transactions are serial in the order of their timestamps, also
\* when they read versions older than what others have written meanwhile:
\* RowMVCC implements TimestampStore.
THEOREM Refinement == OnTimeSpec => TimestampOrder
  <1>1. Init => Ordered!Init
    BY DEF Init, Ordered!Init
  <1>2. IInv /\ [Next /\ OnTime]_vars => [Ordered!Next]_committed
    <2> SUFFICES ASSUME IInv, [Next]_vars PROVE Ordered!Next \/ committed' = committed
      OBVIOUS
    <2>1. ASSUME NEW t \in Threads, Step(t), ~ FinishTxn(t) PROVE committed' = committed
      BY <2>1 DEF Step, StartTxn, add_ts, Prewrite, PrewriteAborts, ReadRow, ReadWaits, UseRow,
                  ReturnRow, TxnEnds
    <2>2. UNCHANGED vars => committed' = committed
      BY DEF vars
    <2> QED BY <2>1, <2>2, FinishCommits DEF Next, Terminated, Step, IInv
  <1> QED BY <1>1, <1>2, Inductive, PTL DEF OnTimeSpec, TimestampOrder, Ordered!Spec

------------------------------------------------------------------------------
(***************************************************************************)
(* The minimum of the active timestamps                                    *)
(*                                                                         *)
(* RowMVCC lets get_min_ts return anything up to the least entry of        *)
(* all_ts.  MinTs has how it is found, by scans without a latch, with      *)
(* variables of its own; that the value is safe is proved here.            *)
(*                                                                         *)
(* No transaction of a thread, now or later, is older than its Floor,      *)
(* which only grows.  A scan that reads an entry has a minimum below that  *)
(* floor from then on; the entry of a thread without a transaction says    *)
(* nothing, but that thread will draw a timestamp after the scanning       *)
(* transaction's, whose own entry the scan reads as well.                  *)
(***************************************************************************)
VARIABLES
  clock,     \* the next timestamp
  entries,   \* thread -> its entry in all_ts
  last,      \* the last minimum
  stamps,    \* thread -> the timestamp of its transaction
  least,     \* thread -> the minimum so far of its scan
  next,      \* thread -> the next entry it reads
  answer,    \* thread -> what its last get_min_ts returned
  place      \* thread -> where it is

Scan == INSTANCE MinTs WITH timestamp <- clock, all_ts <- entries, min_ts <- last,
                           ts <- stamps, min <- least, i <- next, t_th <- answer,
                           pc <- place

\* The threads are numbered from 0, as ThreadsAssumption of MinTs has it.
ThreadsNumbered ==
  IsFiniteSet(Threads) /\ Threads # {} /\ Threads = 0..Cardinality(Threads) - 1

MinTypes ==
  /\ clock \in 0..Scan!UINT64_MAX /\ last \in Nat
  /\ entries \in [Threads -> 0..Scan!UINT64_MAX] /\ stamps \in [Threads -> 0..Scan!UINT64_MAX]
  /\ least \in [Threads -> Nat] /\ answer \in [Threads -> Nat]
  /\ next \in [Threads -> 0..Cardinality(Threads)]
  /\ place \in [Threads -> Scan!PC]

\* A thread's entry is its timestamp, or an older one until it registers, or
\* none before its first transaction.
EntryInv ==
  \A u \in Threads : /\ stamps[u] < clock \/ (stamps[u] = Scan!UINT64_MAX /\ place[u] = "idle")
                     /\ entries[u] <= stamps[u] \/ Scan!Registering(u)
                     /\ place[u] # "begin" => entries[u] = stamps[u]

\* What thread u has registered, what it has drawn, or what it will draw.
Floor(u) == IF entries[u] # Scan!UINT64_MAX THEN entries[u]
            ELSE IF stamps[u] # Scan!UINT64_MAX THEN stamps[u] ELSE clock

\* Every minimum is below the floors of the threads it is the minimum of, and a
\* scan that passes its own entry is below its own timestamp.
Reached(t, u) ==
  place[t] = "scan" /\ u < next[t] => /\ least[t] <= Floor(u) \/ stamps[t] <= Floor(u)
                                      /\ u = t => least[t] <= stamps[t]

BelowInv ==
  \A u \in Threads : /\ last <= Floor(u)
                     /\ \A t \in Threads : answer[t] <= Floor(u) /\ Reached(t, u)

MinInv == MinTypes /\ EntryInv /\ BelowInv

LEMMA Numbers ==
  ASSUME ThreadsNumbered
  PROVE  /\ Cardinality(Threads) \in Nat /\ Threads = 0..Cardinality(Threads) - 1
         /\ Scan!UINT64_MAX \in Nat \ {0}
  BY ConfigAssumption, FS_CardinalityType DEF ThreadsNumbered, Scan!UINT64_MAX

LEMMA MinFloor ==
  ASSUME MinTypes, EntryInv, ThreadsNumbered, NEW u \in Threads
  PROVE  /\ Floor(u) \in Nat /\ stamps[u] \in Nat /\ entries[u] \in Nat /\ clock \in Nat
         /\ Floor(u) <= clock /\ Floor(u) <= entries[u]
         /\ place[u] # "idle" => Floor(u) <= stamps[u] /\ stamps[u] < clock
         /\ place[u] \notin {"idle", "begin"} => Floor(u) = stamps[u]
  <1>1. /\ clock \in Nat /\ clock <= Scan!UINT64_MAX /\ stamps[u] \in Nat /\ entries[u] \in Nat
        /\ stamps[u] <= Scan!UINT64_MAX /\ entries[u] <= Scan!UINT64_MAX
        /\ Scan!UINT64_MAX \in Nat
    BY Numbers DEF MinTypes
  <1>2. /\ stamps[u] < clock \/ (stamps[u] = Scan!UINT64_MAX /\ place[u] = "idle")
        /\ entries[u] <= stamps[u] \/ (place[u] = "begin" /\ entries[u] = Scan!UINT64_MAX)
        /\ place[u] # "begin" => entries[u] = stamps[u]
    BY DEF EntryInv, Scan!Registering
  <1> QED BY <1>1, <1>2 DEF Floor

LEMMA MinInit == ASSUME ThreadsNumbered PROVE Scan!Init => MinInv
  <1> SUFFICES ASSUME Scan!Init PROVE MinInv
    OBVIOUS
  <1>1. MinTypes
    BY Numbers, FirstTsAssumption, ConfigAssumption
       DEF Scan!Init, MinTypes, Scan!PC, Scan!UINT64_MAX, UINT64_MAX
  <1>2. EntryInv
    BY Numbers, FirstTsAssumption, ConfigAssumption
       DEF Scan!Init, EntryInv, Scan!UINT64_MAX, UINT64_MAX
  <1>3. BelowInv
    <2>1. last = 0 /\ \A t \in Threads : answer[t] = 0 /\ place[t] = "idle"
      BY DEF Scan!Init
    <2>2. \A u \in Threads : 0 <= Floor(u)
      BY <1>1, <1>2, MinFloor
    <2> QED BY <2>1, <2>2 DEF BelowInv, Reached
  <1> QED BY <1>1, <1>2, <1>3 DEF MinInv

LEMMA MinFloorNext ==
  ASSUME ThreadsNumbered, NEW u \in Threads
  PROVE  MinTypes' /\ EntryInv' => (Floor(u) \in Nat)'
  <1>1. MinTypes /\ EntryInv => Floor(u) \in Nat
    BY MinFloor
  <1> QED BY <1>1, PTL

\* While nothing is scanned, it is enough that the floors grow.
LEMMA FloorsRise ==
  ASSUME ThreadsNumbered, MinTypes, EntryInv, BelowInv, MinTypes', EntryInv',
         last' = last, answer' = answer, least' = least, next' = next,
         \A u \in Threads : place'[u] = "scan" => place[u] = "scan" /\ stamps'[u] = stamps[u],
         \A u \in Threads : Floor(u) <= Floor(u)'
  PROVE  BelowInv'
  <1>1. ASSUME NEW u \in Threads PROVE Floor(u) \in Nat /\ Floor(u)' \in Nat
    BY MinFloor, MinFloorNext
  <1>2. /\ last \in Nat
        /\ \A t \in Threads : answer[t] \in Nat /\ least[t] \in Nat /\ stamps[t] \in Nat
    BY Numbers DEF MinTypes
  <1>3. ASSUME NEW u \in Threads, NEW t \in Threads
        PROVE  last' <= Floor(u)' /\ answer'[t] <= Floor(u)'
    BY <1>1, <1>2 DEF BelowInv
  <1>4. ASSUME NEW u \in Threads, NEW t \in Threads PROVE Reached(t, u)'
    <2> SUFFICES ASSUME place'[t] = "scan", u < next'[t]
                 PROVE  /\ least'[t] <= Floor(u)' \/ stamps'[t] <= Floor(u)'
                        /\ u = t => least'[t] <= stamps'[t]
      BY DEF Reached
    <2>1. place[t] = "scan" /\ u < next[t] /\ stamps'[t] = stamps[t]
      OBVIOUS
    <2>2. /\ least[t] <= Floor(u) \/ stamps[t] <= Floor(u)
          /\ u = t => least[t] <= stamps[t]
      BY <2>1 DEF BelowInv, Reached
    <2> QED BY <1>1, <1>2, <2>1, <2>2
  <1> QED BY <1>3, <1>4 DEF BelowInv

LEMMA MinNext ==
  ASSUME ThreadsNumbered
  PROVE  MinInv /\ [Scan!Next /\ Scan!OnTime]_(Scan!vars) => MinInv'
  <1> SUFFICES ASSUME MinTypes, EntryInv, BelowInv, [Scan!Next /\ Scan!OnTime]_(Scan!vars)
               PROVE  MinInv'
    BY DEF MinInv
  <1>0. /\ Cardinality(Threads) \in Nat /\ Scan!UINT64_MAX \in Nat \ {0} /\ MAX_TS \in Nat
        /\ Scan!UINT64_MAX = MAX_TS + 1
    BY Numbers, ConfigAssumption DEF Scan!UINT64_MAX
  <1>1. ASSUME NEW t \in Threads, Scan!get_ts(t) PROVE MinInv'
    <2>0. /\ place[t] = "idle" /\ clock <= MAX_TS /\ clock \in Nat /\ clock' = clock + 1
          /\ stamps' = [stamps EXCEPT ![t] = clock] /\ place' = [place EXCEPT ![t] = "begin"]
          /\ UNCHANGED <<entries, last, least, next, answer>>
      BY <1>0, <1>1 DEF MinTypes, Scan!get_ts, Scan!Goto
    <2>1. MinTypes'
      BY <1>0, <2>0 DEF MinTypes, Scan!PC
    <2>2. EntryInv'
      <3>1. entries[t] = stamps[t] /\ (stamps[t] < clock \/ stamps[t] = Scan!UINT64_MAX)
        BY <2>0 DEF EntryInv
      <3>2. stamps'[t] = clock /\ place'[t] = "begin"
        BY <2>0 DEF MinTypes
      <3>3. \A u \in Threads \ {t} : stamps'[u] = stamps[u] /\ place'[u] = place[u]
        BY <2>0 DEF MinTypes
      <3>4. \A u \in Threads : stamps[u] \in Nat /\ entries[u] \in Nat
        BY <1>0 DEF MinTypes
      <3> QED BY <2>0, <3>1, <3>2, <3>3, <3>4 DEF EntryInv, Scan!Registering
    <2>3. BelowInv'
      <3>1. ASSUME NEW u \in Threads PROVE Floor(u) <= Floor(u)'
        <4>1. u = t => entries[u] = stamps[u] /\ stamps'[u] = clock
          BY <2>0 DEF EntryInv, MinTypes
        <4>2. u # t => stamps'[u] = stamps[u]
          BY <2>0 DEF MinTypes
        <4>3. /\ stamps[u] \in Nat /\ entries[u] \in Nat /\ clock # Scan!UINT64_MAX
              /\ stamps[u] < clock \/ stamps[u] = Scan!UINT64_MAX
          BY <1>0, <2>0 DEF MinTypes, EntryInv
        <4> QED BY <1>0, <2>0, <4>1, <4>2, <4>3 DEF Floor
      <3>2. \A u \in Threads :
              place'[u] = "scan" => place[u] = "scan" /\ stamps'[u] = stamps[u]
        BY <2>0 DEF MinTypes
      <3> QED BY <2>0, <2>1, <2>2, <3>1, <3>2, FloorsRise
    <2> QED BY <2>1, <2>2, <2>3 DEF MinInv
  <1>2. ASSUME NEW t \in Threads, Scan!add_ts(t) PROVE MinInv'
    <2>0. /\ place[t] = "begin" /\ entries' = [entries EXCEPT ![t] = stamps[t]]
          /\ place' = [place EXCEPT ![t] = "run"]
          /\ UNCHANGED <<clock, stamps, last, least, next, answer>>
      BY <1>2 DEF Scan!add_ts, Scan!Registered, Scan!Goto
    <2>1. MinTypes'
      BY <2>0 DEF MinTypes, Scan!PC
    <2>2. EntryInv'
      BY <1>0, <2>0 DEF MinTypes, EntryInv, Scan!Registering
    <2>3. BelowInv'
      <3>1. ASSUME NEW u \in Threads PROVE Floor(u) <= Floor(u)'
        <4>1. u = t => entries'[u] = stamps[u] /\ stamps[u] < clock
          BY <2>0 DEF EntryInv, MinTypes
        <4>2. u # t => entries'[u] = entries[u]
          BY <2>0 DEF MinTypes
        <4>3. /\ stamps[u] \in Nat /\ entries[u] \in Nat /\ clock \in Nat
              /\ clock <= Scan!UINT64_MAX
              /\ entries[u] <= stamps[u] \/ entries[u] = Scan!UINT64_MAX
          BY <1>0 DEF MinTypes, EntryInv, Scan!Registering
        <4> QED BY <1>0, <2>0, <4>1, <4>2, <4>3 DEF Floor
      <3>2. \A u \in Threads :
              place'[u] = "scan" => place[u] = "scan" /\ stamps'[u] = stamps[u]
        BY <2>0 DEF MinTypes
      <3> QED BY <2>0, <2>1, <2>2, <3>1, <3>2, FloorsRise
    <2> QED BY <2>1, <2>2, <2>3 DEF MinInv
  <1>3. ASSUME NEW t \in Threads, Scan!UseLast(t) PROVE MinInv'
    <2>1. MinTypes'
      BY <1>3 DEF MinTypes, Scan!PC, Scan!UseLast
    <2>2. EntryInv'
      BY <1>3 DEF MinTypes, EntryInv, Scan!UseLast, Scan!Registering
    <2>3. BelowInv'
      <3>1. \A u, v \in Threads : Floor(u)' = Floor(u) /\ (Reached(v, u)' <=> Reached(v, u))
        BY <1>3 DEF Floor, Reached, Scan!UseLast
      <3>2. last' = last /\ \A v \in Threads : answer'[v] \in {answer[v], last}
        BY <1>3 DEF MinTypes, Scan!UseLast
      <3> QED BY <3>1, <3>2 DEF BelowInv
    <2> QED BY <2>1, <2>2, <2>3 DEF MinInv
  <1>4. ASSUME NEW t \in Threads, Scan!StartScan(t) PROVE MinInv'
    <2>0. /\ place[t] = "run" /\ next' = [next EXCEPT ![t] = 0]
          /\ place' = [place EXCEPT ![t] = "scan"]
          /\ least' = [least EXCEPT ![t] = Scan!UINT64_MAX]
          /\ UNCHANGED <<clock, entries, stamps, last, answer>>
      BY <1>4 DEF Scan!StartScan, Scan!Goto
    <2>1. MinTypes'
      BY <1>0, <2>0 DEF MinTypes, Scan!PC
    <2>2. EntryInv'
      BY <2>0 DEF MinTypes, EntryInv, Scan!Registering
    <2>3. BelowInv'
      <3>1. \A u \in Threads : Floor(u)' = Floor(u) /\ ~ (u < 0)
        BY <2>0, Numbers DEF Floor
      <3>2. \A u, v \in Threads : Reached(v, u) => Reached(v, u)'
        BY <2>0, <3>1 DEF MinTypes, Reached
      <3> QED BY <2>0, <3>1, <3>2 DEF BelowInv
    <2> QED BY <2>1, <2>2, <2>3 DEF MinInv
  <1>5. ASSUME NEW t \in Threads, Scan!ReadEntry(t), Scan!OnTime PROVE MinInv'
    <2>0. /\ next[t] \in Threads /\ next'[t] = next[t] + 1 /\ place[t] = "scan"
          /\ least'[t] = IF entries[next[t]] < least[t] THEN entries[next[t]] ELSE least[t]
          /\ \A u \in Threads \ {t} : least'[u] = least[u] /\ next'[u] = next[u]
          /\ UNCHANGED <<clock, entries, stamps, last, answer, place>>
      BY <1>5 DEF MinTypes, Scan!ReadEntry
    <2>1. MinTypes'
      <3>1. next[t] \in 0..(Cardinality(Threads) - 1) /\ entries[next[t]] \in Nat
        BY <2>0, Numbers DEF MinTypes
      <3>2. next[t] + 1 \in 0..Cardinality(Threads)
        BY <3>1, Numbers
      <3> QED BY <1>5, <3>1, <3>2 DEF MinTypes, Scan!PC, Scan!ReadEntry
    <2>2. EntryInv'
      BY <2>0 DEF EntryInv, Scan!Registering
    <2>3. BelowInv'
      <3>1. \A u \in Threads : Floor(u)' = Floor(u)
        BY <2>0 DEF Floor
      <3>2. ASSUME NEW u \in Threads PROVE Reached(t, u)'
        <4> SUFFICES ASSUME u < next[t] + 1
                     PROVE  /\ least'[t] <= Floor(u) \/ stamps[t] <= Floor(u)
                            /\ u = t => least'[t] <= stamps[t]
          BY <2>0, <3>1 DEF Reached
        <4>1. /\ u \in Nat /\ next[t] \in Nat /\ least[t] \in Nat /\ entries[next[t]] \in Nat
              /\ Floor(u) \in Nat /\ stamps[t] \in Nat
          <5>1. \A w \in Threads : w \in Nat
            BY Numbers
          <5>2. least[t] \in Nat /\ next[t] \in Threads
            BY <2>0 DEF MinTypes
          <5> QED BY <5>1, <5>2, MinFloor
        <4>2. least'[t] \in Nat /\ least'[t] <= least[t] /\ least'[t] <= entries[next[t]]
          BY <2>0, <4>1
        <4>3. CASE u < next[t]
          <5>1. /\ least[t] <= Floor(u) \/ stamps[t] <= Floor(u)
                /\ u = t => least[t] <= stamps[t]
            BY <2>0, <4>3 DEF BelowInv, Reached
          <5> QED BY <4>1, <4>2, <5>1
        <4>4. CASE u = next[t]
          <5>1. ~ Scan!Registering(u)
            BY <1>5, <4>4 DEF Scan!OnTime
          <5>2. entries[u] = stamps[u] \/ entries[u] # Scan!UINT64_MAX
            BY <5>1 DEF EntryInv, Scan!Registering
          <5>3. stamps[t] < clock /\ clock \in Nat /\ entries[t] = stamps[t]
            BY <2>0, MinFloor DEF EntryInv
          <5>4. Floor(u) = entries[u] \/ Floor(u) = clock
            BY <5>2 DEF Floor
          <5> QED BY <4>1, <4>2, <4>4, <5>3, <5>4
        <4> QED BY <4>1, <4>3, <4>4
      <3>3. \A u \in Threads, v \in Threads \ {t} : Reached(v, u) => Reached(v, u)'
        BY <2>0, <3>1 DEF Reached
      <3> QED BY <2>0, <3>1, <3>2, <3>3 DEF BelowInv
    <2> QED BY <2>1, <2>2, <2>3 DEF MinInv
  <1>6. ASSUME NEW t \in Threads, Scan!EndScan(t) PROVE MinInv'
    <2>0. /\ place[t] = "scan" /\ next[t] \notin Threads
          /\ last' = least[t] /\ answer' = [answer EXCEPT ![t] = least[t]]
          /\ place' = [place EXCEPT ![t] = "run"]
          /\ UNCHANGED <<clock, entries, stamps, least, next>>
      BY <1>6 DEF Scan!EndScan, Scan!Goto
    <2>1. MinTypes'
      BY <2>0 DEF MinTypes, Scan!PC
    <2>2. EntryInv'
      BY <2>0 DEF MinTypes, EntryInv, Scan!Registering
    <2>3. BelowInv'
      <3>1. next[t] = Cardinality(Threads)
        BY <2>0, Numbers DEF MinTypes
      <3>2. \A u \in Threads : u < next[t]
        BY <3>1, Numbers
      <3>3. \A u \in Threads : least[t] <= Floor(u)
        <4>1. \A u \in Threads : /\ least[t] <= Floor(u) \/ stamps[t] <= Floor(u)
                                 /\ least[t] <= stamps[t]
          BY <2>0, <3>2 DEF BelowInv, Reached
        <4>2. \A u \in Threads : Floor(u) \in Nat /\ stamps[t] \in Nat /\ least[t] \in Nat
          BY MinFloor DEF MinTypes
        <4> QED BY <4>1, <4>2
      <3>4. \A u \in Threads : Floor(u)' = Floor(u)
        BY <2>0 DEF Floor
      <3>5. \A u, v \in Threads : Reached(v, u) => Reached(v, u)'
        BY <2>0, <3>4 DEF MinTypes, Reached
      <3>6. \A v \in Threads : answer'[v] \in {answer[v], least[t]}
        BY <2>0 DEF MinTypes
      <3> QED BY <2>0, <3>3, <3>4, <3>5, <3>6 DEF BelowInv
    <2> QED BY <2>1, <2>2, <2>3 DEF MinInv
  <1>7. ASSUME NEW t \in Threads, Scan!EndTxn(t) PROVE MinInv'
    <2>0. /\ place[t] = "run" /\ place' = [place EXCEPT ![t] = "idle"]
          /\ UNCHANGED <<clock, entries, stamps, last, answer, least, next>>
      BY <1>7 DEF Scan!EndTxn, Scan!Goto
    <2>1. MinTypes'
      BY <2>0 DEF MinTypes, Scan!PC
    <2>2. EntryInv'
      BY <2>0 DEF MinTypes, EntryInv, Scan!Registering
    <2>3. BelowInv'
      <3>1. \A u \in Threads : Floor(u)' = Floor(u)
        BY <2>0 DEF Floor
      <3>2. \A u, v \in Threads : Reached(v, u) => Reached(v, u)'
        BY <2>0, <3>1 DEF MinTypes, Reached
      <3> QED BY <2>0, <3>1, <3>2 DEF BelowInv
    <2> QED BY <2>1, <2>2, <2>3 DEF MinInv
  <1>8. CASE UNCHANGED Scan!vars
    BY <1>8 DEF Scan!vars, MinInv, MinTypes, EntryInv, BelowInv, Floor, Reached,
                Scan!Registering
  <1> QED BY <1>1, <1>2, <1>3, <1>4, <1>5, <1>6, <1>7, <1>8
          DEF Scan!Next, Scan!Step, Scan!Terminated

\* What get_min_ts has returned is not past the transaction of any thread, from
\* any start and with any number of threads and scans at the same time, as long
\* as no scan reads the entry of a thread that has drawn its first timestamp
\* and not registered it (manager.cpp:55-69).
THEOREM MinIsSafe ==
  ASSUME ThreadsNumbered
  PROVE  Scan!OnTimeSpec => []Scan!MinSafe
  <1>1. Scan!Init => MinInv
    BY MinInit
  <1>2. MinInv /\ [Scan!Next /\ Scan!OnTime]_(Scan!vars) => MinInv'
    BY MinNext
  <1>3. MinInv => Scan!MinSafe
    <2> SUFFICES ASSUME MinTypes, EntryInv, BelowInv, NEW t \in Threads, NEW u \in Threads
                 PROVE  /\ answer[t] <= entries[u]
                        /\ place[u] \in {"begin", "run", "scan"} => answer[t] <= stamps[u]
      BY DEF MinInv, Scan!MinSafe
    <2>1. answer[t] <= Floor(u) /\ answer[t] \in Nat
      BY DEF BelowInv, MinTypes
    <2> QED BY <2>1, MinFloor
  <1> QED BY <1>1, <1>2, <1>3, PTL DEF Scan!OnTimeSpec
==============================================================================
