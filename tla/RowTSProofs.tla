----------------------------- MODULE RowTSProofs -----------------------------
(***************************************************************************)
(* Proofs about RowTS for every set of threads, rows and queries, and for  *)
(* both values of TS_TWR.                                                  *)
(*                                                                         *)
(* The argument: a row is never read past an announced write, and a write  *)
(* is announced only behind every read.  So a writer that has made its own *)
(* read is the first of the announced ones, no reader is left that is      *)
(* older, and its W_REQ is performed at once: the buffer of writes stays   *)
(* empty, one turn of update_buffer does all there is to do, and what a    *)
(* transaction reads are the writes before its timestamp.                  *)
(***************************************************************************)
EXTENDS RowTS, SeqLemmas, FiniteSetTheorems, TLAPS

------------------------------------------------------------------------------
(***************************************************************************)
(* The inductive invariant                                                 *)
(***************************************************************************)

Transaction == [ts : Stamp, query : Queries, saw : Seq(Nat)]

Row(t) == Cur(t).row

\* What a row r is to the transactions: who has announced a write to it, who
\* has read it, and who waits to.
Announcers(r) == {t \in Threads : Announced(t, r)}

\* The read that thread t waited for has been performed.
Granted(t) == pc[t] = "spin" /\ ts_ready[t]

HasRead(t, r) ==
  \/ \E i \in DOMAIN accesses[t] : accesses[t][i].row = r
  \/ Granted(t) /\ Row(t) = r

Readers(r) == {t \in Threads : HasRead(t, r)}

Waits(t, r) == pc[t] = "spin" /\ ~ ts_ready[t] /\ Row(t) = r

Waiters(r) == {t \in Threads : Waits(t, r)}

\* The writes to r of the log L up to n, and before it.
UpTo(L, r, n)   == {c \in L : c.ts <= n /\ Ordered!Writes(c.query, r)}
Before(L, r, n) == {c \in L : c.ts < n /\ Ordered!Writes(c.query, r)}

\* n is the least timestamp of buffer B, as cal_min has it.
IsMin(n, B) ==
  /\ n = UINT64_MAX \/ \E e \in B : e.ts = n
  /\ \A e \in B : n <= e.ts

\* The buffered requests of manager m are those of its announcers and of its
\* waiters, of which each has an announcer before it; T has the timestamps.
Buffers(m, ann, wait, T) ==
  /\ \A e : e \in m.prereq <=> \E t \in ann : e = [txn |-> t, ts |-> T[t]]
  /\ \A e : e \in m.readreq <=> \E t \in wait : e = [txn |-> t, ts |-> T[t]]
  /\ \A t \in wait : \E u \in ann : T[u] < T[t]
  /\ IsMin(m.min_pts, m.prereq) /\ IsMin(m.min_rts, m.readreq)
  /\ IsFiniteSet(m.prereq)

\* Manager m of row r has seen every read, and no write is announced before one.
Reading(r, m, ann, has, T, L) ==
  /\ \A t \in has : T[t] <= m.rts
  /\ \A t \in ann : m.rts <= T[t]
  /\ \A c \in L : Ordered!Touches(c.query, r) => c.ts <= m.rts

\* Row r holds the writes of log L up to the last one it has seen; those that
\* it has not seen are still announced.
Writing(r, m, ann, T, L) ==
  /\ m.wts = 0 \/ \E c \in L : c.ts = m.wts /\ Ordered!Writes(c.query, r)
  /\ \A t \in ann : m.wts < T[t]
  /\ \A c \in L : Ordered!Writes(c.query, r) =>
       c.ts <= m.wts \/ \E t \in ann : T[t] = c.ts
  /\ m.data = Cardinality(UpTo(L, r, m.wts))

RowInv(r) ==
  /\ Buffers(manager[r], Announcers(r), Waiters(r), ts)
  /\ Reading(r, manager[r], Announcers(r), Readers(r), ts, committed)
  /\ Writing(r, manager[r], Announcers(r), ts, committed)

\* The timestamps that were given out and logged.
Clock ==
  /\ \A t \in Threads : ts[t] < timestamp /\ (ts[t] = 0 => pc[t] = "idle")
  /\ \A t, u \in Threads : ts[t] = ts[u] /\ ts[t] # 0 => t = u

Log ==
  /\ IsFiniteSet(committed)
  /\ \A c \in committed : 0 < c.ts /\ c.ts < timestamp
  /\ \A c, d \in committed : c.ts = d.ts => c = d
  /\ \A c \in committed, t \in Threads : c.ts = ts[t] =>
       pc[t] = "idle" \/ (pc[t] = "cleanup" /\ rc[t] = "RCOK")
  /\ \A t \in Threads : pc[t] = "cleanup" /\ rc[t] = "RCOK" =>
       \E c \in committed : c.ts = ts[t] /\ c.query = query[t]

\* Where thread t is in its query, ...
Progress(t) ==
  /\ pc[t] # "idle" => query[t] \in Queries
  /\ pc[t] \in {"idle", "retry"} => accesses[t] = <<>>
  /\ Len(accesses[t]) <= Len(query[t])
  /\ \A k \in 1..Len(accesses[t]) : /\ accesses[t][k].row = query[t][k].row
                                    /\ accesses[t][k].type = query[t][k].type
  /\ pc[t] \in {"read", "spin"} => Len(accesses[t]) < Len(query[t])
  /\ pc[t] = "read" => Cur(t).type = "WR"

\* ... and what it has seen.
Seen(t) ==
  /\ \A k \in 1..Len(accesses[t]) :
       accesses[t][k].data = Cardinality(Before(committed, accesses[t][k].row, ts[t]))
  /\ Granted(t) => cur_row[t] = Cardinality(Before(committed, Row(t), ts[t]))

AccessType == [row : Rows, type : {"RD", "WR"}, data : Nat]

\* No write is ever buffered.
Manager == [wts : Nat, rts : Nat, min_rts : Stamp, min_pts : Stamp,
            readreq : SUBSET Request, writereq : {{}}, prereq : SUBSET Request,
            data : Nat]

Types ==
  /\ timestamp \in 1..UINT64_MAX
  /\ manager \in [Rows -> Manager]
  /\ \A r \in Rows : manager[r].rts < timestamp
  /\ ts \in [Threads -> 0..MAX_TS] /\ ts_ready \in [Threads -> BOOLEAN]
  /\ cur_row \in [Threads -> Nat]
  /\ query \in [Threads -> Queries \union {<<>>}]
  /\ accesses \in [Threads -> Seq(AccessType)]
  /\ rc \in [Threads -> {"RCOK", "Abort"}] /\ pc \in [Threads -> PC]
  /\ committed \subseteq Transaction

IInv ==
  /\ Types /\ Clock /\ Log
  /\ \A t \in Threads : Progress(t) /\ Seen(t)
  /\ \A r \in Rows : RowInv(r)

------------------------------------------------------------------------------
(***************************************************************************)
(* The minimum of a buffer and the turns of update_buffer                  *)
(***************************************************************************)

LEMMA MaxFacts == UINT64_MAX \in Nat /\ MAX_TS \in Nat /\ UINT64_MAX = MAX_TS + 1
  BY ConfigAssumption DEF UINT64_MAX

\* cal_min finds the least timestamp of a buffer.
LEMMA CalMin ==
  ASSUME NEW B \in SUBSET Request
  PROVE  cal_min(B) \in Stamp /\ IsMin(cal_min(B), B)
  <1> DEFINE S == {e.ts : e \in B} \union {UINT64_MAX}
  <1>1. S \in SUBSET (0..UINT64_MAX) /\ S # {} /\ \A e \in B : e.ts \in S
    BY MaxFacts DEF Request, Stamp
  <1>2. \A n \in S : n = UINT64_MAX \/ \E e \in B : e.ts = n
    OBVIOUS
  <1>3. cal_min(B) = CHOOSE n \in S : \A e \in B : n <= e.ts
    BY DEF cal_min
  <1> HIDE DEF S
  <1>4. PICK g \in S : \A n \in S : g <= n
    BY <1>1, MaxFacts, LeastNumber
  <1>5. cal_min(B) \in S /\ \A e \in B : cal_min(B) <= e.ts
    BY <1>1, <1>3, <1>4
  <1> QED BY <1>1, <1>2, <1>5 DEF IsMin, Stamp

\* Manager m after the reads R, when n is the least of the other ones and p is
\* the least prewrite.
Performed(m, R, p, n, top) ==
  [wts |-> m.wts, rts |-> top, min_rts |-> n, min_pts |-> p,
   readreq |-> m.readreq \ R, writereq |-> {}, prereq |-> m.prereq,
   data |-> m.data]

\* The last read of R, or rts if it is later.
Top(R, rts) ==
  IF R = {} THEN rts
  ELSE CHOOSE n \in {rts} \union {e.ts : e \in R} : n >= rts /\ \A e \in R : n >= e.ts

LEMMA TopFacts ==
  ASSUME NEW R \in SUBSET Request, NEW rts \in Nat
  PROVE  /\ Top(R, rts) \in Nat /\ rts <= Top(R, rts)
         /\ \A e \in R : e.ts <= Top(R, rts)
         /\ Top(R, rts) = rts \/ \E e \in R : Top(R, rts) = e.ts
  <1> DEFINE S == {rts} \union {e.ts : e \in R}
             k == UINT64_MAX + rts
  <1>1. k \in Nat /\ S \in SUBSET (0..k) /\ S # {} /\ rts \in S /\ \A e \in R : e.ts \in S
    BY MaxFacts DEF Request, Stamp
  <1>2. \A n \in S : n \in Nat /\ (n = rts \/ \E e \in R : n = e.ts)
    BY <1>1
  <1>3. R # {} => Top(R, rts) = CHOOSE n \in S : n >= rts /\ \A e \in R : n >= e.ts
    BY DEF Top
  <1> HIDE DEF S, k
  <1>4. PICK g \in S : \A n \in S : n <= g
    BY <1>1, GreatestNumber
  <1>5. g >= rts /\ \A e \in R : g >= e.ts
    BY <1>1, <1>2, <1>4
  <1>6. CASE R # {}
    <2>1. Top(R, rts) \in S /\ Top(R, rts) >= rts /\ \A e \in R : Top(R, rts) >= e.ts
      BY <1>3, <1>4, <1>5, <1>6
    <2> QED BY <1>1, <1>2, <2>1
  <1>7. CASE R = {}
    BY <1>7 DEF Top
  <1> QED BY <1>6, <1>7

\* The reads that a turn performs.
Loose(m) == LET p == cal_min(m.prereq)
            IN IF p > m.min_pts THEN due(m.readreq, p) ELSE {}

\* What a turn does, as long as no write is buffered.
Turned(m) ==
  LET R == Loose(m)
  IN Performed(m, R, cal_min(m.prereq),
               IF R = {} THEN m.min_rts ELSE cal_min(m.readreq \ R), Top(R, m.rts))

LEMMA TurnFacts ==
  ASSUME NEW s, s.m \in Manager
  PROVE  turn(s) = [m |-> Turned(s.m),
                    reads |-> s.reads \union
                      {[txn |-> e.txn, data |-> s.m.data] : e \in Loose(s.m)}]
  <1> DEFINE p  == cal_min(s.m.prereq)
             m1 == [s.m EXCEPT !.min_pts = p]
             R  == Loose(s.m)
             m2 == perform_reads(m1, R)
  <1>1. m1.min_pts = p /\ m1.readreq = s.m.readreq /\ m1.rts = s.m.rts
        /\ m1.min_rts = s.m.min_rts
    BY DEF Manager
  <1>2. m2 = Turned(s.m)
    <2>1. m1 \in Manager
      BY CalMin DEF Manager
    <2>2. /\ m1.wts = s.m.wts /\ m1.prereq = s.m.prereq /\ m1.writereq = {}
          /\ m1.data = s.m.data
      BY DEF Manager
    <2> HIDE DEF m1, R
    <2>3. perform_reads(m1, R) =
            [m1 EXCEPT !.readreq = m1.readreq \ R, !.rts = Top(R, m1.rts),
                       !.min_rts = IF R = {} THEN m1.min_rts ELSE cal_min(m1.readreq \ R)]
      BY <2>1 DEF perform_reads, Top, Manager
    <2>4. perform_reads(m1, R) =
            Performed(m1, R, m1.min_pts,
                      IF R = {} THEN m1.min_rts ELSE cal_min(m1.readreq \ R), Top(R, m1.rts))
      BY <2>1, <2>2, <2>3 DEF Performed, Manager
    <2> QED BY <1>1, <2>2, <2>4 DEF Turned, R, Performed
  <1>3. m2.writereq = {}
    BY <1>2 DEF Turned, Performed
  <1>4. perform_writes(m2, due(m2.writereq, m2.min_rts)) = m2
    <2> HIDE DEF m2
    <2>1. due(m2.writereq, m2.min_rts) = {}
      BY <1>3 DEF due
    <2> QED BY <2>1 DEF perform_writes
  <1>5. turn(s) = [m |-> IF m2.min_rts > m1.min_rts
                         THEN perform_writes(m2, due(m2.writereq, m2.min_rts)) ELSE m2,
                   reads |-> s.reads \union
                     {[txn |-> e.txn, data |-> s.m.data] : e \in R}]
    BY <1>1 DEF turn, Loose
  <1> HIDE DEF m2, m1, R
  <1> QED BY <1>2, <1>4, <1>5 DEF R

LEMMA TurnedType ==
  ASSUME NEW m \in Manager
  PROVE  /\ Turned(m) \in Manager /\ Loose(m) \subseteq m.readreq
         /\ Turned(m).prereq = m.prereq
  <1>1. cal_min(m.prereq) \in Stamp /\ m.prereq \in SUBSET Request
        /\ m.readreq \in SUBSET Request
    BY CalMin DEF Manager
  <1>2. Loose(m) \subseteq m.readreq
    BY DEF Loose, due
  <1>3. m.readreq \ Loose(m) \in SUBSET Request /\ Loose(m) \in SUBSET Request
    BY <1>1, <1>2
  <1>4. cal_min(m.readreq \ Loose(m)) \in Stamp
    BY <1>3, CalMin
  <1>5. Top(Loose(m), m.rts) \in Nat
    BY <1>3, TopFacts DEF Manager
  <1> QED BY <1>1, <1>2, <1>3, <1>4, <1>5 DEF Turned, Performed, Manager

\* A second turn changes nothing.
LEMMA TurnTwice ==
  ASSUME NEW s, s.m \in Manager
  PROVE  turn(turn(s)) = turn(s)
  <1> DEFINE v == turn(s)
  <1>1. v = [m |-> Turned(s.m), reads |-> v.reads] /\ v.m = Turned(s.m)
    BY TurnFacts
  <1>2. v.m \in Manager /\ v.m.prereq = s.m.prereq
    BY <1>1, TurnedType
  <1>3. v.m.min_pts = cal_min(v.m.prereq) /\ cal_min(v.m.prereq) \in Nat
    <2>1. cal_min(s.m.prereq) \in Nat
      BY CalMin, MaxFacts DEF Manager, Stamp
    <2> QED BY <1>1, <1>2, <2>1 DEF Turned, Performed
  <1> HIDE DEF v
  <1>4. Loose(v.m) = {}
    BY <1>3 DEF Loose
  <1>5. Turned(v.m) = v.m
    <2>1. Turned(v.m) = Performed(v.m, {}, v.m.min_pts, v.m.min_rts, v.m.rts)
      BY <1>3, <1>4 DEF Turned, Top
    <2> QED BY <1>2, <2>1 DEF Performed, Manager
  <1>6. turn(v) = [m |-> v.m, reads |-> v.reads \union {}]
    BY <1>2, <1>4, <1>5, TurnFacts
  <1> QED BY <1>1, <1>6 DEF v

\* So update_buffer is one turn.
LEMMA UpdateFacts ==
  ASSUME NEW m \in Manager, IsFiniteSet(m.prereq)
  PROVE  update_buffer(m) = turn([m |-> m, reads |-> {}])
  <1> DEFINE s0 == [m |-> m, reads |-> {}]
             v  == turn(s0)
             N  == Cardinality(m.prereq) + 1
             F(f, n) == IF n = 0 THEN s0
                        ELSE CHOOSE w \in {turn(u) : u \in {f[n - 1]}} : TRUE
             s  == CHOOSE f : f = [n \in 0..N |-> F(f, n)]
  <1>1. N \in Nat /\ N # 0
    BY FS_CardinalityType
  <1>2. update_buffer(m) = s[N]
    BY DEF update_buffer
  <1>3. turn(v) = v
    BY TurnTwice
  <1>4. \A f, n : F(f, n) = IF n = 0 THEN s0 ELSE turn(f[n - 1])
    OBVIOUS
  <1> HIDE DEF v, N
  <1> DEFINE g == [n \in 0..N |-> IF n = 0 THEN s0 ELSE v]
  <1>5. g = [n \in 0..N |-> F(g, n)]
    <2>1. \A n \in 0..N : F(g, n) = IF n = 0 THEN s0 ELSE v
      <3>1. TAKE n \in 0..N
      <3>2. CASE n = 0
        BY <3>2
      <3>3. CASE n = 1
        BY <1>1, <1>4, <3>3 DEF v
      <3>4. CASE n # 0 /\ n # 1
        <4>1. n - 1 \in 0..N /\ n - 1 # 0
          BY <1>1, <3>4
        <4>2. g[n - 1] = v
          BY <4>1
        <4> QED BY <1>3, <1>4, <3>4, <4>2
      <3> QED BY <3>2, <3>3, <3>4
    <2> QED BY <2>1
  <1> HIDE DEF g, F
  <1>6. s = [n \in 0..N |-> F(s, n)]
    BY <1>5
  <1> HIDE DEF s
  <1>7. s[0] = s0 /\ \A n \in 1..N : s[n] = turn(s[n - 1])
    BY <1>1, <1>4, <1>6
  <1>8. \A n \in 1..N : s[n] = v
    <2> DEFINE Bad == {n \in 1..N : s[n] # v}
    <2> SUFFICES ASSUME Bad # {} PROVE FALSE
      OBVIOUS
    <2>1. Bad \in SUBSET (0..N)
      OBVIOUS
    <2>2. PICK b \in Bad : \A n \in Bad : b <= n
      <3> HIDE DEF Bad
      <3> QED BY <1>1, <2>1, LeastNumber
    <2>3. b \in 1..N /\ s[b] # v /\ s[b] = turn(s[b - 1])
      BY <1>7
    <2>4. CASE b = 1
      BY <1>7, <2>3, <2>4 DEF v
    <2>5. CASE b # 1
      <3>1. b - 1 \in 1..N /\ ~ (b <= b - 1)
        BY <1>1, <2>3, <2>5
      <3>2. s[b - 1] = v
        BY <2>2, <3>1
      <3> QED BY <1>3, <2>3, <3>2
    <2> QED BY <2>4, <2>5
  <1> QED BY <1>1, <1>2, <1>8 DEF v

------------------------------------------------------------------------------
(***************************************************************************)
(* The buffered requests of a row                                          *)
(***************************************************************************)

Stamps == [Threads -> 0..MAX_TS]

\* A request enters a buffer.
LEMMA MinAdd ==
  ASSUME NEW B \in SUBSET Request, NEW e \in Request, NEW n \in Stamp, IsMin(n, B)
  PROVE  IsMin(Lesser(n, e.ts), B \union {e}) /\ Lesser(n, e.ts) \in Stamp
  <1>1. n \in Nat /\ e.ts \in Nat /\ e.ts \in Stamp /\ e.ts <= UINT64_MAX
        /\ \A f \in B : f.ts \in Nat
    BY MaxFacts DEF Request, Stamp
  <1>2. CASE n < e.ts
    BY <1>1, <1>2 DEF IsMin, Lesser
  <1>3. CASE ~ (n < e.ts)
    BY <1>1, <1>3 DEF IsMin, Lesser
  <1> QED BY <1>2, <1>3

\* A write is announced.
LEMMA BuffersAnnounce ==
  ASSUME NEW m \in Manager, NEW ann, NEW wait, NEW T \in Stamps, NEW t \in Threads,
         ts = T, Buffers(m, ann, wait, T)
  PROVE  /\ buffer_prewrite(m, t) \in Manager
         /\ Buffers(buffer_prewrite(m, t), ann \union {t}, wait, T)
  <1> DEFINE e == [txn |-> t, ts |-> T[t]]
             b == buffer_prewrite(m, t)
  <1>1. e \in Request /\ m.prereq \in SUBSET Request /\ m.min_pts \in Stamp /\ e.ts = ts[t]
    BY MaxFacts DEF Request, Stamps, Stamp, Manager
  <1>2. /\ b.prereq = m.prereq \union {e} /\ b.min_pts = Lesser(m.min_pts, e.ts)
        /\ b.readreq = m.readreq /\ b.min_rts = m.min_rts
    BY <1>1 DEF buffer_prewrite, Manager
  <1>3. IsMin(b.min_pts, b.prereq) /\ b.min_pts \in Stamp
    <2>1. IsMin(m.min_pts, m.prereq)
      BY DEF Buffers
    <2> HIDE DEF e, b
    <2>2. /\ IsMin(Lesser(m.min_pts, e.ts), m.prereq \union {e})
          /\ Lesser(m.min_pts, e.ts) \in Stamp
      BY <1>1, <2>1, MinAdd
    <2> QED BY <1>2, <2>2
  <1>4. b \in Manager
    <2>1. b = [m EXCEPT !.prereq = b.prereq, !.min_pts = b.min_pts]
      BY DEF buffer_prewrite, Manager
    <2>2. b.prereq \in SUBSET Request
      BY <1>1, <1>2
    <2> HIDE DEF b, e
    <2> QED BY <1>3, <2>1, <2>2 DEF Manager
  <1>5. /\ \A f : f \in m.prereq <=> \E u \in ann : f = [txn |-> u, ts |-> T[u]]
        /\ \A f : f \in m.readreq <=> \E u \in wait : f = [txn |-> u, ts |-> T[u]]
        /\ \A u \in wait : \E a \in ann : T[a] < T[u]
        /\ IsMin(m.min_rts, m.readreq) /\ IsFiniteSet(m.prereq)
    BY DEF Buffers
  <1>6. \A f : f \in b.prereq <=> \E u \in ann \union {t} : f = [txn |-> u, ts |-> T[u]]
    BY <1>2, <1>5
  <1> HIDE DEF b, e
  <1>7. IsFiniteSet(b.prereq)
    BY <1>2, <1>5, FS_AddElement
  <1>8. Buffers(b, ann \union {t}, wait, T)
    BY <1>2, <1>3, <1>5, <1>6, <1>7 DEF Buffers
  <1> QED BY <1>4, <1>8 DEF b

\* A read is buffered behind a write announced before it.
LEMMA BuffersWait ==
  ASSUME NEW m \in Manager, NEW ann, NEW wait, NEW T \in Stamps, NEW t \in Threads,
         ts = T, Buffers(m, ann, wait, T), \E u \in ann : T[u] < T[t]
  PROVE  /\ buffer_read(m, t) \in Manager
         /\ Buffers(buffer_read(m, t), ann, wait \union {t}, T)
  <1> DEFINE e == [txn |-> t, ts |-> T[t]]
             b == buffer_read(m, t)
  <1>1. e \in Request /\ m.readreq \in SUBSET Request /\ m.min_rts \in Stamp /\ e.ts = ts[t]
    BY MaxFacts DEF Request, Stamps, Stamp, Manager
  <1>2. /\ b.readreq = m.readreq \union {e} /\ b.min_rts = Lesser(m.min_rts, e.ts)
        /\ b.prereq = m.prereq /\ b.min_pts = m.min_pts
    BY <1>1 DEF buffer_read, Manager
  <1>3. IsMin(b.min_rts, b.readreq) /\ b.min_rts \in Stamp
    <2>1. IsMin(m.min_rts, m.readreq)
      BY DEF Buffers
    <2> HIDE DEF e, b
    <2>2. /\ IsMin(Lesser(m.min_rts, e.ts), m.readreq \union {e})
          /\ Lesser(m.min_rts, e.ts) \in Stamp
      BY <1>1, <2>1, MinAdd
    <2> QED BY <1>2, <2>2
  <1>4. b \in Manager
    <2>1. b = [m EXCEPT !.readreq = b.readreq, !.min_rts = b.min_rts]
      BY DEF buffer_read, Manager
    <2>2. b.readreq \in SUBSET Request
      BY <1>1, <1>2
    <2> HIDE DEF b, e
    <2> QED BY <1>3, <2>1, <2>2 DEF Manager
  <1>5. /\ \A f : f \in m.prereq <=> \E u \in ann : f = [txn |-> u, ts |-> T[u]]
        /\ \A f : f \in m.readreq <=> \E u \in wait : f = [txn |-> u, ts |-> T[u]]
        /\ \A u \in wait : \E a \in ann : T[a] < T[u]
        /\ IsMin(m.min_pts, m.prereq) /\ IsFiniteSet(m.prereq)
    BY DEF Buffers
  <1>6. \A f : f \in b.readreq <=> \E u \in wait \union {t} : f = [txn |-> u, ts |-> T[u]]
    BY <1>2, <1>5
  <1>7. \A u \in wait \union {t} : \E a \in ann : T[a] < T[u]
    BY <1>5
  <1> HIDE DEF b, e
  <1>8. Buffers(b, ann, wait \union {t}, T)
    BY <1>2, <1>3, <1>5, <1>6, <1>7 DEF Buffers
  <1> QED BY <1>4, <1>8 DEF b

\* The manager without the prewrite of t, when the row has value d of time w.
Others(P, t) == {e \in P : e.txn # t}

Rest(m, t, w, d) ==
  [wts |-> w, rts |-> m.rts, min_rts |-> m.min_rts, min_pts |-> m.min_pts,
   readreq |-> m.readreq, writereq |-> {}, prereq |-> Others(m.prereq, t), data |-> d]

LEMMA RestType ==
  ASSUME NEW m \in Manager, NEW t, NEW w \in Nat, NEW d \in Nat
  PROVE  /\ Rest(m, t, w, d) \in Manager
         /\ debuffer_prewrite([m EXCEPT !.data = d, !.wts = w], t) = Rest(m, t, w, d)
         /\ debuffer_prewrite(m, t) = Rest(m, t, m.wts, m.data)
  <1>1. Others(m.prereq, t) \in SUBSET Request
    BY DEF Others, Manager
  <1>2. Rest(m, t, w, d) \in Manager
    BY <1>1 DEF Rest, Manager
  <1>0. \A n \in Manager : debuffer_prewrite(n, t) = [n EXCEPT !.prereq = Others(n.prereq, t)]
    BY DEF debuffer_prewrite, Others, Manager
  <1>3. debuffer_prewrite(m, t) = Rest(m, t, m.wts, m.data)
    BY <1>0 DEF Rest, Manager
  <1>4. debuffer_prewrite([m EXCEPT !.data = d, !.wts = w], t) = Rest(m, t, w, d)
    <2> DEFINE n == [m EXCEPT !.data = d, !.wts = w]
    <2>1. /\ n \in Manager /\ n.prereq = m.prereq /\ n.wts = w /\ n.data = d
          /\ n.rts = m.rts /\ n.min_rts = m.min_rts /\ n.min_pts = m.min_pts
          /\ n.readreq = m.readreq
      BY DEF Manager
    <2> HIDE DEF n
    <2>2. [n EXCEPT !.prereq = Others(m.prereq, t)] = Rest(m, t, w, d)
      BY <2>1 DEF Rest, Manager
    <2>3. debuffer_prewrite(n, t) = Rest(m, t, w, d)
      BY <1>0, <2>1, <2>2
    <2> QED BY <2>3 DEF n
  <1> QED BY <1>2, <1>3, <1>4

\* When the prewrite of t goes, the reads that no prewrite holds back any more
\* are let through with the value of the row; those that stay have one before
\* them.
Freed(m, t, wait, T) == {u \in wait : T[u] <= cal_min(Others(m.prereq, t))}

LetThrough(m, t, w, d, ann, wait, T) ==
  LET s   == update_buffer(Rest(m, t, w, d))
      rel == Freed(m, t, wait, T)
  IN /\ s.m \in Manager /\ s.m.wts = w /\ s.m.data = d
     /\ Buffers(s.m, ann \ {t}, wait \ rel, T)
     /\ s.reads = {[txn |-> u, data |-> d] : u \in rel}
     /\ \A u \in rel, a \in ann \ {t} : T[u] <= T[a]
     /\ m.rts <= s.m.rts /\ \A u \in rel : T[u] <= s.m.rts
     /\ s.m.rts = m.rts \/ \E u \in rel : s.m.rts = T[u]

LEMMA LooseFacts ==
  ASSUME NEW m \in Manager, NEW ann \in SUBSET Threads, NEW wait \in SUBSET Threads,
         NEW T \in Stamps, NEW t \in Threads, NEW w \in Nat, NEW d \in Nat,
         Buffers(m, ann, wait, T)
  PROVE  \A e : e \in Loose(Rest(m, t, w, d)) <=>
                \E u \in Freed(m, t, wait, T) : e = [txn |-> u, ts |-> T[u]]
  <1> DEFINE P == Others(m.prereq, t)
             p == cal_min(P)
             L == Loose(Rest(m, t, w, d))
  <1>1. /\ \A e : e \in m.prereq <=> \E u \in ann : e = [txn |-> u, ts |-> T[u]]
        /\ \A e : e \in m.readreq <=> \E u \in wait : e = [txn |-> u, ts |-> T[u]]
        /\ \A u \in wait : \E a \in ann : T[a] < T[u]
        /\ IsMin(m.min_pts, m.prereq)
    BY DEF Buffers
  <1>2. P \in SUBSET Request /\ P \subseteq m.prereq
    BY DEF Others, Manager
  <1>3. L = IF p > m.min_pts THEN due(m.readreq, p) ELSE {}
    BY DEF Loose, Rest
  <1>4. \A e : e \in P <=> e \in m.prereq /\ e.txn # t
    BY DEF Others
  <1>5. \A u : u \in Freed(m, t, wait, T) <=> u \in wait /\ T[u] <= p
    BY DEF Freed
  <1> HIDE DEF P, L
  <1>6. p \in Stamp /\ IsMin(p, P)
    BY <1>2, CalMin
  <1> HIDE DEF p
  <1>7. /\ p \in Nat /\ m.min_pts \in Nat /\ p <= UINT64_MAX
        /\ \A u \in Threads : T[u] \in Nat /\ T[u] < UINT64_MAX
        /\ \A e \in m.prereq : e.ts \in Nat
    BY <1>6, MaxFacts DEF Stamp, Manager, Stamps, Request
  <1>8. \A e : e \in L <=> \E u \in Freed(m, t, wait, T) : e = [txn |-> u, ts |-> T[u]]
    <2>1. CASE p > m.min_pts
      <3>1. \A e : e \in L <=> e \in m.readreq /\ e.ts <= p
        BY <1>3, <2>1 DEF due
      <3>2. \A u \in wait : [txn |-> u, ts |-> T[u]] \in m.readreq
        BY <1>1
      <3> QED BY <1>1, <1>5, <3>1, <3>2
    <2>2. CASE ~ (p > m.min_pts)
      <3>1. L = {}
        BY <1>3, <2>2
      <3>2. ASSUME NEW u \in wait PROVE ~ (T[u] <= p)
        <4>1. PICK a \in ann : T[a] < T[u]
          BY <1>1
        <4>2. [txn |-> a, ts |-> T[a]] \in m.prereq
          BY <1>1
        <4>3. m.min_pts <= T[a]
          BY <1>1, <4>2 DEF IsMin
        <4> QED BY <1>7, <2>2, <4>1, <4>3
      <3> QED BY <1>5, <3>1, <3>2
    <2> QED BY <2>1, <2>2
  <1> QED BY <1>8 DEF L

LEMMA BuffersRelease ==
  ASSUME NEW m \in Manager, NEW ann \in SUBSET Threads, NEW wait \in SUBSET Threads,
         NEW T \in Stamps, NEW t \in Threads, NEW w \in Nat, NEW d \in Nat,
         Buffers(m, ann, wait, T)
  PROVE  LetThrough(m, t, w, d, ann, wait, T)
  <1> DEFINE n   == Rest(m, t, w, d)
             s   == update_buffer(n)
             rel == Freed(m, t, wait, T)
             R   == Loose(n)
             P   == Others(m.prereq, t)
  <1>1. /\ \A e : e \in m.prereq <=> \E u \in ann : e = [txn |-> u, ts |-> T[u]]
        /\ \A e : e \in m.readreq <=> \E u \in wait : e = [txn |-> u, ts |-> T[u]]
        /\ \A u \in wait : \E a \in ann : T[a] < T[u]
        /\ IsMin(m.min_rts, m.readreq) /\ IsFiniteSet(m.prereq)
        /\ IsMin(m.min_pts, m.prereq)
    BY DEF Buffers
  <1>2. /\ n \in Manager /\ n.prereq = P /\ n.readreq = m.readreq /\ n.rts = m.rts
        /\ n.min_rts = m.min_rts /\ n.wts = w /\ n.data = d
    BY RestType DEF Rest
  <1>3. \A e : e \in R <=> \E u \in rel : e = [txn |-> u, ts |-> T[u]]
    BY LooseFacts
  <1>4. \A e : e \in P <=> \E u \in ann \ {t} : e = [txn |-> u, ts |-> T[u]]
    BY <1>1 DEF Others
  <1>5. P \subseteq m.prereq /\ P \in SUBSET Request /\ IsFiniteSet(P)
    <2>1. P \subseteq m.prereq /\ P \in SUBSET Request
      BY DEF Others, Manager
    <2> QED BY <1>1, <2>1, FS_Subset
  <1>6. \A u : u \in rel <=> u \in wait /\ T[u] <= cal_min(P)
    BY DEF Freed
  <1> HIDE DEF n, rel, R, P
  <1>7. s = turn([m |-> n, reads |-> {}])
    BY <1>2, <1>5, UpdateFacts
  <1>8. s.m = Turned(n) /\ s.reads = {[txn |-> e.txn, data |-> d] : e \in R}
    BY <1>2, <1>7, TurnFacts DEF R
  <1> HIDE DEF s
  <1>9. Turned(n) \in Manager /\ R \in SUBSET Request /\ R \subseteq m.readreq
    BY <1>2, TurnedType DEF R, Manager
  <1>10. /\ s.m.wts = w /\ s.m.data = d /\ s.m.prereq = P /\ s.m.readreq = m.readreq \ R
         /\ s.m.min_pts = cal_min(P) /\ s.m.rts = Top(R, m.rts)
         /\ s.m.min_rts = IF R = {} THEN m.min_rts ELSE cal_min(m.readreq \ R)
    BY <1>2, <1>8 DEF Turned, Performed, R
  <1>11. IsMin(s.m.min_pts, s.m.prereq) /\ IsMin(s.m.min_rts, s.m.readreq)
    <2>1. IsMin(cal_min(P), P)
      BY <1>5, CalMin
    <2>2. CASE R = {}
      BY <1>1, <1>10, <2>1, <2>2
    <2>3. CASE R # {}
      <3>1. m.readreq \ R \in SUBSET Request
        BY DEF Manager
      <3> QED BY <1>10, <2>1, <2>3, <3>1, CalMin
    <2> QED BY <2>2, <2>3
  <1>12. s.reads = {[txn |-> u, data |-> d] : u \in rel}
    <2>1. ASSUME NEW x \in s.reads PROVE \E u \in rel : x = [txn |-> u, data |-> d]
      BY <1>3, <1>8
    <2>2. ASSUME NEW u \in rel PROVE [txn |-> u, data |-> d] \in s.reads
      <3>1. [txn |-> u, ts |-> T[u]] \in R
        BY <1>3
      <3> QED BY <1>8, <3>1
    <2> QED BY <2>1, <2>2
  <1>13. \A e : e \in s.m.readreq <=> \E u \in wait \ rel : e = [txn |-> u, ts |-> T[u]]
    BY <1>1, <1>3, <1>10
  <1>14. cal_min(P) \in Nat /\ \A u \in Threads : T[u] \in Nat /\ T[u] < UINT64_MAX
    BY <1>5, CalMin, MaxFacts DEF Stamp, Stamps
  <1>15. \A u \in wait \ rel : \E a \in ann \ {t} : T[a] < T[u]
    <2>1. TAKE u \in wait \ rel
    <2>2. u \in Threads /\ cal_min(P) < T[u] /\ cal_min(P) # UINT64_MAX
      BY <1>6, <1>14, MaxFacts
    <2>3. PICK e \in P : e.ts = cal_min(P)
      BY <1>5, <2>2, CalMin DEF IsMin
    <2> QED BY <1>4, <2>2, <2>3
  <1>16. Buffers(s.m, ann \ {t}, wait \ rel, T)
    BY <1>4, <1>5, <1>10, <1>11, <1>13, <1>15 DEF Buffers
  <1>17. ASSUME NEW u \in rel, NEW a \in ann \ {t} PROVE T[u] <= T[a]
    <2>1. [txn |-> a, ts |-> T[a]] \in P
      BY <1>4
    <2>2. cal_min(P) <= T[a]
      BY <1>5, <2>1, CalMin DEF IsMin
    <2>3. T[u] <= cal_min(P) /\ u \in Threads /\ a \in Threads
      BY <1>6
    <2> QED BY <1>14, <2>2, <2>3
  <1>18. /\ m.rts <= s.m.rts /\ \A u \in rel : T[u] <= s.m.rts
         /\ s.m.rts = m.rts \/ \E u \in rel : s.m.rts = T[u]
    <2>1. m.rts \in Nat
      BY DEF Manager
    <2>2. /\ m.rts <= Top(R, m.rts) /\ \A e \in R : e.ts <= Top(R, m.rts)
          /\ Top(R, m.rts) = m.rts \/ \E e \in R : Top(R, m.rts) = e.ts
      BY <1>9, <2>1, TopFacts
    <2>3. ASSUME NEW u \in rel PROVE T[u] <= s.m.rts
      <3>1. [txn |-> u, ts |-> T[u]] \in R
        BY <1>3
      <3> QED BY <1>10, <2>2, <3>1
    <2> QED BY <1>3, <1>10, <2>2, <2>3
  <1>19. s.m \in Manager
    BY <1>8, <1>9
  <1> QED BY <1>10, <1>12, <1>16, <1>17, <1>18, <1>19 DEF LetThrough, s, n, rel

------------------------------------------------------------------------------
(***************************************************************************)
(* The log of a row                                                        *)
(***************************************************************************)

\* Whoever writes a row accesses it.
LEMMA WritesTouch ==
  ASSUME NEW q, NEW r, Ordered!Writes(q, r)
  PROVE  Ordered!Touches(q, r)
  BY DEF Ordered!Writes, Ordered!Touches

\* The log of a row up to n, and before it, is finite.
LEMMA LogFinite ==
  ASSUME NEW L, IsFiniteSet(L), NEW r, NEW n
  PROVE  /\ IsFiniteSet(UpTo(L, r, n)) /\ IsFiniteSet(Before(L, r, n))
         /\ Cardinality(UpTo(L, r, n)) \in Nat /\ Cardinality(Before(L, r, n)) \in Nat
  <1>1. UpTo(L, r, n) \subseteq L /\ Before(L, r, n) \subseteq L
    BY DEF UpTo, Before
  <1> QED BY <1>1, FS_Subset, FS_CardinalityType

\* A write that lies after all of the log but for its own transaction adds one.
LEMMA OneMore ==
  ASSUME NEW L, IsFiniteSet(L), NEW r, NEW c \in L, Ordered!Writes(c.query, r),
         \A e \in L : e.ts \in Nat, \A e \in L : e.ts = c.ts => e = c
  PROVE  Cardinality(UpTo(L, r, c.ts)) = Cardinality(Before(L, r, c.ts)) + 1
  <1>1. UpTo(L, r, c.ts) = Before(L, r, c.ts) \union {c} /\ c \notin Before(L, r, c.ts)
    BY DEF UpTo, Before
  <1>2. IsFiniteSet(Before(L, r, c.ts)) /\ Cardinality(Before(L, r, c.ts)) \in Nat
    BY LogFinite
  <1> QED BY <1>1, <1>2, FS_AddElement

\* The writes up to w are those before n when none lies between.
LEMMA NoneBetween ==
  ASSUME NEW L, NEW r, NEW w \in Nat, NEW n \in Nat, w <= n,
         \A c \in L : c.ts \in Nat /\ c.ts # n,
         \A c \in L : Ordered!Writes(c.query, r) => c.ts <= w \/ n <= c.ts
  PROVE  UpTo(L, r, w) = Before(L, r, n)
  <1>1. \A c \in L : Ordered!Writes(c.query, r) => (c.ts <= w <=> c.ts < n)
    OBVIOUS
  <1> QED BY <1>1 DEF UpTo, Before

------------------------------------------------------------------------------
(***************************************************************************)
(* The accesses of a thread                                                *)
(***************************************************************************)

\* What the types say of a thread.
LEMMA ThreadFacts ==
  ASSUME Types, NEW t \in Threads
  PROVE  /\ Len(accesses[t]) \in Nat /\ DOMAIN accesses[t] = 1..Len(accesses[t])
         /\ accesses[t] \in Seq(AccessType)
         /\ \A k \in 1..Len(accesses[t]) :
              /\ accesses[t][k].row \in Rows /\ accesses[t][k].type \in {"RD", "WR"}
              /\ accesses[t][k].data \in Nat
  <1>1. accesses[t] \in Seq(AccessType)
    BY DEF Types
  <1>2. \A a \in AccessType : /\ a.row \in Rows /\ a.type \in {"RD", "WR"}
                              /\ a.data \in Nat
    BY DEF AccessType
  <1>3. /\ Len(accesses[t]) \in Nat /\ DOMAIN accesses[t] = 1..Len(accesses[t])
        /\ \A k \in 1..Len(accesses[t]) : accesses[t][k] \in AccessType
    BY <1>1
  <1> QED BY <1>1, <1>2, <1>3

\* The places of a query.
LEMMA QueryType ==
  ASSUME NEW q \in Queries
  PROVE  /\ Len(q) \in Nat /\ DOMAIN q = 1..Len(q)
         /\ \A k \in 1..Len(q) : /\ q[k] \in [row : Rows, type : {"RD", "WR"}]
                                 /\ q[k].row \in Rows /\ q[k].type \in {"RD", "WR"}
         /\ \A j, k \in 1..Len(q) : q[j].row = q[k].row => j = k
  <1> DEFINE R == [row : Rows, type : {"RD", "WR"}]
  <1>1. q \in Seq(R)
    BY QueriesAssumption
  <1>2. \A j, k \in DOMAIN q : q[j].row = q[k].row => j = k
    BY QueriesAssumption
  <1>3. \A r \in R : r.row \in Rows /\ r.type \in {"RD", "WR"}
    OBVIOUS
  <1> HIDE DEF R
  <1>4. Len(q) \in Nat /\ DOMAIN q = 1..Len(q) /\ \A k \in 1..Len(q) : q[k] \in R
    BY <1>1
  <1> QED BY <1>2, <1>3, <1>4 DEF R

\* The access that thread t is about to make.
LEMMA CurFacts ==
  ASSUME Types, NEW t \in Threads, Progress(t), Len(accesses[t]) < Len(query[t]),
         query[t] \in Queries
  PROVE  /\ Row(t) \in Rows /\ Cur(t).row = Row(t) /\ Cur(t).type \in {"RD", "WR"}
         /\ \A r : Cur(t) = [row |-> r, type |-> "WR"] <=> Row(t) = r /\ Cur(t).type = "WR"
         /\ \A k \in 1..Len(accesses[t]) : accesses[t][k].row # Row(t)
  <1>1. Len(accesses[t]) + 1 \in 1..Len(query[t])
        /\ \A k \in 1..Len(accesses[t]) : k \in 1..Len(query[t]) /\ k # Len(accesses[t]) + 1
    BY ThreadFacts, QueryType
  <1>2. Cur(t) \in [row : Rows, type : {"RD", "WR"}]
    BY <1>1, QueryType DEF Cur
  <1>3. \A k \in 1..Len(accesses[t]) : accesses[t][k].row # Row(t)
    BY <1>1, QueryType DEF Progress, Row, Cur
  <1> QED BY <1>2, <1>3 DEF Row

\* Accesses s read row r, and write it.
On(s, r)  == \E i \in DOMAIN s : s[i].row = r
WrOn(s, r) == \E i \in DOMAIN s : s[i].row = r /\ s[i].type = "WR"

LEMMA OnAppend ==
  ASSUME NEW s \in Seq(AccessType), NEW a \in AccessType, NEW r
  PROVE  /\ On(Append(s, a), r) <=> On(s, r) \/ a.row = r
         /\ WrOn(Append(s, a), r) <=> WrOn(s, r) \/ (a.row = r /\ a.type = "WR")
  <1>1. /\ DOMAIN s = 1..Len(s) /\ Len(s) \in Nat
        /\ DOMAIN Append(s, a) = 1..(Len(s) + 1)
        /\ \A k \in 1..Len(s) : Append(s, a)[k] = s[k]
        /\ Append(s, a)[Len(s) + 1] = a
    OBVIOUS
  <1>2. \A k \in 1..(Len(s) + 1) : k \in 1..Len(s) \/ k = Len(s) + 1
    BY <1>1
  <1>3. \A k \in 1..Len(s) : k \in 1..(Len(s) + 1)
    BY <1>1
  <1>4. Len(s) + 1 \in 1..(Len(s) + 1)
    BY <1>1
  <1> HIDE DEF AccessType
  <1> QED BY <1>1, <1>2, <1>3, <1>4 DEF On, WrOn

\* When the last access is returned, it is the only one on its row that goes.
LEMMA OnFront ==
  ASSUME NEW s \in Seq(AccessType), s # <<>>, NEW r,
         \A i, j \in 1..Len(s) : s[i].row = s[j].row => i = j
  PROVE  /\ On(Front(s), r) <=> On(s, r) /\ Last(s).row # r
         /\ WrOn(Front(s), r) <=> WrOn(s, r) /\ Last(s).row # r
         /\ On(s, Last(s).row) /\ (Last(s).type = "WR" => WrOn(s, Last(s).row))
         /\ WrOn(s, Last(s).row) => Last(s).type = "WR"
  <1>1. /\ Front(s) \in Seq(AccessType) /\ Len(Front(s)) = Len(s) - 1
        /\ \A i \in 1..(Len(s) - 1) : Front(s)[i] = s[i]
        /\ Last(s) = s[Len(s)] /\ Len(s) \in 1..Len(s)
    BY FrontLemma
  <1>2. /\ DOMAIN s = 1..Len(s) /\ DOMAIN Front(s) = 1..(Len(s) - 1)
        /\ \A i \in 1..(Len(s) - 1) : i \in 1..Len(s) /\ i # Len(s)
        /\ \A i \in 1..Len(s) : i \in 1..(Len(s) - 1) \/ i = Len(s)
    <2>1. DOMAIN Front(s) = 1..Len(Front(s)) /\ Len(s) \in Nat /\ DOMAIN s = 1..Len(s)
      BY <1>1
    <2> QED BY <1>1, <2>1
  <1> HIDE DEF AccessType
  <1> QED BY <1>1, <1>2 DEF On, WrOn

\* The rows of the accesses of t differ.
LEMMA OneEach ==
  ASSUME Types, NEW t \in Threads, Progress(t)
  PROVE  \A i, j \in 1..Len(accesses[t]) : accesses[t][i].row = accesses[t][j].row => i = j
  <1>1. CASE accesses[t] = <<>>
    BY <1>1
  <1>2. CASE accesses[t] # <<>>
    <2>1. pc[t] # "idle" /\ query[t] \in Queries
      BY <1>2 DEF Progress
    <2>2. \A i \in 1..Len(accesses[t]) : i \in 1..Len(query[t])
      BY <2>1, ThreadFacts, QueryType DEF Progress
    <2> QED BY <2>1, <2>2, QueryType DEF Progress
  <1> QED BY <1>1, <1>2

\* Announced and HasRead, in terms of the accesses made and the one under way.
LEMMA Sets ==
  ASSUME NEW t \in Threads, NEW r
  PROVE  /\ Announced(t, r) <=>
              \/ WrOn(accesses[t], r)
              \/ pc[t] \in {"read", "spin"} /\ Cur(t) = [row |-> r, type |-> "WR"]
         /\ HasRead(t, r) <=> On(accesses[t], r) \/ (Granted(t) /\ Row(t) = r)
  BY DEF Announced, HasRead, On, WrOn

\* An action that leaves a thread alone leaves it to what it was on every row.
Unmoved(u) == /\ accesses'[u] = accesses[u] /\ query'[u] = query[u]
              /\ pc'[u] = pc[u] /\ ts_ready'[u] = ts_ready[u]

LEMMA UnmovedSets ==
  ASSUME NEW u \in Threads, Unmoved(u), NEW r
  PROVE  /\ Announced(u, r)' <=> Announced(u, r)
         /\ HasRead(u, r)' <=> HasRead(u, r)
         /\ Waits(u, r)' <=> Waits(u, r)
         /\ Row(u)' = Row(u) /\ Cur(u)' = Cur(u) /\ (Granted(u)' <=> Granted(u))
  BY DEF Unmoved, Announced, HasRead, Waits, Row, Cur, Granted

------------------------------------------------------------------------------
(***************************************************************************)
(* What the invariant says of a row, the clock and the log                 *)
(***************************************************************************)

LEMMA RowFacts ==
  ASSUME IInv, NEW r \in Rows
  PROVE  /\ Buffers(manager[r], Announcers(r), Waiters(r), ts)
         /\ Reading(r, manager[r], Announcers(r), Readers(r), ts, committed)
         /\ Writing(r, manager[r], Announcers(r), ts, committed)
         /\ Announcers(r) \in SUBSET Threads /\ Readers(r) \in SUBSET Threads
         /\ Waiters(r) \in SUBSET Threads
         /\ manager[r] \in Manager /\ manager[r].rts < timestamp
         /\ manager[r].rts \in Nat /\ manager[r].wts \in Nat /\ manager[r].data \in Nat
  <1>1. manager[r] \in Manager /\ manager[r].rts < timestamp
    BY DEF IInv, Types
  <1> QED BY <1>1 DEF IInv, RowInv, Announcers, Readers, Waiters, Manager

LEMMA ClockFacts ==
  ASSUME IInv
  PROVE  /\ ts \in Stamps /\ timestamp \in Nat \ {0}
         /\ \A t \in Threads : /\ ts[t] \in Nat /\ ts[t] \in Stamp /\ ts[t] < timestamp
                               /\ pc[t] # "idle" => ts[t] # 0
         /\ \A t, u \in Threads : ts[t] = ts[u] /\ pc[t] # "idle" => t = u
  <1>1. ts \in Stamps /\ timestamp \in Nat \ {0}
    BY DEF IInv, Types, Stamps
  <1>2. \A t \in Threads : ts[t] \in 0..MAX_TS
    BY <1>1 DEF Stamps
  <1>3. \A n \in 0..MAX_TS : n \in Nat /\ n \in Stamp
    BY MaxFacts DEF Stamp
  <1> QED BY <1>1, <1>2, <1>3 DEF IInv, Clock

LEMMA LogFacts ==
  ASSUME IInv
  PROVE  /\ IsFiniteSet(committed) /\ committed \in SUBSET Transaction
         /\ \A c \in committed : c.ts \in Nat \ {0} /\ c.ts < timestamp
         /\ \A c, d \in committed : c.ts = d.ts => c = d
         /\ \A c \in committed, t \in Threads : c.ts = ts[t] =>
              pc[t] = "idle" \/ (pc[t] = "cleanup" /\ rc[t] = "RCOK")
  <1>1. \A c \in Transaction : c.ts \in Nat
    BY DEF Transaction, Stamp
  <1> QED BY <1>1 DEF IInv, Types, Log

\* A thread that runs has not logged its transaction.
LEMMA NotLogged ==
  ASSUME IInv, NEW t \in Threads, pc[t] \notin {"idle", "cleanup"}
  PROVE  \A c \in committed : c.ts # ts[t]
  BY LogFacts

\* A row was never written later than it was read.
LEMMA WrittenBeforeRead ==
  ASSUME IInv, NEW r \in Rows
  PROVE  manager[r].wts <= manager[r].rts
  <1>1. manager[r].rts \in Nat
    BY RowFacts
  <1>2. CASE manager[r].wts = 0
    BY <1>1, <1>2
  <1>3. CASE manager[r].wts # 0
    <2>1. PICK c \in committed : c.ts = manager[r].wts /\ Ordered!Writes(c.query, r)
      BY <1>3, RowFacts DEF Writing
    <2> QED BY <2>1, RowFacts, WritesTouch DEF Reading
  <1> QED BY <1>2, <1>3

\* What a running thread reads is what the log has written before it.
LEMMA RightValue ==
  ASSUME IInv, NEW t \in Threads, pc[t] \notin {"idle", "cleanup"}, NEW r \in Rows,
         manager[r].wts <= ts[t], \A u \in Announcers(r) : ts[t] <= ts[u]
  PROVE  manager[r].data = Cardinality(Before(committed, r, ts[t]))
  <1>1. /\ \A c \in committed : c.ts # ts[t] /\ c.ts \in Nat
        /\ manager[r].wts \in Nat /\ ts[t] \in Nat
        /\ Writing(r, manager[r], Announcers(r), ts, committed)
    BY NotLogged, LogFacts, RowFacts, ClockFacts
  <1>2. \A c \in committed : Ordered!Writes(c.query, r) =>
          c.ts <= manager[r].wts \/ ts[t] <= c.ts
    BY <1>1 DEF Writing
  <1>3. UpTo(committed, r, manager[r].wts) = Before(committed, r, ts[t])
    BY <1>1, <1>2, NoneBetween
  <1> QED BY <1>1, <1>3 DEF Writing

------------------------------------------------------------------------------
(***************************************************************************)
(* The steps                                                               *)
(***************************************************************************)

\* A thread in its query.
LEMMA InQuery ==
  ASSUME IInv, NEW t \in Threads, pc[t] # "idle"
  PROVE  query[t] \in Queries /\ Len(query[t]) \in Nat /\ Types /\ Progress(t)
  BY QueryType DEF IInv, Progress

\* A thread that makes a request is in its query.
LEMMA RequestFacts ==
  ASSUME IInv, NEW t \in Threads, Requests(t) \/ pc[t] = "read" \/ pc[t] = "spin"
  PROVE  /\ pc[t] \in {"run", "read", "spin"} /\ query[t] \in Queries
         /\ Len(accesses[t]) < Len(query[t]) /\ Row(t) \in Rows /\ Cur(t).row = Row(t)
         /\ Cur(t).type \in {"RD", "WR"}
         /\ \A r : Cur(t) = [row |-> r, type |-> "WR"] <=> Row(t) = r /\ Cur(t).type = "WR"
         /\ \A k \in 1..Len(accesses[t]) : accesses[t][k].row # Row(t)
         /\ M(t) = manager[Row(t)] /\ M(t) \in Manager
         /\ M(t).wts \in Nat /\ M(t).rts \in Nat /\ M(t).data \in Nat
         /\ ts[t] \in Nat /\ ts[t] # 0
  <1>1. pc[t] \in {"run", "read", "spin"} /\ Progress(t) /\ Types
    BY DEF Requests, IInv
  <1>2. query[t] \in Queries /\ Len(accesses[t]) < Len(query[t])
    BY <1>1 DEF Requests, Progress
  <1>3. /\ Row(t) \in Rows /\ Cur(t).row = Row(t) /\ Cur(t).type \in {"RD", "WR"}
        /\ \A r : Cur(t) = [row |-> r, type |-> "WR"] <=> Row(t) = r /\ Cur(t).type = "WR"
        /\ \A k \in 1..Len(accesses[t]) : accesses[t][k].row # Row(t)
    BY <1>1, <1>2, CurFacts
  <1>4. M(t) = manager[Row(t)] /\ manager[Row(t)] \in Manager
    BY <1>1, <1>3 DEF M, Types
  <1>5. M(t).wts \in Nat /\ M(t).rts \in Nat /\ M(t).data \in Nat
    BY <1>4 DEF Manager
  <1>6. ts[t] \in Nat /\ ts[t] # 0
    BY <1>1, ClockFacts
  <1> QED BY <1>1, <1>2, <1>3, <1>4, <1>5, <1>6

\* A prewrite that is let in, ...
Announces(t) ==
  /\ Requests(t) /\ pc[t] = "run" /\ Cur(t).type = "WR" /\ M(t).rts <= ts[t]
  /\ manager' = [manager EXCEPT ![Row(t)] = buffer_prewrite(M(t), t)]
  /\ pc' = [pc EXCEPT ![t] = "read"]
  /\ UNCHANGED <<timestamp, ts, query, ts_ready, cur_row, accesses, rc, committed>>

\* ... and a request that comes too late: never that of an announced write.
Refused(t) ==
  /\ pc[t] = "run"
  /\ rc' = [rc EXCEPT ![t] = "Abort"] /\ pc' = [pc EXCEPT ![t] = "cleanup"]
  /\ UNCHANGED <<timestamp, ts, query, manager, ts_ready, cur_row, accesses, committed>>

LEMMA PrewriteFacts ==
  ASSUME IInv, NEW t \in Threads, Prewrite(t)
  PROVE  Announces(t) \/ Refused(t)
  <1>1. Requests(t) /\ pc[t] = "run"
    BY DEF Prewrite, Requests
  <1>2. M(t) = manager[Row(t)] /\ M(t).rts \in Nat /\ ts[t] \in Nat /\ Row(t) = Cur(t).row
    BY <1>1, RequestFacts DEF Row
  <1>3. CASE MayPrewrite(t)
    BY <1>1, <1>2, <1>3 DEF Prewrite, MayPrewrite, Announces, Goto, threadVars
  <1>4. CASE ~ MayPrewrite(t)
    BY <1>1, <1>4 DEF Prewrite, Refused, AbortTxn, Goto, threadVars
  <1> QED BY <1>3, <1>4

LEMMA ReadAbortsFacts ==
  ASSUME IInv, NEW t \in Threads, ReadAborts(t)
  PROVE  Refused(t)
  <1>1. Requests(t) \/ pc[t] = "read"
    BY DEF ReadAborts, Reads
  <1>2. ts[t] < M(t).wts /\ M(t) = manager[Row(t)] /\ Row(t) \in Rows
    BY <1>1, RequestFacts DEF ReadAborts
  <1>3. pc[t] # "read"
    <2> SUFFICES ASSUME pc[t] = "read" PROVE FALSE
      OBVIOUS
    <2>1. Cur(t) = [row |-> Row(t), type |-> "WR"]
      BY RequestFacts DEF IInv, Progress
    <2>2. t \in Announcers(Row(t))
      BY <2>1, Sets DEF Announcers
    <2>3. manager[Row(t)].wts < ts[t] /\ manager[Row(t)].wts \in Nat /\ ts[t] \in Nat
      BY <1>2, <2>2, RowFacts, ClockFacts DEF Writing
    <2> QED BY <1>2, <2>3
  <1>4. pc[t] = "run"
    BY <1>1, <1>3 DEF Requests
  <1> QED BY <1>4 DEF ReadAborts, Refused, AbortTxn, Goto, threadVars

\* The access that a read of value d adds.
Used(t, d) == [row |-> Row(t), type |-> Cur(t).type, data |-> d]

Records(t, d) ==
  /\ accesses' = [accesses EXCEPT ![t] = Append(accesses[t], Used(t, d))]
  /\ pc' = [pc EXCEPT ![t] = "run"]
  /\ UNCHANGED <<timestamp, ts, query, ts_ready, rc, committed>>

\* A read that is performed at once: no write is announced before it.
LEMMA ReadFacts ==
  ASSUME IInv, NEW t \in Threads, ReadRow(t)
  PROVE  /\ pc[t] \in {"run", "read"} /\ (Requests(t) \/ pc[t] = "read")
         /\ pc[t] = "run" => Cur(t).type = "RD"
         /\ manager' = [manager EXCEPT ![Row(t)] = [M(t) EXCEPT !.rts = NewRts(t)]]
         /\ cur_row' = [cur_row EXCEPT ![t] = M(t).data]
         /\ Records(t, M(t).data)
         /\ M(t).wts <= ts[t] /\ \A u \in Announcers(Row(t)) : ts[t] <= ts[u]
         /\ NewRts(t) \in Nat /\ M(t).rts <= NewRts(t) /\ ts[t] <= NewRts(t)
         /\ NewRts(t) = M(t).rts \/ NewRts(t) = ts[t]
  <1>1. /\ Requests(t) \/ pc[t] = "read"
        /\ pc[t] \in {"run", "read"} /\ (pc[t] = "run" => Cur(t).type = "RD")
    BY DEF ReadRow, Reads, Requests
  <1>2. /\ M(t) = manager[Row(t)] /\ M(t) \in Manager /\ Row(t) \in Rows
        /\ M(t).wts \in Nat /\ M(t).rts \in Nat /\ ts[t] \in Nat /\ Cur(t).row = Row(t)
    BY <1>1, RequestFacts
  <1>3. ts[t] >= M(t).wts /\ ~ (ts[t] > M(t).min_pts)
        /\ manager' = [manager EXCEPT ![Cur(t).row].rts = NewRts(t)]
        /\ cur_row' = [cur_row EXCEPT ![t] = M(t).data]
        /\ Records(t, M(t).data)
    BY <1>2 DEF ReadRow, MustWait, Recorded, Records, Used, Goto, threadVars
  <1>4. manager' = [manager EXCEPT ![Row(t)] = [M(t) EXCEPT !.rts = NewRts(t)]]
    <2>1. manager \in [Rows -> Manager]
      BY DEF IInv, Types
    <2> QED BY <1>2, <1>3, <2>1
  <1>5. ASSUME NEW u \in Announcers(Row(t)) PROVE ts[t] <= ts[u]
    <2>1. [txn |-> u, ts |-> ts[u]] \in manager[Row(t)].prereq
      BY <1>2, RowFacts DEF Buffers
    <2>2. manager[Row(t)].min_pts <= ts[u]
      BY <1>2, <2>1, RowFacts DEF Buffers, IsMin
    <2>3. manager[Row(t)].min_pts \in Nat /\ ts[u] \in Nat
      <3>1. manager[Row(t)].min_pts \in Stamp /\ u \in Threads
        BY <1>2 DEF Manager, Announcers
      <3> QED BY <3>1, ClockFacts, MaxFacts DEF Stamp
    <2> QED BY <1>2, <1>3, <2>2, <2>3
  <1>6. /\ NewRts(t) \in Nat /\ M(t).rts <= NewRts(t) /\ ts[t] <= NewRts(t)
        /\ NewRts(t) = M(t).rts \/ NewRts(t) = ts[t]
    BY <1>2 DEF NewRts
  <1> QED BY <1>1, <1>2, <1>3, <1>4, <1>5, <1>6

\* One that waits: some write is announced before it.
LEMMA WaitFacts ==
  ASSUME IInv, NEW t \in Threads, ReadWaits(t)
  PROVE  /\ pc[t] \in {"run", "read"} /\ (Requests(t) \/ pc[t] = "read")
         /\ pc[t] = "run" => Cur(t).type = "RD"
         /\ manager' = [manager EXCEPT ![Row(t)] = buffer_read(M(t), t)]
         /\ ts_ready' = [ts_ready EXCEPT ![t] = FALSE]
         /\ pc' = [pc EXCEPT ![t] = "spin"]
         /\ UNCHANGED <<timestamp, ts, query, cur_row, accesses, rc, committed>>
         /\ \E u \in Announcers(Row(t)) : ts[u] < ts[t]
  <1>1. /\ Requests(t) \/ pc[t] = "read"
        /\ pc[t] \in {"run", "read"} /\ (pc[t] = "run" => Cur(t).type = "RD")
    BY DEF ReadWaits, Reads, Requests
  <1>2. /\ M(t) = manager[Row(t)] /\ M(t) \in Manager /\ Row(t) \in Rows
        /\ ts[t] \in Nat /\ Cur(t).row = Row(t)
    BY <1>1, RequestFacts
  <1>3. /\ ts[t] > M(t).min_pts
        /\ manager' = [manager EXCEPT ![Row(t)] = buffer_read(M(t), t)]
        /\ ts_ready' = [ts_ready EXCEPT ![t] = FALSE]
        /\ pc' = [pc EXCEPT ![t] = "spin"]
        /\ UNCHANGED <<timestamp, ts, query, cur_row, accesses, rc, committed>>
    BY <1>2 DEF ReadWaits, MustWait, Goto, threadVars
  <1>4. \E u \in Announcers(Row(t)) : ts[u] < ts[t]
    <2>1. M(t).min_pts # UINT64_MAX
      <3>1. ts[t] \in 0..MAX_TS
        BY DEF IInv, Types
      <3> QED BY <1>2, <1>3, <3>1, MaxFacts
    <2>2. PICK e \in manager[Row(t)].prereq : e.ts = M(t).min_pts
      BY <1>2, <2>1, RowFacts DEF Buffers, IsMin
    <2>3. PICK u \in Announcers(Row(t)) : e = [txn |-> u, ts |-> ts[u]]
      BY <1>2, <2>2, RowFacts DEF Buffers
    <2>4. ts[u] \in Nat
      BY ClockFacts DEF Announcers
    <2> QED BY <1>2, <1>3, <2>2, <2>3, <2>4
  <1> QED BY <1>1, <1>3, <1>4

LEMMA LeaveFacts ==
  ASSUME IInv, NEW t \in Threads, LeaveSpin(t)
  PROVE  /\ pc[t] = "spin" /\ ts_ready[t] /\ Granted(t) /\ HasRead(t, Row(t))
         /\ cur_row[t] \in Nat
         /\ cur_row[t] = Cardinality(Before(committed, Row(t), ts[t]))
         /\ Records(t, cur_row[t]) /\ UNCHANGED <<manager, cur_row>>
  <1>1. pc[t] = "spin" /\ ts_ready[t] /\ Granted(t) /\ HasRead(t, Row(t))
    BY DEF LeaveSpin, Granted, HasRead
  <1>2. Records(t, cur_row[t]) /\ UNCHANGED <<manager, cur_row>>
    BY <1>1, RequestFacts DEF LeaveSpin, Recorded, Records, Used, Goto, threadVars
  <1> QED BY <1>1, <1>2 DEF IInv, Seen, Types

\* The transaction that FinishTxn logs.
Logged(t) == [ts |-> ts[t], query |-> query[t],
              saw |-> [i \in DOMAIN accesses[t] |-> accesses[t][i].data]]

LEMMA FinishFacts ==
  ASSUME IInv, NEW t \in Threads, FinishTxn(t)
  PROVE  /\ pc[t] = "run" /\ Len(accesses[t]) = Len(query[t]) /\ query[t] \in Queries
         /\ rc' = [rc EXCEPT ![t] = "RCOK"] /\ pc' = [pc EXCEPT ![t] = "cleanup"]
         /\ committed' = committed \union {Logged(t)}
         /\ Logged(t) \in Transaction /\ Logged(t).ts = ts[t] /\ Logged(t).query = query[t]
         /\ UNCHANGED <<timestamp, ts, manager, ts_ready, cur_row, query, accesses>>
  <1>1. /\ pc[t] = "run" /\ Len(accesses[t]) = Len(query[t])
        /\ rc' = [rc EXCEPT ![t] = "RCOK"] /\ pc' = [pc EXCEPT ![t] = "cleanup"]
        /\ committed' = committed \union {Logged(t)}
        /\ UNCHANGED <<timestamp, ts, manager, ts_ready, cur_row, query, accesses>>
    BY DEF FinishTxn, Goto, Logged, threadVars
  <1>2. query[t] \in Queries /\ ts[t] \in Stamp
    BY <1>1, InQuery, ClockFacts
  <1>3. [i \in DOMAIN accesses[t] |-> accesses[t][i].data] \in Seq(Nat)
    <2>1. /\ DOMAIN accesses[t] = 1..Len(accesses[t]) /\ Len(accesses[t]) \in Nat
          /\ \A k \in 1..Len(accesses[t]) : accesses[t][k].data \in Nat
      BY ThreadFacts DEF IInv
    <2> QED BY <2>1
  <1> QED BY <1>1, <1>2, <1>3 DEF Logged, Transaction

\* What a turn of cleanup does to the accesses of its thread.
LEMMA ReturnFacts ==
  ASSUME IInv, NEW t \in Threads, ReturnRow(t)
  PROVE  /\ pc[t] = "cleanup" /\ accesses[t] # <<>> /\ query[t] \in Queries
         /\ Last(accesses[t]) \in AccessType /\ Last(accesses[t]).row \in Rows
         /\ Last(accesses[t]).type \in {"RD", "WR"} /\ Last(accesses[t]).data \in Nat
         /\ Len(accesses[t]) \in 1..Len(accesses[t])
         /\ Last(accesses[t]) = accesses[t][Len(accesses[t])]
         /\ Front(accesses[t]) \in Seq(AccessType)
         /\ Len(Front(accesses[t])) = Len(accesses[t]) - 1
         /\ \A i \in 1..(Len(accesses[t]) - 1) : Front(accesses[t])[i] = accesses[t][i]
         /\ accesses' = [accesses EXCEPT ![t] = Front(accesses[t])]
         /\ UNCHANGED <<timestamp, ts, query, rc, pc, committed>>
  <1>1. /\ pc[t] = "cleanup" /\ accesses[t] # <<>>
        /\ accesses' = [accesses EXCEPT ![t] = Front(accesses[t])]
        /\ UNCHANGED <<timestamp, ts, query, rc, pc, committed>>
    BY DEF ReturnRow, threadVars
  <1>2. accesses[t] \in Seq(AccessType) /\ query[t] \in Queries
    BY <1>1, InQuery, ThreadFacts
  <1>3. /\ Front(accesses[t]) \in Seq(AccessType)
        /\ Len(Front(accesses[t])) = Len(accesses[t]) - 1
        /\ \A i \in 1..(Len(accesses[t]) - 1) : Front(accesses[t])[i] = accesses[t][i]
        /\ Last(accesses[t]) \in AccessType /\ Len(accesses[t]) \in 1..Len(accesses[t])
        /\ Last(accesses[t]) = accesses[t][Len(accesses[t])]
    <2> HIDE DEF AccessType
    <2> QED BY <1>1, <1>2, FrontLemma
  <1>4. \A a \in AccessType : a.row \in Rows /\ a.type \in {"RD", "WR"} /\ a.data \in Nat
    BY DEF AccessType
  <1> QED BY <1>1, <1>2, <1>3, <1>4

\* What is let through when the prewrite of t on row r goes and the row has
\* value d of time w.
Releasing(t, r, w, d) ==
  LET rel == Freed(manager[r], t, Waiters(r), ts)
  IN /\ manager' = [manager EXCEPT ![r] = update_buffer(Rest(manager[r], t, w, d)).m]
     /\ ts_ready' \in [Threads -> BOOLEAN] /\ cur_row' \in [Threads -> Nat]
     /\ \A u \in Threads : ts_ready'[u] <=> ts_ready[u] \/ u \in rel
     /\ \A u \in Threads : cur_row'[u] = IF u \in rel THEN d ELSE cur_row[u]

LEMMA ReleasedFacts ==
  ASSUME IInv, NEW t \in Threads, NEW r \in Rows, NEW w \in Nat, NEW d \in Nat,
         Released(r, update_buffer(Rest(manager[r], t, w, d)))
  PROVE  /\ Releasing(t, r, w, d)
         /\ LetThrough(manager[r], t, w, d, Announcers(r), Waiters(r), ts)
  <1> DEFINE s   == update_buffer(Rest(manager[r], t, w, d))
             rel == Freed(manager[r], t, Waiters(r), ts)
             Free(u) == \E e \in s.reads : e.txn = u
             Got(u) == (CHOOSE e \in s.reads : e.txn = u).data
  <1>1. LetThrough(manager[r], t, w, d, Announcers(r), Waiters(r), ts)
    BY RowFacts, ClockFacts, BuffersRelease
  <1>2. s.reads = {[txn |-> u, data |-> d] : u \in rel}
    BY <1>1 DEF LetThrough
  <1>3. /\ manager' = [manager EXCEPT ![r] = s.m]
        /\ ts_ready' = [u \in Threads |-> ts_ready[u] \/ Free(u)]
        /\ cur_row' = [u \in Threads |-> IF Free(u) THEN Got(u) ELSE cur_row[u]]
    BY DEF Released
  <1>4. ts_ready \in [Threads -> BOOLEAN] /\ cur_row \in [Threads -> Nat]
    BY DEF IInv, Types
  <1> HIDE DEF s, rel
  <1>5. \A u : Free(u) <=> u \in rel
    <2>1. ASSUME NEW u \in rel PROVE Free(u)
      <3>1. [txn |-> u, data |-> d] \in s.reads
        BY <1>2
      <3> QED BY <3>1
    <2>2. ASSUME NEW u, Free(u) PROVE u \in rel
      BY <1>2, <2>2
    <2> QED BY <2>1, <2>2
  <1>6. \A u : Free(u) => Got(u) = d
    <2>1. ASSUME NEW u, Free(u) PROVE Got(u) = d
      <3> DEFINE e == CHOOSE f \in s.reads : f.txn = u
      <3>1. e \in s.reads
        BY <2>1
      <3> HIDE DEF e
      <3>2. e.data = d
        BY <1>2, <3>1
      <3> QED BY <3>2 DEF e
    <2> QED BY <2>1
  <1> HIDE DEF Free, Got
  <1>7. ts_ready' \in [Threads -> BOOLEAN]
        /\ \A u \in Threads : ts_ready'[u] <=> ts_ready[u] \/ u \in rel
    <2>1. ts_ready' = [u \in Threads |-> ts_ready[u] \/ u \in rel]
      BY <1>3, <1>5
    <2> QED BY <1>4, <2>1
  <1>8. cur_row' \in [Threads -> Nat]
        /\ \A u \in Threads : cur_row'[u] = IF u \in rel THEN d ELSE cur_row[u]
    <2>1. cur_row' = [u \in Threads |-> IF u \in rel THEN d ELSE cur_row[u]]
      BY <1>3, <1>5, <1>6
    <2> QED BY <1>4, <2>1
  <1> QED BY <1>1, <1>3, <1>7, <1>8 DEF Releasing, s, rel

\* A writer that has read its row is the first of the announced ones and older than
\* whoever waits: its W_REQ is performed at once.
LEMMA WriteAtOnce ==
  ASSUME IInv, NEW t \in Threads, NEW r \in Rows, t \in Announcers(r), t \in Readers(r),
         NEW d \in Nat
  PROVE  W_REQ(manager[r], t, d) = update_buffer(Rest(manager[r], t, ts[t], d))
  <1> DEFINE m == manager[r]
  <1>1. /\ m \in Manager /\ m.wts \in Nat /\ m.rts \in Nat /\ ts[t] \in Nat
        /\ \A u \in Threads : ts[u] \in Nat
    BY RowFacts, ClockFacts
  <1>2. m.wts < ts[t]
    BY RowFacts DEF Writing
  <1>3. \A u \in Announcers(r) : u \in Threads /\ ts[t] <= ts[u]
    <2>1. ASSUME NEW u \in Announcers(r) PROVE ts[t] <= ts[u]
      <3>1. ts[t] <= m.rts /\ m.rts <= ts[u] /\ u \in Threads
        BY RowFacts DEF Reading
      <3> QED BY <1>1, <3>1
    <2> QED BY <2>1 DEF Announcers
  <1>4. ts[t] <= UINT64_MAX
    <2>1. ts[t] \in 0..MAX_TS
      BY DEF IInv, Types
    <2> QED BY <2>1, MaxFacts
  <1>5. ts[t] <= m.min_pts
    <2>1. CASE m.min_pts = UINT64_MAX
      BY <1>4, <2>1
    <2>2. CASE m.min_pts # UINT64_MAX
      <3>1. PICK e \in m.prereq : e.ts = m.min_pts
        BY <2>2, RowFacts DEF Buffers, IsMin
      <3>2. PICK u \in Announcers(r) : e = [txn |-> u, ts |-> ts[u]]
        BY <3>1, RowFacts DEF Buffers
      <3> QED BY <1>3, <3>1, <3>2
    <2> QED BY <2>1, <2>2
  <1>6. ts[t] <= m.min_rts
    <2>1. CASE m.min_rts = UINT64_MAX
      BY <1>4, <2>1
    <2>2. CASE m.min_rts # UINT64_MAX
      <3>1. PICK e \in m.readreq : e.ts = m.min_rts
        BY <2>2, RowFacts DEF Buffers, IsMin
      <3>2. PICK u \in Waiters(r) : e = [txn |-> u, ts |-> ts[u]]
        BY <3>1, RowFacts DEF Buffers
      <3>3. PICK a \in Announcers(r) : ts[a] < ts[u]
        BY RowFacts DEF Buffers
      <3>4. ts[u] \in Nat /\ ts[a] \in Nat
        BY <1>1, <1>3 DEF Waiters
      <3> QED BY <1>1, <1>3, <3>1, <3>2, <3>3, <3>4
    <2> QED BY <2>1, <2>2
  <1>7. m.min_pts \in Nat /\ m.min_rts \in Nat
    BY <1>1, MaxFacts DEF Manager, Stamp
  <1>8. W_REQ(m, t, d) = write_row(m, t, d)
    BY <1>1, <1>2, <1>5, <1>6, <1>7 DEF W_REQ
  <1>9. [m EXCEPT !.data = d, !.wts = IF m.wts < ts[t] THEN ts[t] ELSE m.wts]
          = [m EXCEPT !.data = d, !.wts = ts[t]]
    BY <1>2
  <1>10. write_row(m, t, d) = update_buffer(debuffer_prewrite([m EXCEPT !.data = d, !.wts = ts[t]], t))
    BY <1>1, <1>2 DEF write_row, Manager
  <1>11. debuffer_prewrite([m EXCEPT !.data = d, !.wts = ts[t]], t) = Rest(m, t, ts[t], d)
    BY <1>1, RestType
  <1> QED BY <1>8, <1>10, <1>11

\* A turn of cleanup that returns a write of row r: it leaves the row with value d
\* of time w, as it was after an abort.
Returns(t, r, w, d) ==
  /\ Releasing(t, r, w, d)
  /\ LetThrough(manager[r], t, w, d, Announcers(r), Waiters(r), ts)
  /\ t \in Announcers(r) /\ t \in Readers(r)
  /\ \/ rc[t] = "Abort" /\ w = manager[r].wts /\ d = manager[r].data
     \/ rc[t] = "RCOK" /\ w = ts[t] /\ d = Last(accesses[t]).data + 1

LEMMA ReturnWrites ==
  ASSUME IInv, NEW t \in Threads, ReturnRow(t), Last(accesses[t]).type = "WR"
  PROVE  \E w, d \in Nat : Returns(t, Last(accesses[t]).row, w, d)
  <1> DEFINE a == Last(accesses[t])
             r == a.row
             m == manager[r]
  <1>1. r \in Rows /\ a.data + 1 \in Nat /\ m \in Manager /\ m.wts \in Nat /\ m.data \in Nat
        /\ ts[t] \in Nat
    <2>1. r \in Rows /\ a.data + 1 \in Nat
      BY ReturnFacts
    <2> HIDE DEF a
    <2> QED BY <2>1, RowFacts, ClockFacts
  <1>2. t \in Announcers(r) /\ t \in Readers(r)
    <2>1. /\ Len(accesses[t]) \in DOMAIN accesses[t]
          /\ accesses[t][Len(accesses[t])].row = r
          /\ accesses[t][Len(accesses[t])].type = "WR"
      BY ReturnFacts, ThreadFacts DEF IInv
    <2> QED BY <2>1 DEF Announcers, Announced, Readers, HasRead
  <1>3. PICK s \in {IF rc[t] = "Abort" THEN XP_REQ(m, t) ELSE W_REQ(m, t, a.data + 1)} :
               Released(r, s)
    BY DEF ReturnRow
  <1> HIDE DEF a
  <1>4. CASE rc[t] = "Abort"
    <2>1. debuffer_prewrite(m, t) = Rest(m, t, m.wts, m.data)
      BY <1>1, RestType
    <2>2. Released(r, update_buffer(Rest(m, t, m.wts, m.data)))
      BY <1>3, <1>4, <2>1 DEF XP_REQ
    <2>3. Returns(t, r, m.wts, m.data)
      BY <1>1, <1>2, <1>4, <2>2, ReleasedFacts DEF Returns
    <2> QED BY <1>1, <2>3 DEF a
  <1>5. CASE rc[t] # "Abort"
    <2>1. rc[t] = "RCOK"
      BY <1>5 DEF IInv, Types
    <2>2. Released(r, update_buffer(Rest(m, t, ts[t], a.data + 1)))
      BY <1>1, <1>2, <1>3, <1>5, WriteAtOnce
    <2>3. Releasing(t, r, ts[t], a.data + 1)
          /\ LetThrough(m, t, ts[t], a.data + 1, Announcers(r), Waiters(r), ts)
      BY <1>1, <2>2, ReleasedFacts
    <2>4. Returns(t, r, ts[t], a.data + 1)
      BY <1>1, <1>2, <2>1, <2>3 DEF Returns, a
    <2> QED BY <1>1, <2>4 DEF a
  <1> QED BY <1>4, <1>5

------------------------------------------------------------------------------
(***************************************************************************)
(* Types, clock, log and progress are inductive                            *)
(***************************************************************************)

Core == Types /\ Clock /\ Log /\ \A t \in Threads : Progress(t)

LEMMA ProgressFrame ==
  ASSUME NEW u \in Threads, Progress(u), accesses'[u] = accesses[u],
         query'[u] = query[u], pc'[u] = pc[u]
  PROVE  Progress(u)'
  BY DEF Progress, Cur

\* An action of a thread t that runs its query, and ends in an abort if it ends.
LEMMA CoreFrame ==
  ASSUME IInv, Types', NEW t \in Threads,
         UNCHANGED <<timestamp, ts, committed, query>>,
         \A u \in Threads \ {t} :
           pc'[u] = pc[u] /\ rc'[u] = rc[u] /\ accesses'[u] = accesses[u],
         pc[t] \notin {"idle", "cleanup"}, pc'[t] # "idle",
         pc'[t] = "cleanup" => rc'[t] = "Abort", Progress(t)'
  PROVE  Core'
  <1>1. Clock'
    BY DEF IInv, Clock
  <1>2. Log'
    <2>1. \A c \in committed : c.ts # ts[t]
      BY NotLogged
    <2> QED BY <2>1 DEF IInv, Log
  <1>3. \A u \in Threads : Progress(u)'
    <2>1. ASSUME NEW u \in Threads, u # t PROVE Progress(u)'
      BY <2>1, ProgressFrame DEF IInv
    <2> QED BY <2>1
  <1> QED BY <1>1, <1>2, <1>3 DEF Core

\* The manager of row r becomes m.
Becomes(r, m) ==
  /\ manager' \in [Rows -> Manager] /\ manager'[r] = m
  /\ \A s \in Rows : manager'[s].rts < timestamp
  /\ \A s \in Rows \ {r} : manager'[s] = manager[s]

LEMMA ManagerNext ==
  ASSUME IInv, NEW r \in Rows, NEW m \in Manager, m.rts < timestamp,
         manager' = [manager EXCEPT ![r] = m]
  PROVE  Becomes(r, m)
  <1>1. manager \in [Rows -> Manager] /\ \A s \in Rows : manager[s].rts < timestamp
    BY DEF IInv, Types
  <1> HIDE DEF Manager
  <1>2. /\ manager' \in [Rows -> Manager] /\ manager'[r] = m
        /\ \A s \in Rows \ {r} : manager'[s] = manager[s]
    BY <1>1
  <1> QED BY <1>1, <1>2 DEF Becomes

LEMMA StartCore ==
  ASSUME IInv, NEW t \in Threads, StartTxn(t)
  PROVE  Core'
  <1>1. /\ pc[t] \in {"idle", "retry"} /\ timestamp <= MAX_TS
        /\ ts' = [ts EXCEPT ![t] = timestamp] /\ timestamp' = timestamp + 1
        /\ pc' = [pc EXCEPT ![t] = "run"]
        /\ UNCHANGED <<manager, ts_ready, cur_row, accesses, rc, committed>>
    BY DEF StartTxn, Goto
  <1>2. PICK q \in Queries : query' = [query EXCEPT ![t] = q]
    BY <1>1 DEF StartTxn, IInv, Progress
  <1>3. timestamp \in 1..MAX_TS /\ MAX_TS \in Nat /\ timestamp' \in 1..UINT64_MAX
        /\ timestamp \in Nat /\ timestamp \in 0..MAX_TS
    BY <1>1, MaxFacts DEF IInv, Types
  <1>5. ts \in [Threads -> 0..MAX_TS] /\ pc \in [Threads -> PC]
        /\ query \in [Threads -> Queries \union {<<>>}]
    BY DEF IInv, Types
  <1>4. Types'
    <2>1. ts' \in [Threads -> 0..MAX_TS] /\ pc' \in [Threads -> PC]
          /\ query' \in [Threads -> Queries \union {<<>>}]
      BY <1>1, <1>2, <1>3, <1>5 DEF PC
    <2>2. \A r \in Rows : manager'[r].rts < timestamp'
      <3>1. \A r \in Rows : manager[r].rts \in Nat /\ manager[r].rts < timestamp
        BY RowFacts
      <3> QED BY <1>1, <1>3, <3>1
    <2> QED BY <1>1, <1>3, <2>1, <2>2 DEF IInv, Types
  <1>6. /\ ts'[t] = timestamp /\ \A u \in Threads \ {t} : ts'[u] = ts[u]
        /\ pc'[t] = "run" /\ \A u \in Threads \ {t} : pc'[u] = pc[u]
        /\ query'[t] = q /\ \A u \in Threads \ {t} : query'[u] = query[u]
    BY <1>1, <1>2, <1>5
  <1>7. Clock'
    <2>1. \A u \in Threads : /\ ts[u] \in Nat /\ ts[u] < timestamp
                             /\ ts[u] = 0 => pc[u] = "idle"
      BY ClockFacts DEF IInv, Clock
    <2>2. \A u, w \in Threads : ts[u] = ts[w] /\ ts[u] # 0 => u = w
      BY DEF IInv, Clock
    <2>3. \A u, w \in Threads : ts'[u] = ts'[w] /\ ts'[u] # 0 => u = w
      BY <1>3, <1>6, <2>1, <2>2
    <2>4. \A u \in Threads : ts'[u] < timestamp' /\ (ts'[u] = 0 => pc'[u] = "idle")
      BY <1>1, <1>3, <1>6, <2>1
    <2> QED BY <2>3, <2>4 DEF Clock
  <1>8. Log'
    <2>1. \A c \in committed : c.ts \in Nat /\ 0 < c.ts /\ c.ts < timestamp
      BY LogFacts
    <2>2. \A c \in committed : c.ts < timestamp' /\ c.ts # timestamp
      BY <1>1, <1>3, <2>1
    <2>3. IsFiniteSet(committed) /\ \A c, d \in committed : c.ts = d.ts => c = d
      BY LogFacts
    <2>4. \A c \in committed, u \in Threads : c.ts = ts'[u] =>
            pc'[u] = "idle" \/ (pc'[u] = "cleanup" /\ rc'[u] = "RCOK")
      BY <1>1, <1>6, <2>2, LogFacts
    <2>5. \A u \in Threads : pc'[u] = "cleanup" /\ rc'[u] = "RCOK" =>
            \E c \in committed : c.ts = ts'[u] /\ c.query = query'[u]
      BY <1>1, <1>6 DEF IInv, Log
    <2> QED BY <1>1, <2>1, <2>2, <2>3, <2>4, <2>5 DEF Log
  <1>9. ASSUME NEW u \in Threads PROVE Progress(u)'
    <2>1. CASE u # t
      <3>1. Progress(u) /\ accesses'[u] = accesses[u]
        BY <1>1 DEF IInv
      <3> QED BY <1>6, <2>1, <3>1, ProgressFrame
    <2>2. CASE u = t
      <3>1. accesses'[t] = <<>> /\ Len(q) \in Nat
        BY <1>1, QueryType DEF IInv, Progress
      <3> QED BY <1>6, <2>2, <3>1 DEF Progress
    <2> QED BY <2>1, <2>2
  <1> QED BY <1>4, <1>7, <1>8, <1>9 DEF Core

LEMMA AnnounceCore ==
  ASSUME IInv, NEW t \in Threads, Announces(t)
  PROVE  Core' /\ Becomes(Row(t), buffer_prewrite(M(t), t))
  <1>1. /\ Requests(t) /\ pc[t] = "run" /\ Cur(t).type = "WR"
        /\ manager' = [manager EXCEPT ![Row(t)] = buffer_prewrite(M(t), t)]
        /\ pc' = [pc EXCEPT ![t] = "read"]
        /\ UNCHANGED <<timestamp, ts, query, ts_ready, cur_row, accesses, rc, committed>>
    BY DEF Announces
  <1>2. /\ Row(t) \in Rows /\ M(t) \in Manager /\ Types
        /\ Buffers(M(t), Announcers(Row(t)), Waiters(Row(t)), ts) /\ ts \in Stamps
    BY <1>1, RequestFacts, RowFacts, ClockFacts DEF IInv
  <1>3. buffer_prewrite(M(t), t) \in Manager
    BY <1>2, BuffersAnnounce
  <1>4. buffer_prewrite(M(t), t).rts < timestamp
    <2>1. buffer_prewrite(M(t), t).rts = M(t).rts
      BY <1>2 DEF buffer_prewrite, Manager
    <2> QED BY <1>1, <1>2, <2>1, RequestFacts, RowFacts
  <1>5. Becomes(Row(t), buffer_prewrite(M(t), t))
    BY <1>1, <1>2, <1>3, <1>4, ManagerNext
  <1>6. pc' \in [Threads -> PC] /\ pc'[t] = "read" /\ \A u \in Threads \ {t} : pc'[u] = pc[u]
    BY <1>1, <1>2 DEF Types, PC
  <1>7. Types'
    BY <1>1, <1>2, <1>5, <1>6 DEF Types, Becomes
  <1>8. Progress(t)'
    <2>1. Progress(t)
      BY DEF IInv
    <2> QED BY <1>1, <1>6, <2>1, RequestFacts DEF Progress, Cur
  <1>9. Core'
    BY <1>1, <1>6, <1>7, <1>8, CoreFrame
  <1> QED BY <1>5, <1>9

LEMMA RefusedCore ==
  ASSUME IInv, NEW t \in Threads, Refused(t)
  PROVE  Core'
  <1>1. /\ pc[t] = "run"
        /\ rc' = [rc EXCEPT ![t] = "Abort"] /\ pc' = [pc EXCEPT ![t] = "cleanup"]
        /\ UNCHANGED <<timestamp, ts, query, manager, ts_ready, cur_row, accesses, committed>>
    BY DEF Refused
  <1>2. Types /\ Progress(t)
    BY DEF IInv
  <1>3. rc' \in [Threads -> {"RCOK", "Abort"}] /\ pc' \in [Threads -> PC]
        /\ pc'[t] = "cleanup" /\ rc'[t] = "Abort"
        /\ \A u \in Threads \ {t} : pc'[u] = pc[u] /\ rc'[u] = rc[u]
    BY <1>1, <1>2 DEF Types, PC
  <1>4. Types'
    BY <1>1, <1>2, <1>3 DEF Types
  <1>5. Progress(t)'
    BY <1>1, <1>2, <1>3 DEF Progress
  <1> QED BY <1>1, <1>3, <1>4, <1>5, CoreFrame

\* A read is recorded.
LEMMA RecordFacts ==
  ASSUME IInv, NEW t \in Threads, Requests(t) \/ pc[t] = "read" \/ pc[t] = "spin",
         NEW d \in Nat, Records(t, d)
  PROVE  /\ accesses' \in [Threads -> Seq(AccessType)] /\ pc' \in [Threads -> PC]
         /\ pc'[t] = "run" /\ Used(t, d) \in AccessType
         /\ accesses'[t] = Append(accesses[t], Used(t, d))
         /\ Len(accesses'[t]) = Len(accesses[t]) + 1
         /\ accesses'[t][Len(accesses[t]) + 1] = Used(t, d)
         /\ \A k \in 1..Len(accesses[t]) : accesses'[t][k] = accesses[t][k]
         /\ \A u \in Threads \ {t} : pc'[u] = pc[u] /\ accesses'[u] = accesses[u]
         /\ Progress(t)'
  <1>1. /\ accesses' = [accesses EXCEPT ![t] = Append(accesses[t], Used(t, d))]
        /\ pc' = [pc EXCEPT ![t] = "run"]
        /\ UNCHANGED <<timestamp, ts, query, ts_ready, rc, committed>>
    BY DEF Records
  <1>2. /\ accesses \in [Threads -> Seq(AccessType)] /\ pc \in [Threads -> PC]
        /\ Used(t, d) \in AccessType
    BY RequestFacts DEF IInv, Types, Used, AccessType
  <1> DEFINE new == Append(accesses[t], Used(t, d))
  <1>3. /\ Len(accesses[t]) \in Nat /\ new \in Seq(AccessType)
        /\ Len(new) = Len(accesses[t]) + 1 /\ new[Len(accesses[t]) + 1] = Used(t, d)
        /\ \A k \in 1..Len(accesses[t]) : new[k] = accesses[t][k]
    <2>1. accesses[t] \in Seq(AccessType)
      BY <1>2
    <2> HIDE DEF AccessType
    <2> QED BY <1>2, <2>1
  <1>4. Used(t, d).row = query[t][Len(accesses[t]) + 1].row
        /\ Used(t, d).type = query[t][Len(accesses[t]) + 1].type
    BY DEF Used, Row, Cur
  <1>5. accesses' = [accesses EXCEPT ![t] = new]
    BY <1>1
  <1>10. accesses'[t] = Append(accesses[t], Used(t, d))
    BY <1>1, <1>2
  <1> HIDE DEF new
  <1>6. accesses' \in [Threads -> Seq(AccessType)] /\ pc' \in [Threads -> PC]
    BY <1>1, <1>2, <1>3, <1>5 DEF PC
  <1>8. /\ pc'[t] = "run" /\ accesses'[t] = new
        /\ \A u \in Threads \ {t} : pc'[u] = pc[u] /\ accesses'[u] = accesses[u]
    BY <1>1, <1>2, <1>5
  <1>9. Progress(t)'
    <2>1. Progress(t) /\ query[t] \in Queries /\ Len(accesses[t]) < Len(query[t])
      BY RequestFacts DEF IInv
    <2>2. Len(query[t]) \in Nat
      BY <2>1, QueryType
    <2>3. \A k \in 1..(Len(accesses[t]) + 1) : k \in 1..Len(accesses[t]) \/ k = Len(accesses[t]) + 1
      BY <1>3
    <2>4. \A k \in 1..Len(new) : new[k].row = query[t][k].row /\ new[k].type = query[t][k].type
      BY <1>3, <1>4, <2>1, <2>3 DEF Progress
    <2>5. Len(new) <= Len(query[t])
      BY <1>3, <2>1, <2>2
    <2> QED BY <1>1, <1>8, <2>1, <2>4, <2>5 DEF Progress
  <1> QED BY <1>2, <1>3, <1>6, <1>8, <1>9, <1>10

LEMMA ReadCore ==
  ASSUME IInv, NEW t \in Threads, ReadRow(t)
  PROVE  Core' /\ Becomes(Row(t), [M(t) EXCEPT !.rts = NewRts(t)])
  <1>1. /\ Requests(t) \/ pc[t] = "read"
        /\ pc[t] \in {"run", "read"}
        /\ manager' = [manager EXCEPT ![Row(t)] = [M(t) EXCEPT !.rts = NewRts(t)]]
        /\ cur_row' = [cur_row EXCEPT ![t] = M(t).data]
        /\ Records(t, M(t).data) /\ NewRts(t) \in Nat
        /\ NewRts(t) = M(t).rts \/ NewRts(t) = ts[t]
    BY ReadFacts
  <1>2. /\ Row(t) \in Rows /\ M(t) \in Manager /\ M(t) = manager[Row(t)] /\ Types
        /\ M(t).data \in Nat
    BY <1>1, RequestFacts DEF IInv
  <1> DEFINE m == [M(t) EXCEPT !.rts = NewRts(t)]
  <1>3. m \in Manager /\ m.rts = NewRts(t)
    BY <1>1, <1>2 DEF Manager
  <1>4. m.rts < timestamp
    BY <1>1, <1>2, <1>3, RowFacts, ClockFacts
  <1>5. Becomes(Row(t), m)
    <2> HIDE DEF m
    <2>1. manager' = [manager EXCEPT ![Row(t)] = m]
      BY <1>1 DEF m
    <2> QED BY <1>2, <1>3, <1>4, <2>1, ManagerNext
  <1> HIDE DEF m
  <1>6. cur_row' \in [Threads -> Nat]
    BY <1>1, <1>2 DEF Types
  <1>7. /\ UNCHANGED <<timestamp, ts, query, ts_ready, rc, committed>>
        /\ accesses' \in [Threads -> Seq(AccessType)] /\ pc' \in [Threads -> PC]
        /\ pc'[t] = "run" /\ Progress(t)'
        /\ \A u \in Threads \ {t} : pc'[u] = pc[u] /\ accesses'[u] = accesses[u]
    BY <1>1, <1>2, RecordFacts DEF Records
  <1>8. Types'
    BY <1>2, <1>5, <1>6, <1>7 DEF Types, Becomes
  <1>9. Core'
    BY <1>1, <1>7, <1>8, CoreFrame
  <1> QED BY <1>5, <1>9 DEF m

LEMMA WaitCore ==
  ASSUME IInv, NEW t \in Threads, ReadWaits(t)
  PROVE  Core' /\ Becomes(Row(t), buffer_read(M(t), t))
  <1>1. /\ Requests(t) \/ pc[t] = "read"
        /\ pc[t] \in {"run", "read"}
        /\ manager' = [manager EXCEPT ![Row(t)] = buffer_read(M(t), t)]
        /\ ts_ready' = [ts_ready EXCEPT ![t] = FALSE]
        /\ pc' = [pc EXCEPT ![t] = "spin"]
        /\ UNCHANGED <<timestamp, ts, query, cur_row, accesses, rc, committed>>
        /\ \E u \in Announcers(Row(t)) : ts[u] < ts[t]
    BY WaitFacts
  <1>2. /\ Row(t) \in Rows /\ M(t) \in Manager /\ Types /\ M(t) = manager[Row(t)]
        /\ Buffers(M(t), Announcers(Row(t)), Waiters(Row(t)), ts) /\ ts \in Stamps
    BY <1>1, RequestFacts, RowFacts, ClockFacts DEF IInv
  <1>3. buffer_read(M(t), t) \in Manager
    BY <1>1, <1>2, BuffersWait
  <1>4. buffer_read(M(t), t).rts < timestamp
    <2>1. buffer_read(M(t), t).rts = M(t).rts
      BY <1>2 DEF buffer_read, Manager
    <2> QED BY <1>2, <2>1, RowFacts
  <1>5. Becomes(Row(t), buffer_read(M(t), t))
    BY <1>1, <1>2, <1>3, <1>4, ManagerNext
  <1>6. /\ pc' \in [Threads -> PC] /\ pc'[t] = "spin" /\ ts_ready' \in [Threads -> BOOLEAN]
        /\ \A u \in Threads \ {t} : pc'[u] = pc[u]
    BY <1>1, <1>2 DEF Types, PC
  <1>7. Types'
    BY <1>1, <1>2, <1>5, <1>6 DEF Types, Becomes
  <1>8. Progress(t)'
    <2>1. Progress(t)
      BY DEF IInv
    <2> QED BY <1>1, <1>6, <2>1, RequestFacts DEF Progress, Cur
  <1>9. Core'
    BY <1>1, <1>6, <1>7, <1>8, CoreFrame
  <1> QED BY <1>5, <1>9

LEMMA LeaveCore ==
  ASSUME IInv, NEW t \in Threads, LeaveSpin(t)
  PROVE  Core'
  <1>1. /\ pc[t] = "spin" /\ Records(t, cur_row[t]) /\ cur_row[t] \in Nat
        /\ UNCHANGED <<manager, cur_row>>
    BY LeaveFacts
  <1>2. Types
    BY DEF IInv
  <1>3. /\ UNCHANGED <<timestamp, ts, query, ts_ready, rc, committed>>
        /\ accesses' \in [Threads -> Seq(AccessType)] /\ pc' \in [Threads -> PC]
        /\ pc'[t] = "run" /\ Progress(t)'
        /\ \A u \in Threads \ {t} : pc'[u] = pc[u] /\ accesses'[u] = accesses[u]
    BY <1>1, RecordFacts DEF Records
  <1>4. Types'
    BY <1>1, <1>2, <1>3 DEF Types
  <1> QED BY <1>1, <1>3, <1>4, CoreFrame

LEMMA FinishCore ==
  ASSUME IInv, NEW t \in Threads, FinishTxn(t)
  PROVE  Core'
  <1>1. Types /\ Clock /\ \A u \in Threads : Progress(u)
    BY DEF IInv
  <1>2. rc' \in [Threads -> {"RCOK", "Abort"}] /\ pc' \in [Threads -> PC]
    BY <1>1, FinishFacts DEF Types, PC
  <1>3. Types'
    BY <1>1, <1>2, FinishFacts DEF Types
  <1>4. /\ pc'[t] = "cleanup" /\ rc'[t] = "RCOK" /\ pc[t] = "run"
        /\ \A u \in Threads \ {t} : pc'[u] = pc[u] /\ rc'[u] = rc[u]
    BY <1>1, FinishFacts DEF Types
  <1>5. /\ UNCHANGED <<timestamp, ts, query, accesses>>
        /\ committed' = committed \union {Logged(t)}
        /\ Logged(t).ts = ts[t] /\ Logged(t).query = query[t]
    BY FinishFacts
  <1>6. Clock'
    BY <1>1, <1>4, <1>5 DEF Clock
  <1>7. Log'
    <2>1. IsFiniteSet(committed')
      BY <1>5, LogFacts, FS_AddElement
    <2>2. 0 < ts[t] /\ ts[t] < timestamp
      <3>1. ts[t] \in Nat /\ ts[t] # 0 /\ ts[t] < timestamp
        BY <1>4, ClockFacts
      <3> QED BY <3>1
    <2>3. \A c \in committed : c.ts # ts[t]
      BY <1>4, NotLogged
    <2>4. \A u \in Threads : ts[u] = ts[t] => u = t
      BY <1>4, ClockFacts
    <2>5. \A c \in committed' : 0 < c.ts /\ c.ts < timestamp'
      BY <1>5, <2>2 DEF IInv, Log
    <2>6. \A c, d \in committed' : c.ts = d.ts => c = d
      BY <1>5, <2>3, LogFacts
    <2>7. \A c \in committed', u \in Threads : c.ts = ts'[u] =>
            pc'[u] = "idle" \/ (pc'[u] = "cleanup" /\ rc'[u] = "RCOK")
      BY <1>4, <1>5, <2>3, <2>4, LogFacts
    <2>8. \A u \in Threads : pc'[u] = "cleanup" /\ rc'[u] = "RCOK" =>
            \E c \in committed' : c.ts = ts'[u] /\ c.query = query'[u]
      BY <1>4, <1>5 DEF IInv, Log
    <2> QED BY <2>1, <2>5, <2>6, <2>7, <2>8 DEF Log
  <1>8. ASSUME NEW u \in Threads PROVE Progress(u)'
    <2>1. CASE u # t
      BY <1>1, <1>4, <1>5, <2>1, ProgressFrame
    <2>2. CASE u = t
      BY <1>1, <1>4, <1>5, <2>2 DEF Progress
    <2> QED BY <2>1, <2>2
  <1> QED BY <1>3, <1>6, <1>7, <1>8 DEF Core

LEMMA EndsCore ==
  ASSUME IInv, NEW t \in Threads, TxnEnds(t)
  PROVE  Core'
  <1>1. /\ pc[t] = "cleanup" /\ accesses[t] = <<>>
        /\ pc' = [pc EXCEPT ![t] = IF rc[t] = "Abort" THEN "retry" ELSE "idle"]
        /\ UNCHANGED <<timestamp, ts, query, manager, ts_ready, cur_row, accesses, rc, committed>>
    BY DEF TxnEnds, Goto, threadVars
  <1>2. Types /\ Clock /\ Log /\ (\A u \in Threads : Progress(u)) /\ rc[t] \in {"RCOK", "Abort"}
    BY DEF IInv, Types
  <1>3. pc' \in [Threads -> PC]
    BY <1>1, <1>2 DEF Types, PC
  <1>4. Types'
    BY <1>1, <1>2, <1>3 DEF Types
  <1>5. /\ pc'[t] = IF rc[t] = "Abort" THEN "retry" ELSE "idle"
        /\ \A u \in Threads \ {t} : pc'[u] = pc[u]
    BY <1>1, <1>2 DEF Types
  <1>6. Clock'
    BY <1>1, <1>2, <1>5 DEF Clock
  <1>7. Log'
    BY <1>1, <1>2, <1>5 DEF Log
  <1>8. ASSUME NEW u \in Threads PROVE Progress(u)'
    <2>1. CASE u # t
      BY <1>1, <1>2, <1>5, <2>1, ProgressFrame
    <2>2. CASE u = t
      BY <1>1, <1>2, <1>5, <2>2 DEF Progress
    <2> QED BY <2>1, <2>2
  <1> QED BY <1>4, <1>6, <1>7, <1>8 DEF Core

LEMMA ReleaseCore ==
  ASSUME IInv, NEW t \in Threads, NEW r \in Rows, NEW w, NEW d, Returns(t, r, w, d)
  PROVE  Becomes(r, update_buffer(Rest(manager[r], t, w, d)).m)
  <1> DEFINE m   == update_buffer(Rest(manager[r], t, w, d)).m
             rel == Freed(manager[r], t, Waiters(r), ts)
  <1>1. /\ manager' = [manager EXCEPT ![r] = m] /\ m \in Manager
        /\ m.rts = manager[r].rts \/ \E u \in rel : m.rts = ts[u]
    BY DEF Returns, Releasing, LetThrough
  <1>2. rel \subseteq Threads
    BY DEF Freed, Waiters
  <1> HIDE DEF m, rel
  <1>3. m.rts < timestamp
    BY <1>1, <1>2, RowFacts, ClockFacts
  <1>4. Becomes(r, m)
    BY <1>1, <1>3, ManagerNext
  <1> QED BY <1>4 DEF m

LEMMA ReturnCore ==
  ASSUME IInv, NEW t \in Threads, ReturnRow(t)
  PROVE  Core'
  <1> DEFINE a == Last(accesses[t])
  <1>1. Types /\ Clock /\ Log /\ (\A u \in Threads : Progress(u))
    BY DEF IInv
  <1>2. /\ manager' \in [Rows -> Manager] /\ \A r \in Rows : manager'[r].rts < timestamp
        /\ ts_ready' \in [Threads -> BOOLEAN] /\ cur_row' \in [Threads -> Nat]
    <2>1. CASE a.type = "WR"
      <3>1. PICK w \in Nat, d \in Nat : Returns(t, a.row, w, d)
        BY <2>1, ReturnWrites
      <3>2. a.row \in Rows
        BY ReturnFacts
      <3> HIDE DEF a
      <3>3. Becomes(a.row, update_buffer(Rest(manager[a.row], t, w, d)).m)
        BY <3>1, <3>2, ReleaseCore
      <3> QED BY <3>1, <3>3 DEF Becomes, Returns, Releasing
    <2>2. CASE a.type # "WR"
      BY <1>1, <2>2 DEF ReturnRow, Types
    <2> QED BY <2>1, <2>2
  <1>3. accesses \in [Threads -> Seq(AccessType)] /\ Front(accesses[t]) \in Seq(AccessType)
    BY <1>1, ReturnFacts DEF Types
  <1>4. accesses' \in [Threads -> Seq(AccessType)]
    BY <1>3, ReturnFacts
  <1>5. Types'
    BY <1>1, <1>2, <1>4, ReturnFacts DEF Types
  <1>6. /\ accesses'[t] = Front(accesses[t])
        /\ \A u \in Threads \ {t} : accesses'[u] = accesses[u]
    BY <1>3, ReturnFacts
  <1>7. Clock' /\ Log'
    BY <1>1, ReturnFacts DEF Clock, Log
  <1>8. ASSUME NEW u \in Threads PROVE Progress(u)'
    <2>1. CASE u # t
      BY <1>1, <1>6, <2>1, ReturnFacts, ProgressFrame
    <2>2. CASE u = t
      <3> DEFINE s == accesses[t]
      <3>1. /\ Len(Front(s)) = Len(s) - 1 /\ Len(s) \in 1..Len(s)
            /\ \A i \in 1..(Len(s) - 1) : Front(s)[i] = s[i]
        BY ReturnFacts
      <3>2. Len(s) \in Nat
        BY <1>1, ThreadFacts
      <3>3. \A i \in 1..Len(Front(s)) : i \in 1..Len(s) /\ Front(s)[i] = s[i]
        BY <3>1, <3>2
      <3>4. pc[t] = "cleanup" /\ pc' = pc /\ query' = query
        BY ReturnFacts
      <3>5. Len(Front(s)) <= Len(query[t])
        <4>1. Len(query[t]) \in Nat /\ Len(s) <= Len(query[t])
          BY <1>1, <3>4, InQuery DEF Progress
        <4> QED BY <3>1, <3>2, <4>1
      <3> QED BY <1>1, <1>6, <2>2, <3>3, <3>4, <3>5 DEF Progress
    <2> QED BY <2>1, <2>2
  <1> QED BY <1>5, <1>7, <1>8 DEF Core

------------------------------------------------------------------------------
(***************************************************************************)
(* What a step does to the announcers, readers and waiters of a row        *)
(***************************************************************************)

\* Thread u is to row r what it was.
SameTo(u, r) == /\ Announced(u, r)' <=> Announced(u, r)
                /\ HasRead(u, r)' <=> HasRead(u, r)
                /\ Waits(u, r)' <=> Waits(u, r)

LEMMA SetsNext ==
  ASSUME NEW t \in Threads, NEW r
  PROVE  /\ Announced(t, r)' <=>
              \/ WrOn(accesses'[t], r)
              \/ pc'[t] \in {"read", "spin"} /\ Cur(t)' = [row |-> r, type |-> "WR"]
         /\ HasRead(t, r)' <=> On(accesses'[t], r) \/ (Granted(t)' /\ Row(t)' = r)
         /\ Waits(t, r)' <=> pc'[t] = "spin" /\ ~ ts_ready'[t] /\ Row(t)' = r
         /\ Granted(t)' <=> pc'[t] = "spin" /\ ts_ready'[t]
         /\ Row(t)' = Cur(t)'.row /\ Cur(t)' = query'[t][Len(accesses'[t]) + 1]
  BY DEF Announced, HasRead, On, WrOn, Waits, Granted, Row, Cur

LEMMA NothingOn ==
  ASSUME NEW r
  PROVE  ~ On(<<>>, r) /\ ~ WrOn(<<>>, r)
  BY DEF On, WrOn

LEMMA OthersSame ==
  ASSUME NEW u \in Threads, Unmoved(u), NEW r
  PROVE  SameTo(u, r)
  BY UnmovedSets DEF SameTo

LEMMA StartSets ==
  ASSUME IInv, NEW t \in Threads, StartTxn(t), NEW u \in Threads, NEW r
  PROVE  /\ SameTo(u, r) /\ (u # t => Unmoved(u))
         /\ ~ Announced(t, r) /\ ~ HasRead(t, r) /\ ~ Waits(t, r)
  <1>1. /\ pc[t] \in {"idle", "retry"} /\ accesses[t] = <<>>
        /\ pc'[t] = "run" /\ accesses' = accesses /\ ts_ready' = ts_ready
    BY DEF StartTxn, Goto, IInv, Progress, Types
  <1>2. \A w \in Threads \ {t} : Unmoved(w)
    BY <1>1 DEF StartTxn, Goto, IInv, Types, Unmoved
  <1>3. ~ Announced(t, r) /\ ~ HasRead(t, r) /\ ~ Waits(t, r)
    BY <1>1, Sets, NothingOn DEF Granted, Waits
  <1>4. ~ Announced(t, r)' /\ ~ HasRead(t, r)' /\ ~ Waits(t, r)'
    BY <1>1, SetsNext, NothingOn
  <1> QED BY <1>2, <1>3, <1>4, OthersSame DEF SameTo

LEMMA QuietSets ==
  ASSUME IInv, NEW t \in Threads, Refused(t) \/ FinishTxn(t) \/ TxnEnds(t),
         NEW u \in Threads, NEW r
  PROVE  SameTo(u, r) /\ (u # t => Unmoved(u)) /\ (Granted(u)' <=> Granted(u))
  <1>1. /\ pc[t] \in {"run", "cleanup"} /\ pc'[t] \in {"cleanup", "idle", "retry"}
        /\ accesses' = accesses /\ ts_ready' = ts_ready
    BY DEF Refused, FinishTxn, TxnEnds, Goto, IInv, Types
  <1>2. \A w \in Threads \ {t} : Unmoved(w)
    BY <1>1 DEF Refused, FinishTxn, TxnEnds, Goto, IInv, Types, Unmoved, threadVars
  <1>3. SameTo(t, r) /\ (Granted(t)' <=> Granted(t))
    BY <1>1, Sets, SetsNext DEF SameTo, Granted, Waits
  <1> QED BY <1>2, <1>3, OthersSame, UnmovedSets

LEMMA LeaveSets ==
  ASSUME IInv, NEW t \in Threads, LeaveSpin(t), NEW u \in Threads, NEW r
  PROVE  SameTo(u, r) /\ (u # t => Unmoved(u)) /\ ~ Granted(t)'
  <1>1. /\ Granted(t) /\ pc[t] = "spin" /\ ts_ready[t] /\ cur_row[t] \in Nat
        /\ Records(t, cur_row[t])
    BY LeaveFacts
  <1>2. /\ pc'[t] = "run" /\ Used(t, cur_row[t]) \in AccessType
        /\ accesses'[t] = Append(accesses[t], Used(t, cur_row[t]))
        /\ \A w \in Threads \ {t} : Unmoved(w)
    BY <1>1, RecordFacts DEF Unmoved, Records
  <1>3. accesses[t] \in Seq(AccessType)
    BY DEF IInv, Types
  <1>4. Used(t, cur_row[t]).row = Row(t) /\ Used(t, cur_row[t]).type = Cur(t).type
    BY DEF Used
  <1>5. /\ On(accesses'[t], r) <=> On(accesses[t], r) \/ Row(t) = r
        /\ WrOn(accesses'[t], r) <=> WrOn(accesses[t], r) \/ (Row(t) = r /\ Cur(t).type = "WR")
    BY <1>2, <1>3, <1>4, OnAppend
  <1>6. Cur(t) = [row |-> r, type |-> "WR"] <=> Row(t) = r /\ Cur(t).type = "WR"
    BY <1>1, RequestFacts
  <1>7. SameTo(t, r) /\ ~ Granted(t)'
    BY <1>1, <1>2, <1>5, <1>6, Sets, SetsNext DEF SameTo, Waits
  <1> QED BY <1>2, <1>7, OthersSame

\* A prewrite makes an announcer of its thread, ...
LEMMA AnnounceSets ==
  ASSUME IInv, NEW t \in Threads, Announces(t), NEW u \in Threads, NEW r
  PROVE  /\ u # t \/ r # Row(t) => SameTo(u, r)
         /\ u # t => Unmoved(u)
         /\ r = Row(t) => Announced(t, r)'
         /\ HasRead(t, r)' <=> HasRead(t, r)
         /\ ~ Waits(t, r)' /\ ~ Waits(t, r) /\ ~ Granted(t)' /\ ~ Granted(t)
  <1>1. /\ pc[t] = "run" /\ Cur(t).type = "WR" /\ Requests(t)
        /\ pc' = [pc EXCEPT ![t] = "read"] /\ UNCHANGED <<query, accesses, ts_ready>>
    BY DEF Announces
  <1>2. pc \in [Threads -> PC]
    BY DEF IInv, Types
  <1>3. pc'[t] = "read" /\ \A w \in Threads \ {t} : Unmoved(w)
    BY <1>1, <1>2 DEF Unmoved
  <1>4. Cur(t)' = Cur(t) /\ Row(t)' = Row(t)
    BY <1>1 DEF Cur, Row
  <1>5. \A s : Cur(t) = [row |-> s, type |-> "WR"] <=> Row(t) = s /\ Cur(t).type = "WR"
    BY <1>1, RequestFacts
  <1>6. r = Row(t) => Announced(t, r)'
    BY <1>1, <1>3, <1>4, <1>5, SetsNext
  <1>7. /\ HasRead(t, r)' <=> HasRead(t, r)
        /\ ~ Waits(t, r)' /\ ~ Waits(t, r) /\ ~ Granted(t)' /\ ~ Granted(t)
    BY <1>1, <1>3, Sets, SetsNext DEF Waits, Granted
  <1>8. r # Row(t) => (Announced(t, r)' <=> Announced(t, r))
    BY <1>1, <1>3, <1>4, <1>5, Sets, SetsNext
  <1> QED BY <1>3, <1>6, <1>7, <1>8, OthersSame DEF SameTo

\* ... a read that is performed a reader, ...
LEMMA ReadSets ==
  ASSUME IInv, NEW t \in Threads, ReadRow(t), NEW u \in Threads, NEW r
  PROVE  /\ u # t \/ r # Row(t) => SameTo(u, r)
         /\ u # t => Unmoved(u)
         /\ (r = Row(t) => HasRead(t, r)') /\ (Announced(t, r)' <=> Announced(t, r))
         /\ ~ Waits(t, r)' /\ ~ Waits(t, r) /\ ~ Granted(t)'
  <1> DEFINE d == M(t).data
  <1>1. /\ Requests(t) \/ pc[t] = "read"
        /\ pc[t] \in {"run", "read"} /\ (pc[t] = "run" => Cur(t).type = "RD")
        /\ Records(t, d)
    BY ReadFacts
  <1>2. d \in Nat /\ (pc[t] = "read" => Cur(t).type = "WR")
    BY <1>1, RequestFacts DEF IInv, Progress
  <1> HIDE DEF d
  <1>3. /\ pc'[t] = "run" /\ Used(t, d) \in AccessType
        /\ accesses'[t] = Append(accesses[t], Used(t, d))
        /\ \A w \in Threads \ {t} : Unmoved(w)
    BY <1>1, <1>2, RecordFacts DEF Unmoved, Records
  <1>4. accesses[t] \in Seq(AccessType)
    BY DEF IInv, Types
  <1>5. Used(t, d).row = Row(t) /\ Used(t, d).type = Cur(t).type
    BY DEF Used
  <1>6. /\ On(accesses'[t], r) <=> On(accesses[t], r) \/ Row(t) = r
        /\ WrOn(accesses'[t], r) <=> WrOn(accesses[t], r) \/ (Row(t) = r /\ Cur(t).type = "WR")
    BY <1>3, <1>4, <1>5, OnAppend
  <1>7. Cur(t) = [row |-> r, type |-> "WR"] <=> Row(t) = r /\ Cur(t).type = "WR"
    BY <1>1, RequestFacts
  <1>8. Announced(t, r)' <=> Announced(t, r)
    BY <1>1, <1>2, <1>3, <1>6, <1>7, Sets, SetsNext
  <1>9. /\ r = Row(t) => HasRead(t, r)'
        /\ r # Row(t) => (HasRead(t, r)' <=> HasRead(t, r))
        /\ ~ Waits(t, r)' /\ ~ Waits(t, r) /\ ~ Granted(t)'
    BY <1>1, <1>3, <1>6, Sets, SetsNext DEF Granted, Waits
  <1> QED BY <1>3, <1>8, <1>9, OthersSame DEF SameTo

\* ... and one that is buffered a waiter.
LEMMA WaitSets ==
  ASSUME IInv, NEW t \in Threads, ReadWaits(t), NEW u \in Threads, NEW r
  PROVE  /\ u # t \/ r # Row(t) => SameTo(u, r)
         /\ u # t => Unmoved(u)
         /\ (r = Row(t) => Waits(t, r)') /\ (Announced(t, r)' <=> Announced(t, r))
         /\ (HasRead(t, r)' <=> HasRead(t, r)) /\ ~ Granted(t)' /\ ~ Granted(t)
  <1>1. /\ Requests(t) \/ pc[t] = "read"
        /\ pc[t] \in {"run", "read"} /\ (pc[t] = "run" => Cur(t).type = "RD")
        /\ pc' = [pc EXCEPT ![t] = "spin"] /\ UNCHANGED <<query, accesses>>
        /\ ts_ready' = [ts_ready EXCEPT ![t] = FALSE]
    BY WaitFacts
  <1>2. pc \in [Threads -> PC] /\ (pc[t] = "read" => Cur(t).type = "WR")
        /\ ts_ready \in [Threads -> BOOLEAN]
    BY DEF IInv, Types, Progress
  <1>3. pc'[t] = "spin" /\ ~ ts_ready'[t] /\ \A w \in Threads \ {t} : Unmoved(w)
    BY <1>1, <1>2 DEF Unmoved
  <1>4. Cur(t)' = Cur(t) /\ Row(t)' = Row(t)
    BY <1>1 DEF Cur, Row
  <1>5. \A s : Cur(t) = [row |-> s, type |-> "WR"] <=> Row(t) = s /\ Cur(t).type = "WR"
    BY <1>1, RequestFacts
  <1>6. Announced(t, r)' <=> Announced(t, r)
    BY <1>1, <1>2, <1>3, <1>4, <1>5, Sets, SetsNext
  <1>7. (HasRead(t, r)' <=> HasRead(t, r)) /\ ~ Granted(t)' /\ ~ Granted(t)
    BY <1>1, <1>3, <1>4, Sets, SetsNext DEF Granted
  <1>8. /\ r = Row(t) => Waits(t, r)'
        /\ r # Row(t) => (Waits(t, r)' <=> Waits(t, r))
    BY <1>1, <1>3, <1>4, SetsNext DEF Waits
  <1> QED BY <1>3, <1>6, <1>7, <1>8, OthersSame DEF SameTo

\* A turn of cleanup makes its thread nothing to the row, and readers of the
\* waiters that it frees.
LEMMA ReturnSets ==
  ASSUME IInv, NEW t \in Threads, ReturnRow(t), NEW u \in Threads, NEW r,
         NEW s, s = Last(accesses[t]).row
  PROVE  /\ r # s => SameTo(t, r)
         /\ ~ Announced(t, s)' /\ ~ HasRead(t, s)' /\ ~ Waits(t, s)' /\ ~ Waits(t, s)
         /\ HasRead(t, s) /\ (Announced(t, s) <=> Last(accesses[t]).type = "WR")
         /\ u # t => /\ Announced(u, r)' <=> Announced(u, r)
                     /\ On(accesses'[u], r) <=> On(accesses[u], r)
                     /\ Row(u)' = Row(u) /\ accesses'[u] = accesses[u]
                     /\ Waits(u, r)' <=> pc[u] = "spin" /\ ~ ts_ready'[u] /\ Row(u) = r
                     /\ HasRead(u, r)' <=>
                          \/ On(accesses[u], r)
                          \/ /\ pc[u] = "spin" /\ ts_ready'[u]
                             /\ Row(u) = r
  <1> DEFINE acc == accesses[t]
  <1>1. /\ pc[t] = "cleanup" /\ acc # <<>> /\ acc \in Seq(AccessType)
        /\ accesses' = [accesses EXCEPT ![t] = Front(acc)] /\ UNCHANGED <<query, pc>>
        /\ accesses \in [Threads -> Seq(AccessType)]
    BY ReturnFacts DEF IInv, Types
  <1>2. accesses'[t] = Front(acc) /\ (u # t => accesses'[u] = accesses[u])
    BY <1>1
  <1>3. \A i, j \in 1..Len(acc) : acc[i].row = acc[j].row => i = j
    BY OneEach DEF IInv
  <1>4. /\ On(Front(acc), r) <=> On(acc, r) /\ s # r
        /\ WrOn(Front(acc), r) <=> WrOn(acc, r) /\ s # r
        /\ ~ On(Front(acc), s) /\ ~ WrOn(Front(acc), s) /\ On(acc, s)
        /\ WrOn(acc, s) <=> Last(acc).type = "WR"
    BY <1>1, <1>3, OnFront
  <1>5. r # s => SameTo(t, r)
    BY <1>1, <1>2, <1>4, Sets, SetsNext DEF SameTo, Granted, Waits
  <1>6. /\ ~ Announced(t, s)' /\ ~ HasRead(t, s)' /\ ~ Waits(t, s)' /\ ~ Waits(t, s)
        /\ HasRead(t, s) /\ (Announced(t, s) <=> Last(accesses[t]).type = "WR")
    <2>1. /\ Announced(t, s)' <=>
              \/ WrOn(accesses'[t], s)
              \/ pc'[t] \in {"read", "spin"} /\ Cur(t)' = [row |-> s, type |-> "WR"]
          /\ HasRead(t, s)' <=> On(accesses'[t], s) \/ (Granted(t)' /\ Row(t)' = s)
          /\ Waits(t, s)' <=> pc'[t] = "spin" /\ ~ ts_ready'[t] /\ Row(t)' = s
          /\ Granted(t)' <=> pc'[t] = "spin" /\ ts_ready'[t]
      BY SetsNext
    <2>2. /\ Announced(t, s) <=>
              \/ WrOn(acc, s)
              \/ pc[t] \in {"read", "spin"} /\ Cur(t) = [row |-> s, type |-> "WR"]
          /\ HasRead(t, s) <=> On(acc, s) \/ (Granted(t) /\ Row(t) = s)
      BY Sets
    <2> HIDE DEF acc
    <2>3. ~ Announced(t, s)' /\ ~ HasRead(t, s)' /\ ~ Waits(t, s)'
      BY <1>1, <1>2, <1>4, <2>1
    <2>4. HasRead(t, s) /\ (Announced(t, s) <=> Last(acc).type = "WR") /\ ~ Waits(t, s)
      BY <1>1, <1>4, <2>2 DEF Waits
    <2> QED BY <2>3, <2>4 DEF acc
  <1>7. ASSUME u # t
        PROVE  /\ Announced(u, r)' <=> Announced(u, r)
               /\ Row(u)' = Row(u) /\ accesses'[u] = accesses[u]
               /\ Waits(u, r)' <=> pc[u] = "spin" /\ ~ ts_ready'[u] /\ Row(u) = r
               /\ HasRead(u, r)' <=>
                    \/ On(accesses[u], r)
                    \/ /\ pc[u] = "spin" /\ ts_ready'[u]
                       /\ Row(u) = r
    <2>1. Cur(u)' = Cur(u) /\ Row(u)' = Row(u)
      BY <1>1, <1>2, <1>7 DEF Cur, Row
    <2> QED BY <1>1, <1>2, <1>7, <2>1, Sets, SetsNext
  <1> QED BY <1>2, <1>5, <1>6, <1>7

------------------------------------------------------------------------------
(***************************************************************************)
(* The rows                                                                *)
(***************************************************************************)

LEMMA SameSets ==
  ASSUME NEW r, \A u \in Threads : SameTo(u, r)
  PROVE  /\ Announcers(r)' = Announcers(r) /\ Readers(r)' = Readers(r)
         /\ Waiters(r)' = Waiters(r)
  BY DEF SameTo, Announcers, Readers, Waiters

\* A row does not see that threads which do nothing on it draw new timestamps.
LEMMA RowFrame ==
  ASSUME NEW r, NEW m, NEW ann, NEW has, NEW wait, NEW T, NEW L, NEW T2,
         Buffers(m, ann, wait, T), Reading(r, m, ann, has, T, L),
         Writing(r, m, ann, T, L),
         \A u \in ann \union has \union wait : T2[u] = T[u]
  PROVE  /\ Buffers(m, ann, wait, T2) /\ Reading(r, m, ann, has, T2, L)
         /\ Writing(r, m, ann, T2, L)
  <1>1. Buffers(m, ann, wait, T2)
    BY DEF Buffers
  <1>2. Reading(r, m, ann, has, T2, L)
    BY DEF Reading
  <1>3. Writing(r, m, ann, T2, L)
    BY DEF Writing
  <1> QED BY <1>1, <1>2, <1>3

LEMMA RowStays ==
  ASSUME IInv, NEW r \in Rows, manager'[r] = manager[r], \A u \in Threads : SameTo(u, r),
         committed' = committed,
         \A u \in Threads : Announced(u, r) \/ HasRead(u, r) \/ Waits(u, r) => ts'[u] = ts[u]
  PROVE  RowInv(r)'
  <1>1. /\ Announcers(r)' = Announcers(r) /\ Readers(r)' = Readers(r)
        /\ Waiters(r)' = Waiters(r)
    BY SameSets
  <1>2. \A u \in Announcers(r) \union Readers(r) \union Waiters(r) : ts'[u] = ts[u]
    BY DEF Announcers, Readers, Waiters
  <1>3. /\ Buffers(manager[r], Announcers(r), Waiters(r), ts')
        /\ Reading(r, manager[r], Announcers(r), Readers(r), ts', committed)
        /\ Writing(r, manager[r], Announcers(r), ts', committed)
    BY <1>2, RowFacts, RowFrame
  <1> QED BY <1>1, <1>3 DEF RowInv

LEMMA StartRows ==
  ASSUME IInv, NEW t \in Threads, StartTxn(t), NEW r \in Rows
  PROVE  RowInv(r)'
  <1>1. manager' = manager /\ committed' = committed /\ ts' = [ts EXCEPT ![t] = timestamp]
    BY DEF StartTxn
  <1>2. \A u \in Threads : SameTo(u, r)
    BY StartSets
  <1>3. \A u \in Threads \ {t} : ts'[u] = ts[u]
    BY <1>1, ClockFacts DEF Stamps
  <1>4. \A u \in Threads : Announced(u, r) \/ HasRead(u, r) \/ Waits(u, r) => ts'[u] = ts[u]
    BY <1>3, StartSets
  <1> QED BY <1>1, <1>2, <1>4, RowStays

LEMMA QuietRows ==
  ASSUME IInv, NEW t \in Threads, Refused(t) \/ TxnEnds(t) \/ LeaveSpin(t), NEW r \in Rows
  PROVE  RowInv(r)'
  <1>1. manager' = manager /\ committed' = committed /\ ts' = ts
    BY DEF Refused, TxnEnds, LeaveSpin, threadVars
  <1>2. \A u \in Threads : SameTo(u, r)
    BY QuietSets, LeaveSets
  <1> QED BY <1>1, <1>2, RowStays

\* A transaction commits: its reads have been seen, and its writes are announced.
LEMMA FinishRows ==
  ASSUME IInv, NEW t \in Threads, FinishTxn(t), NEW r \in Rows
  PROVE  RowInv(r)'
  <1>1. /\ manager' = manager /\ ts' = ts
        /\ committed' = committed \union {Logged(t)}
        /\ Logged(t).ts = ts[t] /\ Logged(t).query = query[t]
        /\ pc[t] = "run" /\ Len(accesses[t]) = Len(query[t]) /\ query[t] \in Queries
    BY FinishFacts
  <1>2. /\ Announcers(r)' = Announcers(r) /\ Readers(r)' = Readers(r)
        /\ Waiters(r)' = Waiters(r)
    BY QuietSets, SameSets
  <1>3. /\ DOMAIN query[t] = DOMAIN accesses[t]
        /\ \A k \in DOMAIN query[t] : /\ accesses[t][k].row = query[t][k].row
                                      /\ accesses[t][k].type = query[t][k].type
    <2>1. Progress(t) /\ DOMAIN accesses[t] = 1..Len(accesses[t])
      BY ThreadFacts DEF IInv
    <2> QED BY <1>1, <2>1, QueryType DEF Progress
  <1>4. Ordered!Touches(query[t], r) => t \in Readers(r)
    BY <1>3 DEF Ordered!Touches, Readers, HasRead
  <1>5. Ordered!Writes(query[t], r) => t \in Announcers(r)
    BY <1>3 DEF Ordered!Writes, Announcers, Announced
  <1>6. PICK c : c = Logged(t)
    OBVIOUS
  <1>7. Reading(r, manager[r], Announcers(r), Readers(r), ts, committed \union {c})
    BY <1>1, <1>4, <1>6, RowFacts DEF Reading
  <1>8. Writing(r, manager[r], Announcers(r), ts, committed \union {c})
    <2>1. Writing(r, manager[r], Announcers(r), ts, committed)
      BY RowFacts
    <2>2. Ordered!Writes(c.query, r) => manager[r].wts < c.ts /\ \E u \in Announcers(r) : ts[u] = c.ts
      BY <1>1, <1>5, <1>6, <2>1 DEF Writing
    <2>3. manager[r].wts \in Nat /\ c.ts \in Nat
      BY <1>1, <1>6, RowFacts, ClockFacts
    <2>4. UpTo(committed \union {c}, r, manager[r].wts) = UpTo(committed, r, manager[r].wts)
      BY <2>2, <2>3 DEF UpTo
    <2> QED BY <2>1, <2>2, <2>4 DEF Writing
  <1> QED BY <1>1, <1>2, <1>6, <1>7, <1>8, RowFacts DEF RowInv

\* Manager n is m but for its buffers.
SameValue(m, n) == n.wts = m.wts /\ n.rts = m.rts /\ n.data = m.data

LEMMA BufferValues ==
  ASSUME NEW m \in Manager, NEW t
  PROVE  SameValue(m, buffer_prewrite(m, t)) /\ SameValue(m, buffer_read(m, t))
  BY DEF SameValue, buffer_prewrite, buffer_read, Manager

LEMMA AnnounceRows ==
  ASSUME IInv, NEW t \in Threads, Announces(t), NEW s \in Rows
  PROVE  RowInv(s)'
  <1>0. Requests(t) /\ pc[t] = "run" /\ M(t).rts <= ts[t] /\ ts' = ts /\ committed' = committed
    BY DEF Announces
  <1>1. PICK r \in Rows, n \in {buffer_prewrite(M(t), t)} :
          /\ r = Row(t) /\ n = buffer_prewrite(manager[r], t)
          /\ M(t) = manager[r] /\ ts[t] # 0 /\ ts[t] \in Nat
    BY <1>0, RequestFacts
  <1>2. Becomes(r, n)
    BY <1>1, AnnounceCore
  <1>3. CASE s # r
    <2>1. manager'[s] = manager[s] /\ \A u \in Threads : SameTo(u, s)
      BY <1>1, <1>2, <1>3, AnnounceSets DEF Becomes
    <2> QED BY <1>0, <2>1, RowStays
  <1>4. CASE s = r
    <2>1. /\ Announcers(r)' = Announcers(r) \union {t} /\ Readers(r)' = Readers(r)
          /\ Waiters(r)' = Waiters(r)
      <3>1. \A u \in Threads : /\ Announced(u, r)' <=> Announced(u, r) \/ u = t
                               /\ HasRead(u, r)' <=> HasRead(u, r)
                               /\ Waits(u, r)' <=> Waits(u, r)
        BY <1>1, AnnounceSets DEF SameTo
      <3> QED BY <3>1 DEF Announcers, Readers, Waiters
    <2>2. PICK m \in Manager : m = manager[r] /\ SameValue(m, n)
      BY <1>1, RowFacts, BufferValues
    <2>3. Buffers(n, Announcers(r) \union {t}, Waiters(r), ts)
      BY <1>1, RowFacts, ClockFacts, BuffersAnnounce
    <2>4. Reading(r, n, Announcers(r) \union {t}, Readers(r), ts, committed)
      <3>1. Reading(r, m, Announcers(r), Readers(r), ts, committed) /\ m.rts <= ts[t]
        BY <1>0, <1>1, <2>2, RowFacts
      <3> QED BY <2>2, <3>1 DEF Reading, SameValue
    <2>5. Writing(r, n, Announcers(r) \union {t}, ts, committed)
      <3>1. Writing(r, m, Announcers(r), ts, committed)
        BY <2>2, RowFacts
      <3>2. m.wts <= ts[t]
        <4>1. m.wts <= m.rts /\ m.rts <= ts[t] /\ m.wts \in Nat /\ m.rts \in Nat
          BY <1>0, <1>1, <2>2, WrittenBeforeRead, RowFacts
        <4> QED BY <1>1, <4>1
      <3>3. m.wts # ts[t]
        BY <1>0, <1>1, <3>1, NotLogged DEF Writing
      <3>4. m.wts < ts[t]
        BY <1>1, <2>2, <3>2, <3>3, RowFacts
      <3> QED BY <2>2, <3>1, <3>4 DEF Writing, SameValue
    <2> QED BY <1>0, <1>2, <1>4, <2>1, <2>3, <2>4, <2>5 DEF RowInv, Becomes
  <1> QED BY <1>3, <1>4

LEMMA ReadRows ==
  ASSUME IInv, NEW t \in Threads, ReadRow(t), NEW s \in Rows
  PROVE  RowInv(s)'
  <1>0. /\ Requests(t) \/ pc[t] = "read"
        /\ \A u \in Announcers(Row(t)) : ts[t] <= ts[u]
        /\ NewRts(t) \in Nat /\ M(t).rts <= NewRts(t) /\ ts[t] <= NewRts(t)
        /\ NewRts(t) = M(t).rts \/ NewRts(t) = ts[t]
        /\ UNCHANGED <<ts, committed>>
    BY ReadFacts DEF Records
  <1>1. PICK r \in Rows, m \in Manager, k \in Nat :
          r = Row(t) /\ m = manager[r] /\ M(t) = m /\ k = NewRts(t)
    BY <1>0, RequestFacts
  <1>2. PICK n : n = [m EXCEPT !.rts = k]
    OBVIOUS
  <1>3. Becomes(r, n)
    BY <1>1, <1>2, ReadCore
  <1>4. CASE s # r
    <2>1. manager'[s] = manager[s] /\ \A u \in Threads : SameTo(u, s)
      BY <1>1, <1>3, <1>4, ReadSets DEF Becomes
    <2> QED BY <1>0, <2>1, RowStays
  <1>5. CASE s = r
    <2>1. /\ Announcers(r)' = Announcers(r) /\ Readers(r)' = Readers(r) \union {t}
          /\ Waiters(r)' = Waiters(r)
      <3>1. \A u \in Threads : /\ Announced(u, r)' <=> Announced(u, r)
                               /\ HasRead(u, r)' <=> HasRead(u, r) \/ u = t
                               /\ Waits(u, r)' <=> Waits(u, r)
        BY <1>1, ReadSets DEF SameTo
      <3> QED BY <3>1 DEF Announcers, Readers, Waiters
    <2>2. /\ n.rts = k /\ n.wts = m.wts /\ n.data = m.data /\ n.prereq = m.prereq
          /\ n.readreq = m.readreq /\ n.min_pts = m.min_pts /\ n.min_rts = m.min_rts
      BY <1>2 DEF Manager
    <2>3. /\ Buffers(m, Announcers(r), Waiters(r), ts)
          /\ Reading(r, m, Announcers(r), Readers(r), ts, committed)
          /\ Writing(r, m, Announcers(r), ts, committed)
          /\ Readers(r) \subseteq Threads /\ m.rts \in Nat
      BY <1>1, RowFacts
    <2>4. Buffers(n, Announcers(r), Waiters(r), ts)
      BY <2>2, <2>3 DEF Buffers
    <2>5. Writing(r, n, Announcers(r), ts, committed)
      BY <2>2, <2>3 DEF Writing
    <2>6. Reading(r, n, Announcers(r), Readers(r) \union {t}, ts, committed)
      <3>1. \A u \in Readers(r) \union {t} : ts[u] <= k
        <4>1. \A u \in Readers(r) : ts[u] <= m.rts /\ ts[u] \in Nat
          BY <2>3, ClockFacts DEF Reading
        <4> QED BY <1>0, <1>1, <2>3, <4>1
      <3>2. \A u \in Announcers(r) : k <= ts[u]
        BY <1>0, <1>1, <2>3 DEF Reading
      <3>3. \A c \in committed : Ordered!Touches(c.query, r) => c.ts <= k
        <4>1. \A c \in committed : c.ts \in Nat
          BY LogFacts
        <4> QED BY <1>0, <1>1, <2>3, <4>1 DEF Reading
      <3> QED BY <2>2, <3>1, <3>2, <3>3 DEF Reading
    <2> QED BY <1>0, <1>3, <1>5, <2>1, <2>4, <2>5, <2>6 DEF RowInv, Becomes
  <1> QED BY <1>4, <1>5

LEMMA WaitRows ==
  ASSUME IInv, NEW t \in Threads, ReadWaits(t), NEW s \in Rows
  PROVE  RowInv(s)'
  <1>0. /\ Requests(t) \/ pc[t] = "read"
        /\ \E u \in Announcers(Row(t)) : ts[u] < ts[t]
        /\ UNCHANGED <<ts, committed>>
    BY WaitFacts
  <1>1. PICK r \in Rows, n \in {buffer_read(M(t), t)} :
          r = Row(t) /\ n = buffer_read(manager[r], t) /\ M(t) = manager[r]
    BY <1>0, RequestFacts
  <1>2. Becomes(r, n)
    BY <1>1, WaitCore
  <1>3. CASE s # r
    <2>1. manager'[s] = manager[s] /\ \A u \in Threads : SameTo(u, s)
      BY <1>1, <1>2, <1>3, WaitSets DEF Becomes
    <2> QED BY <1>0, <2>1, RowStays
  <1>4. CASE s = r
    <2>1. /\ Announcers(r)' = Announcers(r) /\ Readers(r)' = Readers(r)
          /\ Waiters(r)' = Waiters(r) \union {t}
      <3>1. \A u \in Threads : /\ Announced(u, r)' <=> Announced(u, r)
                               /\ HasRead(u, r)' <=> HasRead(u, r)
                               /\ Waits(u, r)' <=> Waits(u, r) \/ u = t
        BY <1>1, WaitSets DEF SameTo
      <3> QED BY <3>1 DEF Announcers, Readers, Waiters
    <2>2. PICK m \in Manager : m = manager[r] /\ SameValue(m, n)
      BY <1>1, RowFacts, BufferValues
    <2>3. Buffers(n, Announcers(r), Waiters(r) \union {t}, ts)
      BY <1>0, <1>1, RowFacts, ClockFacts, BuffersWait
    <2>4. Reading(r, n, Announcers(r), Readers(r), ts, committed)
      <3>1. Reading(r, m, Announcers(r), Readers(r), ts, committed)
        BY <2>2, RowFacts
      <3> QED BY <2>2, <3>1 DEF Reading, SameValue
    <2>5. Writing(r, n, Announcers(r), ts, committed)
      <3>1. Writing(r, m, Announcers(r), ts, committed)
        BY <2>2, RowFacts
      <3> QED BY <2>2, <3>1 DEF Writing, SameValue
    <2> QED BY <1>0, <1>2, <1>4, <2>1, <2>3, <2>4, <2>5 DEF RowInv, Becomes
  <1> QED BY <1>3, <1>4

\* The last access of t in cleanup has the value that the log gives it, and a
\* committed one is in the log.
LEMMA LastFacts ==
  ASSUME IInv, NEW t \in Threads, ReturnRow(t), NEW a, a = Last(accesses[t])
  PROVE  /\ a \in AccessType /\ a.row \in Rows
         /\ a.data = Cardinality(Before(committed, a.row, ts[t]))
         /\ rc[t] = "Abort" => \A c \in committed : c.ts # ts[t]
         /\ rc[t] = "RCOK" => \E c \in committed :
              c.ts = ts[t] /\ (a.type = "WR" => Ordered!Writes(c.query, a.row))
  <1>1. /\ a \in AccessType /\ a.row \in Rows /\ pc[t] = "cleanup" /\ query[t] \in Queries
        /\ Len(accesses[t]) \in 1..Len(accesses[t]) /\ a = accesses[t][Len(accesses[t])]
    BY ReturnFacts
  <1>2. a.data = Cardinality(Before(committed, a.row, ts[t]))
    BY <1>1 DEF IInv, Seen
  <1>3. rc[t] = "Abort" => \A c \in committed : c.ts # ts[t]
    BY <1>1, LogFacts
  <1>4. ASSUME rc[t] = "RCOK"
        PROVE  \E c \in committed : c.ts = ts[t] /\ (a.type = "WR" => Ordered!Writes(c.query, a.row))
    <2>1. PICK c \in committed : c.ts = ts[t] /\ c.query = query[t]
      BY <1>1, <1>4 DEF IInv, Log
    <2>2. Len(accesses[t]) \in DOMAIN query[t] /\ query[t][Len(accesses[t])].row = a.row
          /\ query[t][Len(accesses[t])].type = a.type
      <3>1. Progress(t) /\ Len(accesses[t]) \in Nat /\ Len(query[t]) \in Nat
            /\ DOMAIN query[t] = 1..Len(query[t])
        BY <1>1, QueryType, ThreadFacts DEF IInv
      <3> QED BY <1>1, <3>1 DEF Progress
    <2> QED BY <2>1, <2>2 DEF Ordered!Writes
  <1> QED BY <1>1, <1>2, <1>3, <1>4

\* A write that is returned has not been overtaken by another one.
LEMMA ReturnWriting ==
  ASSUME IInv, NEW t \in Threads, ReturnRow(t), NEW a, a = Last(accesses[t]), a.type = "WR",
         NEW w \in Nat, NEW d \in Nat, Returns(t, a.row, w, d),
         NEW n, n.wts = w, n.data = d
  PROVE  Writing(a.row, n, Announcers(a.row) \ {t}, ts, committed)
  <1>1. PICK r \in Rows : r = a.row
    BY ReturnFacts
  <1>2. PICK m \in Manager : /\ m = manager[r] /\ Writing(r, m, Announcers(r), ts, committed)
                             /\ Reading(r, m, Announcers(r), Readers(r), ts, committed)
                             /\ m.wts \in Nat /\ m.rts \in Nat
    BY RowFacts
  <1>3. /\ Announcers(r) \in SUBSET Threads /\ t \in Announcers(r) /\ t \in Readers(r)
        /\ \/ rc[t] = "Abort" /\ w = m.wts /\ d = m.data
           \/ rc[t] = "RCOK" /\ w = ts[t] /\ d = a.data + 1
    BY <1>1, <1>2, RowFacts DEF Returns
  <1>4. CASE rc[t] = "Abort"
    <2>1. \A c \in committed : c.ts # ts[t]
      BY <1>4, LastFacts
    <2>2. n.wts = m.wts /\ n.data = m.data
      BY <1>3, <1>4
    <2>3. Writing(r, n, Announcers(r) \ {t}, ts, committed)
      BY <1>2, <2>1, <2>2 DEF Writing
    <2> QED BY <1>1, <2>3
  <1>5. CASE rc[t] = "RCOK"
    <2>1. n.wts = ts[t] /\ n.data = Cardinality(Before(committed, r, ts[t])) + 1
      BY <1>1, <1>3, <1>5, LastFacts
    <2>2. PICK c \in committed : c.ts = ts[t] /\ Ordered!Writes(c.query, r)
      BY <1>1, <1>5, LastFacts
    <2>3. pc[t] # "idle" /\ ts[t] \in Nat
      BY ReturnFacts, ClockFacts
    <2>4. \A u \in Announcers(r) \ {t} : ts[t] < ts[u]
      <3> TAKE u \in Announcers(r) \ {t}
      <3>1. ts[t] <= m.rts /\ m.rts <= ts[u]
        BY <1>2, <1>3 DEF Reading
      <3>2. u \in Threads /\ ts[u] \in Nat /\ ts[u] # ts[t]
        BY <1>3, <2>3, ClockFacts
      <3> QED BY <1>2, <2>3, <3>1, <3>2
    <2>5. ASSUME NEW e \in committed, Ordered!Writes(e.query, r)
          PROVE  e.ts <= ts[t] \/ \E u \in Announcers(r) \ {t} : ts[u] = e.ts
      <3>1. e.ts <= m.wts \/ \E u \in Announcers(r) : ts[u] = e.ts
        BY <1>2, <2>5 DEF Writing
      <3>2. m.wts < ts[t] /\ e.ts \in Nat
        BY <1>2, <1>3, LogFacts DEF Writing
      <3> QED BY <1>2, <2>3, <3>1, <3>2
    <2>6. n.data = Cardinality(UpTo(committed, r, ts[t]))
      <3>1. \A e \in committed : e.ts \in Nat /\ (e.ts = c.ts => e = c)
        BY LogFacts
      <3>2. Cardinality(UpTo(committed, r, c.ts)) = Cardinality(Before(committed, r, c.ts)) + 1
        BY <2>2, <3>1, LogFacts, OneMore
      <3> QED BY <2>1, <2>2, <3>2
    <2>7. Writing(r, n, Announcers(r) \ {t}, ts, committed)
      BY <2>1, <2>2, <2>4, <2>5, <2>6 DEF Writing
    <2> QED BY <1>1, <2>7
  <1> QED BY <1>3, <1>4, <1>5

\* Row r once the reads that its lost prewrite held back have been performed, when
\* the threads has are its readers.
ReadOn(t, r, w, d, has) ==
  LET n == update_buffer(Rest(manager[r], t, w, d)).m
  IN /\ n.wts = w /\ n.data = d
     /\ Buffers(n, Announcers(r) \ {t}, Waiters(r) \ Freed(manager[r], t, Waiters(r), ts), ts)
     /\ Reading(r, n, Announcers(r) \ {t}, has, ts, committed)

LEMMA ReleaseReading ==
  ASSUME IInv, NEW t \in Threads, NEW r \in Rows, NEW w \in Nat, NEW d \in Nat,
         Returns(t, r, w, d),
         NEW has, has \subseteq Readers(r) \union Freed(manager[r], t, Waiters(r), ts)
  PROVE  ReadOn(t, r, w, d, has)
  <1>0. PICK n, rel : /\ n = update_buffer(Rest(manager[r], t, w, d)).m
                      /\ rel = Freed(manager[r], t, Waiters(r), ts)
    OBVIOUS
  <1>1. /\ n \in Manager /\ n.wts = w /\ n.data = d
        /\ Buffers(n, Announcers(r) \ {t}, Waiters(r) \ rel, ts)
        /\ \A u \in rel, a \in Announcers(r) \ {t} : ts[u] <= ts[a]
        /\ manager[r].rts <= n.rts /\ \A u \in rel : ts[u] <= n.rts
        /\ n.rts = manager[r].rts \/ \E u \in rel : n.rts = ts[u]
    BY <1>0 DEF Returns, LetThrough
  <1>2. PICK m \in Manager : /\ m = manager[r] /\ m.rts \in Nat
                             /\ Reading(r, m, Announcers(r), Readers(r), ts, committed)
    BY RowFacts
  <1>3. n.rts \in Nat /\ m.rts <= n.rts
    BY <1>1, <1>2 DEF Manager
  <1>4. \A u \in has : ts[u] <= n.rts
    <2>1. \A u \in Readers(r) : ts[u] <= m.rts /\ ts[u] \in Nat
      BY <1>2, RowFacts, ClockFacts DEF Reading
    <2> QED BY <1>0, <1>1, <1>2, <1>3, <2>1
  <1>5. \A u \in Announcers(r) \ {t} : n.rts <= ts[u]
    BY <1>1, <1>2 DEF Reading
  <1>6. \A c \in committed : Ordered!Touches(c.query, r) => c.ts <= n.rts
    <2>1. \A c \in committed : c.ts \in Nat
      BY LogFacts
    <2> QED BY <1>2, <1>3, <2>1 DEF Reading
  <1>7. Reading(r, n, Announcers(r) \ {t}, has, ts, committed)
    BY <1>4, <1>5, <1>6 DEF Reading
  <1> QED BY <1>0, <1>1, <1>7 DEF ReadOn

\* What the return of a write of row s makes of the threads.
LEMMA WriteSets ==
  ASSUME IInv, NEW t \in Threads, ReturnRow(t), NEW s \in Rows, s = Last(accesses[t]).row,
         NEW w \in Nat, NEW d \in Nat, Returns(t, s, w, d),
         NEW rel, rel = Freed(manager[s], t, Waiters(s), ts)
  PROVE  /\ rel \in SUBSET Waiters(s) /\ rel \in SUBSET Threads
         /\ \A u \in rel : u # t /\ pc[u] = "spin" /\ ~ ts_ready[u] /\ Row(u) = s
         /\ \A u \in rel : ts_ready'[u] /\ cur_row'[u] = d
         /\ \A u \in Threads \ rel : ts_ready'[u] = ts_ready[u] /\ cur_row'[u] = cur_row[u]
         /\ \A u \in Threads, r \in Rows : r # s => SameTo(u, r)
         /\ Announcers(s)' = Announcers(s) \ {t} /\ Waiters(s)' = Waiters(s) \ rel
         /\ Readers(s)' \in SUBSET (Readers(s) \union rel)
  <1>1. /\ rel \in SUBSET Waiters(s) /\ rel \in SUBSET Threads
        /\ \A u \in rel : u # t /\ pc[u] = "spin" /\ ~ ts_ready[u] /\ Row(u) = s
    <2>1. pc[t] = "cleanup"
      BY ReturnFacts
    <2> QED BY <2>1 DEF Freed, Waiters, Waits
  <1>2. /\ \A u \in rel : ts_ready'[u] /\ cur_row'[u] = d
        /\ \A u \in Threads \ rel : ts_ready'[u] = ts_ready[u] /\ cur_row'[u] = cur_row[u]
    <2>1. /\ ts_ready' \in [Threads -> BOOLEAN] /\ ts_ready \in [Threads -> BOOLEAN]
          /\ \A u \in Threads : ts_ready'[u] <=> ts_ready[u] \/ u \in rel
          /\ \A u \in Threads : cur_row'[u] = IF u \in rel THEN d ELSE cur_row[u]
      BY DEF Returns, Releasing, IInv, Types
    <2>2. \A u \in Threads : ts_ready'[u] \in BOOLEAN /\ ts_ready[u] \in BOOLEAN
      BY <2>1
    <2>3. \A u \in Threads \ rel : ts_ready'[u] = ts_ready[u]
      BY <2>1, <2>2
    <2> QED BY <1>1, <2>1, <2>3
  <1>3. ASSUME NEW u \in Threads, NEW r \in Rows, r # s PROVE SameTo(u, r)
    <2>1. CASE u = t
      BY <1>3, <2>1, ReturnSets
    <2>2. CASE u # t /\ u \notin rel
      <3>1. ts_ready'[u] = ts_ready[u]
        BY <1>2, <2>2
      <3> QED BY <2>2, <3>1, Sets, ReturnSets DEF SameTo, Granted, Waits
    <2>3. CASE u \in rel
      <3>1. u # t /\ Row(u) # r
        BY <1>1, <1>3, <2>3
      <3> QED BY <3>1, Sets, ReturnSets DEF SameTo, Waits
    <2> QED BY <2>1, <2>2, <2>3
  <1>4. \A u \in Threads : /\ Announced(u, s)' <=> Announced(u, s) /\ u # t
                           /\ HasRead(u, s)' => HasRead(u, s) \/ u \in rel
                           /\ Waits(u, s)' <=> Waits(u, s) /\ u \notin rel
    <2> TAKE u \in Threads
    <2>1. CASE u = t
      BY <2>1, ReturnSets
    <2>2. CASE u # t /\ u \notin rel
      <3>1. ts_ready'[u] = ts_ready[u]
        BY <1>2, <2>2
      <3> QED BY <2>2, <3>1, Sets, ReturnSets DEF Granted, Waits
    <2>3. CASE u \in rel
      <3>1. u # t /\ ts_ready'[u]
        BY <1>1, <1>2, <2>3
      <3> QED BY <2>3, <3>1, ReturnSets
    <2> QED BY <2>1, <2>2, <2>3
  <1>5. /\ Announcers(s)' = Announcers(s) \ {t} /\ Waiters(s)' = Waiters(s) \ rel
        /\ Readers(s)' \in SUBSET (Readers(s) \union rel)
    BY <1>4 DEF Announcers, Waiters, Readers
  <1> QED BY <1>1, <1>2, <1>3, <1>5

LEMMA ReturnRows ==
  ASSUME IInv, NEW t \in Threads, ReturnRow(t), NEW s \in Rows
  PROVE  RowInv(s)'
  <1>1. PICK a : a = Last(accesses[t])
    OBVIOUS
  <1>2. PICK r \in Rows : r = a.row /\ UNCHANGED <<ts, query, rc, pc, committed>>
    BY <1>1, ReturnFacts
  <1>3. CASE a.type # "WR"
    <2>1. manager' = manager /\ ts_ready' = ts_ready
      BY <1>1, <1>3 DEF ReturnRow
    <2>2. \A u \in Threads : u # t \/ s # r => SameTo(u, s)
      BY <1>1, <1>2, <2>1, Sets, ReturnSets DEF SameTo, Granted, Waits
    <2>3. CASE s # r
      BY <1>2, <2>1, <2>2, <2>3, RowStays
    <2>4. CASE s = r
      <3>1. /\ Announcers(r)' = Announcers(r) /\ Readers(r)' = Readers(r) \ {t}
            /\ Waiters(r)' = Waiters(r)
        <4>1. \A u \in Threads : /\ Announced(u, r)' <=> Announced(u, r)
                                 /\ HasRead(u, r)' <=> HasRead(u, r) /\ u # t
                                 /\ Waits(u, r)' <=> Waits(u, r)
          BY <1>1, <1>2, <1>3, <2>2, <2>4, ReturnSets DEF SameTo
        <4> QED BY <4>1 DEF Announcers, Readers, Waiters
      <3>2. Reading(r, manager[r], Announcers(r), Readers(r) \ {t}, ts, committed)
        BY RowFacts DEF Reading
      <3> QED BY <1>2, <2>1, <2>4, <3>1, <3>2, RowFacts DEF RowInv
    <2> QED BY <2>3, <2>4
  <1>4. CASE a.type = "WR"
    <2>1. PICK w \in Nat, d \in Nat : Returns(t, r, w, d)
      BY <1>1, <1>2, <1>4, ReturnWrites
    <2>2. PICK n, rel : /\ n = update_buffer(Rest(manager[r], t, w, d)).m
                        /\ rel = Freed(manager[r], t, Waiters(r), ts)
      OBVIOUS
    <2>3. Becomes(r, n)
      BY <2>1, <2>2, ReleaseCore
    <2>4. /\ \A u \in Threads, q \in Rows : q # r => SameTo(u, q)
          /\ Announcers(r)' = Announcers(r) \ {t} /\ Waiters(r)' = Waiters(r) \ rel
          /\ Readers(r)' \in SUBSET (Readers(r) \union rel)
      BY <1>1, <1>2, <2>1, <2>2, WriteSets
    <2>5. CASE s # r
      <3>1. manager'[s] = manager[s] /\ \A u \in Threads : SameTo(u, s)
        BY <2>3, <2>4, <2>5 DEF Becomes
      <3> QED BY <1>2, <3>1, RowStays
    <2>6. CASE s = r
      <3>1. PICK has : has = Readers(r)'
        OBVIOUS
      <3>2. /\ n.wts = w /\ n.data = d
            /\ Buffers(n, Announcers(r) \ {t}, Waiters(r) \ rel, ts)
            /\ Reading(r, n, Announcers(r) \ {t}, has, ts, committed)
        <4>1. ReadOn(t, r, w, d, has)
          BY <2>1, <2>2, <2>4, <3>1, ReleaseReading
        <4> QED BY <2>2, <4>1 DEF ReadOn
      <3>3. Writing(r, n, Announcers(r) \ {t}, ts, committed)
        BY <1>1, <1>2, <1>4, <2>1, <3>2, ReturnWriting
      <3> QED BY <1>2, <2>3, <2>4, <2>6, <3>1, <3>2, <3>3 DEF RowInv, Becomes
    <2> QED BY <2>5, <2>6
  <1> QED BY <1>3, <1>4

------------------------------------------------------------------------------
(***************************************************************************)
(* What the threads have seen                                              *)
(***************************************************************************)

\* The value that thread u has been granted.
Got(u) == cur_row[u] = Cardinality(Before(committed, Row(u), ts[u]))

LEMMA SeenFrame ==
  ASSUME NEW u \in Threads, Seen(u), committed' = committed,
         accesses'[u] = <<>> \/ (accesses'[u] = accesses[u] /\ ts'[u] = ts[u]),
         Granted(u)' => Got(u)'
  PROVE  Seen(u)'
  <1>1. CASE accesses'[u] = <<>>
    <2>1. 1..Len(accesses'[u]) = {}
      BY <1>1
    <2> QED BY <2>1 DEF Seen, Got
  <1>2. CASE accesses'[u] = accesses[u] /\ ts'[u] = ts[u]
    BY <1>2 DEF Seen, Got
  <1> QED BY <1>1, <1>2

\* An action that leaves a thread alone leaves it what it has seen.
LEMMA UnmovedSeen ==
  ASSUME IInv, NEW u \in Threads, Unmoved(u), committed' = committed, ts'[u] = ts[u],
         cur_row'[u] = cur_row[u]
  PROVE  Seen(u)'
  <1>1. Seen(u) /\ accesses'[u] = accesses[u]
    BY DEF IInv, Unmoved
  <1>2. Granted(u)' => Got(u)'
    <2>1. (Granted(u)' <=> Granted(u)) /\ Row(u)' = Row(u)
      BY UnmovedSets
    <2> QED BY <1>1, <2>1 DEF Seen, Got
  <1> QED BY <1>1, <1>2, SeenFrame

\* A step that records nothing and logs nothing.
LEMMA QuietSeen ==
  ASSUME IInv, NEW t \in Threads,
         StartTxn(t) \/ Announces(t) \/ Refused(t) \/ ReadWaits(t) \/ TxnEnds(t),
         NEW u \in Threads
  PROVE  Seen(u)'
  <1>1. committed' = committed /\ accesses' = accesses /\ cur_row' = cur_row
    BY DEF StartTxn, Announces, Refused, ReadWaits, TxnEnds
  <1>2. /\ u # t \/ ~ StartTxn(t) => ts'[u] = ts[u]
        /\ StartTxn(t) => accesses[t] = <<>>
    <2>1. StartTxn(t) => ts' = [ts EXCEPT ![t] = timestamp] /\ accesses[t] = <<>>
      BY DEF StartTxn, IInv, Progress
    <2>2. ts' = ts \/ StartTxn(t)
      BY DEF Announces, Refused, ReadWaits, TxnEnds, threadVars
    <2> QED BY <2>1, <2>2, ClockFacts DEF Stamps
  <1>3. CASE u = t
    <2>1. ~ Granted(t)'
      <3>1. StartTxn(t) => pc'[t] = "run"
        BY DEF StartTxn, Goto, IInv, Types
      <3>2. Refused(t) \/ TxnEnds(t) => pc'[t] \in {"cleanup", "retry", "idle"}
        BY DEF Refused, TxnEnds, Goto, IInv, Types
      <3> QED BY <3>1, <3>2, AnnounceSets, WaitSets DEF Granted
    <2> QED BY <1>1, <1>2, <1>3, <2>1, SeenFrame DEF IInv
  <1>4. CASE u # t
    <2>1. Unmoved(u)
      BY <1>4, StartSets, AnnounceSets, QuietSets, WaitSets
    <2> QED BY <1>1, <1>2, <1>4, <2>1, UnmovedSeen
  <1> QED BY <1>3, <1>4

\* A transaction commits after everything that has been read before it.
LEMMA FinishBefore ==
  ASSUME IInv, NEW t \in Threads, FinishTxn(t), NEW r \in Rows, NEW u \in Readers(r)
  PROVE  Before(committed', r, ts[u]) = Before(committed, r, ts[u])
  <1>1. /\ pc[t] = "run" /\ Len(accesses[t]) = Len(query[t]) /\ query[t] \in Queries
        /\ committed' = committed \union {Logged(t)}
        /\ Logged(t).ts = ts[t] /\ Logged(t).query = query[t]
    BY FinishFacts
  <1>2. ASSUME Ordered!Writes(query[t], r) PROVE ~ (ts[t] < ts[u])
    <2>1. PICK i \in 1..Len(query[t]) : query[t][i].row = r /\ query[t][i].type = "WR"
      BY <1>1, <1>2, QueryType DEF Ordered!Writes
    <2>2. accesses[t][i].row = r /\ accesses[t][i].type = "WR" /\ i \in DOMAIN accesses[t]
      BY <1>1, <2>1, ThreadFacts DEF IInv, Progress
    <2>3. t \in Announcers(r)
      BY <2>2 DEF Announcers, Announced
    <2>4. ts[u] <= manager[r].rts /\ manager[r].rts <= ts[t]
      BY <2>3, RowFacts DEF Reading
    <2>5. ts[u] \in Nat /\ ts[t] \in Nat /\ manager[r].rts \in Nat
      BY RowFacts, ClockFacts DEF Readers
    <2> QED BY <2>4, <2>5
  <1> QED BY <1>1, <1>2 DEF Before

LEMMA FinishSeen ==
  ASSUME IInv, NEW t \in Threads, FinishTxn(t), NEW u \in Threads
  PROVE  Seen(u)'
  <1>1. /\ accesses' = accesses /\ ts' = ts /\ cur_row' = cur_row /\ query' = query /\ Seen(u)
    BY FinishFacts DEF IInv
  <1>2. ASSUME NEW k \in 1..Len(accesses[u])
        PROVE  accesses[u][k].data
                 = Cardinality(Before(committed', accesses[u][k].row, ts[u]))
    <2>1. PICK r : r = accesses[u][k].row
      OBVIOUS
    <2>2. r \in Rows /\ u \in Readers(r)
      <3>1. r \in Rows /\ k \in DOMAIN accesses[u]
        BY <2>1, ThreadFacts DEF IInv
      <3> QED BY <2>1, <3>1 DEF Readers, HasRead
    <2>3. Before(committed', r, ts[u]) = Before(committed, r, ts[u])
      BY <2>2, FinishBefore
    <2> QED BY <1>1, <2>1, <2>3 DEF Seen
  <1>3. Granted(u)' => cur_row[u] = Cardinality(Before(committed', Row(u), ts[u]))
    <2>1. SUFFICES ASSUME Granted(u)
                   PROVE  cur_row[u] = Cardinality(Before(committed', Row(u), ts[u]))
      BY QuietSets
    <2>2. PICK r : r = Row(u)
      OBVIOUS
    <2>3. r \in Rows /\ u \in Readers(r)
      BY <2>1, <2>2, RequestFacts DEF Granted, Readers, HasRead
    <2>4. Before(committed', r, ts[u]) = Before(committed, r, ts[u])
      BY <2>3, FinishBefore
    <2> QED BY <1>1, <2>1, <2>2, <2>4 DEF Seen
  <1>4. Row(u)' = Row(u)
    BY <1>1 DEF Row, Cur
  <1> QED BY <1>1, <1>2, <1>3, <1>4 DEF Seen

\* An access is recorded with the right value.
LEMMA RecordSeen ==
  ASSUME IInv, NEW t \in Threads, Requests(t) \/ pc[t] = "read" \/ pc[t] = "spin",
         NEW d \in Nat, Records(t, d), d = Cardinality(Before(committed, Row(t), ts[t]))
  PROVE  Seen(t)'
  <1>1. PICK n : n = Len(accesses[t])
    OBVIOUS
  <1>2. n \in Nat /\ Seen(t) /\ ts' = ts /\ committed' = committed
    BY <1>1, ThreadFacts DEF IInv, Records
  <1>3. /\ pc'[t] = "run" /\ Len(accesses'[t]) = n + 1 /\ accesses'[t][n + 1] = Used(t, d)
        /\ \A k \in 1..n : accesses'[t][k] = accesses[t][k]
    BY <1>1, RecordFacts
  <1>4. ASSUME NEW k \in 1..(n + 1)
        PROVE  accesses'[t][k].data = Cardinality(Before(committed', accesses'[t][k].row, ts'[t]))
    <2>1. CASE k = n + 1
      <3>1. accesses'[t][k].data = d /\ accesses'[t][k].row = Row(t)
        BY <1>3, <2>1 DEF Used
      <3> QED BY <1>2, <3>1
    <2>2. CASE k \in 1..n
      <3>1. accesses[t][k].data = Cardinality(Before(committed, accesses[t][k].row, ts[t]))
        BY <1>1, <1>2, <2>2 DEF Seen
      <3> QED BY <1>2, <1>3, <2>2, <3>1
    <2> QED BY <1>2, <2>1, <2>2
  <1>5. ~ Granted(t)'
    BY <1>3 DEF Granted
  <1> QED BY <1>3, <1>4, <1>5 DEF Seen

LEMMA ReadSeen ==
  ASSUME IInv, NEW t \in Threads, ReadRow(t), NEW u \in Threads
  PROVE  Seen(u)'
  <1>1. /\ pc[t] \in {"run", "read"} /\ (Requests(t) \/ pc[t] = "read")
        /\ Records(t, M(t).data) /\ cur_row' = [cur_row EXCEPT ![t] = M(t).data]
        /\ M(t).wts <= ts[t] /\ \A a \in Announcers(Row(t)) : ts[t] <= ts[a]
    BY ReadFacts
  <1>2. M(t) = manager[Row(t)] /\ Row(t) \in Rows /\ M(t).data \in Nat
    BY <1>1, RequestFacts
  <1>3. CASE u = t
    <2>1. M(t).data = Cardinality(Before(committed, Row(t), ts[t]))
      BY <1>1, <1>2, RightValue
    <2> QED BY <1>1, <1>2, <1>3, <2>1, RecordSeen
  <1>4. CASE u # t
    <2>1. Unmoved(u)
      BY <1>4, ReadSets
    <2>2. committed' = committed /\ ts' = ts /\ cur_row'[u] = cur_row[u]
      BY <1>1, <1>4 DEF Records, IInv, Types
    <2> QED BY <2>1, <2>2, UnmovedSeen
  <1> QED BY <1>3, <1>4

LEMMA LeaveSeen ==
  ASSUME IInv, NEW t \in Threads, LeaveSpin(t), NEW u \in Threads
  PROVE  Seen(u)'
  <1>1. /\ pc[t] = "spin" /\ Records(t, cur_row[t]) /\ cur_row' = cur_row
        /\ cur_row[t] \in Nat /\ cur_row[t] = Cardinality(Before(committed, Row(t), ts[t]))
    BY LeaveFacts
  <1>2. CASE u = t
    BY <1>1, <1>2, RecordSeen
  <1>3. CASE u # t
    <2>1. Unmoved(u)
      BY <1>3, LeaveSets
    <2> QED BY <1>1, <2>1, UnmovedSeen DEF Records
  <1> QED BY <1>2, <1>3

\* A read that is let through gets the value of the writes before it.
LEMMA FreedValue ==
  ASSUME IInv, NEW t \in Threads, ReturnRow(t), NEW a, a = Last(accesses[t]), a.type = "WR",
         NEW w \in Nat, NEW d \in Nat, Returns(t, a.row, w, d),
         NEW u, u \in Freed(manager[a.row], t, Waiters(a.row), ts)
  PROVE  d = Cardinality(Before(committed, a.row, ts[u]))
  <1>1. PICK r \in Rows : r = a.row
    BY ReturnFacts
  <1>2. PICK n, rel : /\ n = update_buffer(Rest(manager[r], t, w, d)).m
                      /\ rel = Freed(manager[r], t, Waiters(r), ts)
    OBVIOUS
  <1>3. /\ n.wts = w /\ n.data = d /\ \A v \in rel, b \in Announcers(r) \ {t} : ts[v] <= ts[b]
        /\ t \in Announcers(r) /\ t \in Readers(r)
    BY <1>1, <1>2 DEF Returns, LetThrough
  <1>4. Writing(r, n, Announcers(r) \ {t}, ts, committed)
    BY <1>1, <1>3, ReturnWriting
  <1>5. u \in rel /\ u \in Threads /\ u \in Waiters(r) /\ pc[u] = "spin"
    BY <1>1, <1>2 DEF Freed, Waiters, Waits
  <1>6. ts[u] \in Nat /\ \A c \in committed : c.ts \in Nat /\ c.ts # ts[u]
    BY <1>5, NotLogged, LogFacts, ClockFacts
  <1>7. w <= ts[u]
    <2>1. PICK b \in Announcers(r) : ts[b] < ts[u]
      BY <1>5, RowFacts DEF Buffers
    <2>2. ts[b] \in Nat /\ ts[t] \in Nat /\ manager[r].rts \in Nat
      BY RowFacts, ClockFacts DEF Announcers
    <2>3. manager[r].wts < ts[b] /\ ts[t] <= manager[r].rts /\ manager[r].rts <= ts[b]
      BY <1>3, RowFacts DEF Reading, Writing
    <2>4. w = manager[r].wts \/ w = ts[t]
      BY <1>1 DEF Returns
    <2> QED BY <1>6, <2>1, <2>2, <2>3, <2>4
  <1>8. \A c \in committed : Ordered!Writes(c.query, r) => c.ts <= w \/ ts[u] <= c.ts
    BY <1>3, <1>4, <1>5 DEF Writing
  <1>9. UpTo(committed, r, w) = Before(committed, r, ts[u])
    BY <1>6, <1>7, <1>8, NoneBetween
  <1> QED BY <1>1, <1>3, <1>4, <1>9 DEF Writing

LEMMA ReturnSeen ==
  ASSUME IInv, NEW t \in Threads, ReturnRow(t), NEW u \in Threads
  PROVE  Seen(u)'
  <1>1. accesses \in [Threads -> Seq(AccessType)] /\ Types /\ Seen(u)
    BY DEF IInv, Types
  <1>2. /\ Len(Front(accesses[t])) = Len(accesses[t]) - 1
        /\ \A i \in 1..(Len(accesses[t]) - 1) : Front(accesses[t])[i] = accesses[t][i]
        /\ accesses' = [accesses EXCEPT ![t] = Front(accesses[t])]
        /\ pc[t] = "cleanup" /\ ts' = ts /\ committed' = committed /\ pc' = pc /\ query' = query
    BY ReturnFacts
  <1>3. PICK a : a = Last(accesses[t])
    OBVIOUS
  <1>4. CASE u = t
    <2>1. accesses'[t] = Front(accesses[t]) /\ Len(accesses[t]) \in Nat
      BY <1>1, <1>2, ThreadFacts
    <2>2. \A k \in 1..Len(accesses'[t]) : k \in 1..Len(accesses[t])
                                          /\ accesses'[t][k] = accesses[t][k]
      BY <1>2, <2>1
    <2>3. ~ Granted(t)'
      BY <1>2 DEF Granted
    <2> QED BY <1>1, <1>2, <1>4, <2>2, <2>3 DEF Seen
  <1>5. CASE u # t /\ a.type # "WR"
    <2>1. cur_row' = cur_row /\ ts_ready' = ts_ready
      BY <1>3, <1>5 DEF ReturnRow
    <2>2. Unmoved(u)
      BY <1>1, <1>2, <1>5, <2>1 DEF Unmoved
    <2> QED BY <1>2, <2>1, <2>2, UnmovedSeen
  <1>6. CASE u # t /\ a.type = "WR"
    <2>1. PICK r \in Rows, w \in Nat, d \in Nat : r = a.row /\ Returns(t, r, w, d)
      BY <1>3, <1>6, ReturnFacts, ReturnWrites
    <2>2. PICK rel : rel = Freed(manager[r], t, Waiters(r), ts)
      OBVIOUS
    <2>3. /\ \A v \in rel : Row(v) = r /\ cur_row'[v] = d
          /\ \A v \in Threads \ rel : ts_ready'[v] = ts_ready[v] /\ cur_row'[v] = cur_row[v]
      BY <1>3, <2>1, <2>2, WriteSets
    <2>4. accesses'[u] = accesses[u] /\ Row(u)' = Row(u)
      BY <1>3, <1>6, ReturnSets
    <2>5. CASE u \notin rel
      <3>1. Unmoved(u) /\ cur_row'[u] = cur_row[u]
        BY <1>2, <2>3, <2>4, <2>5 DEF Unmoved
      <3> QED BY <1>2, <3>1, UnmovedSeen
    <2>6. CASE u \in rel
      <3>1. d = Cardinality(Before(committed, r, ts[u]))
        BY <1>3, <1>6, <2>1, <2>2, <2>6, FreedValue
      <3>2. Got(u)'
        BY <1>2, <2>3, <2>4, <2>6, <3>1 DEF Got
      <3> QED BY <1>1, <1>2, <2>4, <3>2, SeenFrame
    <2> QED BY <2>5, <2>6
  <1> QED BY <1>4, <1>5, <1>6

------------------------------------------------------------------------------
(***************************************************************************)
(* The invariant holds                                                     *)
(***************************************************************************)

LEMMA InitInv == Init => IInv
  <1> SUFFICES ASSUME Init PROVE IInv
    OBVIOUS
  <1>1. /\ timestamp = 1 /\ committed = {}
        /\ \A t \in Threads : /\ pc[t] = "idle" /\ accesses[t] = <<>> /\ query[t] = <<>>
                              /\ rc[t] = "RCOK" /\ ts[t] = 0
        /\ \A r \in Rows : manager[r] =
             [wts |-> 0, rts |-> 0, min_rts |-> UINT64_MAX, min_pts |-> UINT64_MAX,
              readreq |-> {}, writereq |-> {}, prereq |-> {}, data |-> 0]
    BY DEF Init
  <1>2. UINT64_MAX \in Stamp /\ UINT64_MAX \in Nat /\ 1 \in 1..UINT64_MAX /\ 0 \in 0..MAX_TS
    BY MaxFacts DEF Stamp
  <1>3. Types
    <2>1. \A r \in Rows : manager[r] \in Manager /\ manager[r].rts < timestamp
      BY <1>1, <1>2 DEF Manager
    <2>2. manager \in [Rows -> Manager]
      <3> HIDE DEF Manager
      <3>1. \E f : manager = [r \in Rows |-> f]
        BY DEF Init
      <3> QED BY <2>1, <3>1
    <2>3. <<>> \in Seq(AccessType)
      OBVIOUS
    <2> QED BY <1>1, <1>2, <2>1, <2>2, <2>3 DEF Init, Types, PC
  <1>4. Clock
    BY <1>1 DEF Clock
  <1>5. Log
    BY <1>1, FS_EmptySet DEF Log
  <1>6. ASSUME NEW t \in Threads PROVE Progress(t) /\ Seen(t)
    <2>1. Len(accesses[t]) = 0 /\ Len(query[t]) = 0 /\ 1..Len(accesses[t]) = {} /\ ~ Granted(t)
      BY <1>1 DEF Granted
    <2> QED BY <1>1, <2>1 DEF Progress, Seen
  <1>7. ASSUME NEW r \in Rows PROVE RowInv(r)
    <2>1. ASSUME NEW t \in Threads PROVE ~ Announced(t, r) /\ ~ HasRead(t, r) /\ ~ Waits(t, r)
      <3>1. DOMAIN accesses[t] = {} /\ pc[t] = "idle"
        BY <1>1
      <3> QED BY <3>1 DEF Announced, HasRead, Waits, Granted
    <2>2. Announcers(r) = {} /\ Readers(r) = {} /\ Waiters(r) = {}
      BY <2>1 DEF Announcers, Readers, Waiters
    <2>3. PICK m : /\ m = manager[r] /\ m.wts = 0 /\ m.rts = 0 /\ m.data = 0
                   /\ m.prereq = {} /\ m.readreq = {}
                   /\ m.min_pts = UINT64_MAX /\ m.min_rts = UINT64_MAX
      BY <1>1
    <2>4. IsFiniteSet({}) /\ Cardinality({}) = 0
      BY FS_EmptySet
    <2>5. Buffers(m, {}, {}, ts)
      BY <2>3, <2>4 DEF Buffers, IsMin
    <2>6. Reading(r, m, {}, {}, ts, committed)
      BY <1>1 DEF Reading
    <2>7. Writing(r, m, {}, ts, committed)
      <3>1. UpTo(committed, r, 0) = {}
        BY <1>1 DEF UpTo
      <3> QED BY <1>1, <2>3, <2>4, <3>1 DEF Writing
    <2> QED BY <2>2, <2>3, <2>5, <2>6, <2>7 DEF RowInv
  <1> QED BY <1>3, <1>4, <1>5, <1>6, <1>7 DEF IInv

LEMMA StepInv ==
  ASSUME IInv, NEW t \in Threads, Step(t)
  PROVE  IInv'
  <1>1. \/ StartTxn(t) \/ Announces(t) \/ Refused(t) \/ ReadRow(t) \/ ReadWaits(t)
        \/ LeaveSpin(t) \/ FinishTxn(t) \/ ReturnRow(t) \/ TxnEnds(t)
    BY PrewriteFacts, ReadAbortsFacts DEF Step
  <1>2. Core'
    BY <1>1, StartCore, AnnounceCore, RefusedCore, ReadCore, WaitCore, LeaveCore, FinishCore,
       ReturnCore, EndsCore
  <1>3. ASSUME NEW u \in Threads PROVE Seen(u)'
    BY <1>1, QuietSeen, ReadSeen, LeaveSeen, FinishSeen, ReturnSeen
  <1>4. ASSUME NEW r \in Rows PROVE RowInv(r)'
    BY <1>1, StartRows, AnnounceRows, QuietRows, ReadRows, WaitRows, FinishRows, ReturnRows
  <1> QED BY <1>2, <1>3, <1>4 DEF IInv, Core

LEMMA NextInv == IInv /\ [Next]_vars => IInv'
  <1> SUFFICES ASSUME IInv, [Next]_vars PROVE IInv'
    OBVIOUS
  <1>1. CASE \E t \in Threads : Step(t)
    BY <1>1, StepInv
  <1>2. CASE UNCHANGED vars
    <2>1. UNCHANGED <<timestamp, manager, ts, ts_ready, cur_row, query, accesses, rc, pc,
                      committed>>
      BY <1>2 DEF vars
    <2>2. Types' /\ Clock' /\ Log'
      BY <2>1 DEF IInv, Types, Clock, Log
    <2>3. ASSUME NEW u \in Threads PROVE Progress(u)' /\ Seen(u)'
      <3>1. Unmoved(u) /\ Progress(u)
        BY <2>1 DEF IInv, Unmoved
      <3> QED BY <2>1, <3>1, ProgressFrame, UnmovedSeen
    <2>4. ASSUME NEW r \in Rows PROVE RowInv(r)'
      <3>1. \A u \in Threads : SameTo(u, r)
        BY <2>1, OthersSame DEF Unmoved
      <3> QED BY <2>1, <3>1, RowStays
    <2> QED BY <2>2, <2>3, <2>4 DEF IInv
  <1> QED BY <1>1, <1>2 DEF Next, Terminated

\* The invariant is inductive.
THEOREM Inductive == Spec => []IInv
  <1>1. Init => IInv
    BY InitInv
  <1>2. IInv /\ [Next]_vars => IInv'
    BY NextInv
  <1> QED BY <1>1, <1>2, PTL DEF Spec

------------------------------------------------------------------------------
(***************************************************************************)
(* What follows from it                                                    *)
(***************************************************************************)

\* There are no more transactions in the log up to n than timestamps.
LEMMA FewUpTo ==
  ASSUME NEW L \in SUBSET Transaction, IsFiniteSet(L), NEW r, NEW n \in Nat,
         \A c, d \in L : c.ts = d.ts => c = d, \A c \in L : 0 < c.ts
  PROVE  Cardinality(UpTo(L, r, n)) <= n /\ Cardinality(Before(L, r, n)) <= n
  <1> DEFINE B == UpTo(L, r, n)
             f == [c \in B |-> c.ts]
  <1>1. \A c \in B : c \in L /\ c.ts \in 1..n
    BY DEF UpTo, Transaction, Stamp
  <1>2. f \in Injection(B, 1..n)
    <2>1. f \in [B -> 1..n]
      BY <1>1
    <2>2. \A c, d \in B : f[c] = f[d] => c = d
      BY <1>1
    <2> HIDE DEF B, f
    <2> QED BY <2>1, <2>2 DEF Injection, IsInjective
  <1>3. IsFiniteSet(1..n) /\ Cardinality(1..n) = n
    <2>1. 1 \in Int /\ n \in Int /\ (1 > n => n = 0) /\ n - 1 + 1 = n
      OBVIOUS
    <2> QED BY <2>1, FS_Interval
  <1>4. Before(L, r, n) \subseteq B
    BY DEF Before, UpTo, Transaction, Stamp
  <1>5. Cardinality(B) \in Nat /\ Cardinality(Before(L, r, n)) \in Nat /\ IsFiniteSet(B)
    BY LogFinite
  <1> HIDE DEF f, B
  <1>6. Cardinality(B) <= n
    BY <1>2, <1>3, FS_Injection
  <1>7. Cardinality(Before(L, r, n)) <= Cardinality(B)
    BY <1>4, <1>5, FS_Subset
  <1>8. Cardinality(Before(L, r, n)) <= n
    BY <1>5, <1>6, <1>7
  <1> QED BY <1>6, <1>8 DEF B

\* Values count writes, so no value outruns the timestamps.
LEMMA ValueBound ==
  ASSUME IInv
  PROVE  /\ \A r \in Rows : manager[r].data \in 0..MAX_TS
         /\ \A u \in Threads : \A r : Cardinality(Before(committed, r, ts[u])) \in 0..MAX_TS
  <1>1. /\ committed \in SUBSET Transaction /\ IsFiniteSet(committed)
        /\ \A c, d \in committed : c.ts = d.ts => c = d
        /\ \A c \in committed : 0 < c.ts
    BY LogFacts DEF IInv, Log
  <1>2. ASSUME NEW r \in Rows PROVE manager[r].data \in 0..MAX_TS
    <2>1. manager[r].wts <= manager[r].rts /\ manager[r].rts < timestamp
          /\ manager[r].rts \in Nat /\ manager[r].wts \in Nat /\ manager[r].data \in Nat
          /\ manager[r].data = Cardinality(UpTo(committed, r, manager[r].wts))
      BY WrittenBeforeRead, RowFacts DEF Writing
    <2>2. manager[r].data <= manager[r].wts
      BY <1>1, <2>1, FewUpTo
    <2>3. timestamp \in 1..UINT64_MAX
      BY DEF IInv, Types
    <2> QED BY <2>1, <2>2, <2>3, MaxFacts
  <1>3. ASSUME NEW u \in Threads, NEW r
        PROVE  Cardinality(Before(committed, r, ts[u])) \in 0..MAX_TS
    <2>1. ts[u] \in 0..MAX_TS /\ MAX_TS \in Nat
      BY MaxFacts DEF IInv, Types
    <2>2. Cardinality(Before(committed, r, ts[u])) \in Nat
      BY <1>1, LogFinite
    <2>3. Cardinality(Before(committed, r, ts[u])) <= ts[u]
      BY <1>1, <2>1, FewUpTo
    <2> QED BY <2>1, <2>2, <2>3
  <1> QED BY <1>2, <1>3

\* A copy that nobody waits for any more also has such a value.
CopyType == cur_row \in [Threads -> 0..MAX_TS]

LEMMA CopyStep ==
  ASSUME IInv, CopyType, [Next]_vars
  PROVE  CopyType'
  <1>1. CASE UNCHANGED cur_row
    BY <1>1 DEF CopyType
  <1>2. ASSUME NEW t \in Threads, ReadRow(t) PROVE CopyType'
    <2>1. /\ cur_row' = [cur_row EXCEPT ![t] = M(t).data]
          /\ Requests(t) \/ pc[t] = "read"
      BY <1>2, ReadFacts
    <2>2. M(t).data \in 0..MAX_TS
      BY <2>1, RequestFacts, ValueBound
    <2> QED BY <2>1, <2>2 DEF CopyType
  <1>3. ASSUME NEW t \in Threads, ReturnRow(t), ~ UNCHANGED cur_row PROVE CopyType'
    <2>1. PICK a : a = Last(accesses[t])
      OBVIOUS
    <2>2. a.type = "WR"
      BY <1>3, <2>1 DEF ReturnRow
    <2>3. PICK r \in Rows, w \in Nat, d \in Nat : r = a.row /\ Returns(t, r, w, d)
      BY <1>3, <2>1, <2>2, ReturnFacts, ReturnWrites
    <2>4. PICK rel : rel = Freed(manager[r], t, Waiters(r), ts)
      OBVIOUS
    <2>5. \A u \in rel : u \in Threads /\ d = Cardinality(Before(committed, r, ts[u]))
      BY <1>3, <2>1, <2>2, <2>3, <2>4, FreedValue DEF Freed, Waiters
    <2>6. \A u \in Threads : cur_row'[u] \in 0..MAX_TS
      <3>1. \A u \in Threads : cur_row'[u] = IF u \in rel THEN d ELSE cur_row[u]
        BY <2>3, <2>4 DEF Returns, Releasing
      <3>2. \A u \in rel : d \in 0..MAX_TS
        BY <2>5, ValueBound
      <3> QED BY <3>1, <3>2 DEF CopyType
    <2>7. cur_row' \in [Threads -> Nat]
      BY <2>3 DEF Returns, Releasing
    <2> QED BY <2>6, <2>7 DEF CopyType
  <1>4. ASSUME NEW t \in Threads, Step(t) PROVE UNCHANGED cur_row \/ ReadRow(t) \/ ReturnRow(t)
    BY <1>4 DEF Step, StartTxn, Prewrite, ReadWaits, ReadAborts, LeaveSpin, FinishTxn, TxnEnds
  <1>5. UNCHANGED vars => UNCHANGED cur_row
    BY DEF vars
  <1> QED BY <1>1, <1>2, <1>3, <1>4, <1>5 DEF Next, Terminated

\* Every variable has the type of its field; no row was written later than it was
\* read, which makes the check that TS_TWR leaves out (row_ts.cpp:182) superfluous.
THEOREM TypeCorrect == Spec => []TypeOK
  <1>1. IInv /\ CopyType => TypeOK
    <2> SUFFICES ASSUME IInv, CopyType PROVE TypeOK
      OBVIOUS
    <2>1. Types /\ MAX_TS \in Nat /\ \A n \in 0..MAX_TS : n \in Stamp
      BY MaxFacts DEF IInv, Stamp
    <2>2. ASSUME NEW r \in Rows
          PROVE  /\ DOMAIN manager[r] = {"wts", "rts", "min_rts", "min_pts", "readreq",
                                         "writereq", "prereq", "data"}
                 /\ manager[r].rts \in 0..timestamp - 1
                 /\ manager[r].wts \in 0..manager[r].rts
                 /\ {manager[r].min_rts, manager[r].min_pts} \subseteq Stamp
                 /\ manager[r].readreq \subseteq Request
                 /\ manager[r].prereq \subseteq Request
                 /\ manager[r].writereq \subseteq [txn : Threads, ts : Stamp, row : 0..MAX_TS]
                 /\ manager[r].data \in 0..MAX_TS
      <3>1. manager[r] \in Manager
        BY RowFacts
      <3>2. manager[r].rts \in 0..timestamp - 1 /\ manager[r].wts \in 0..manager[r].rts
        <4>1. /\ manager[r].rts \in Nat /\ manager[r].wts \in Nat /\ timestamp \in Nat
              /\ manager[r].rts < timestamp /\ manager[r].wts <= manager[r].rts
          BY RowFacts, ClockFacts, WrittenBeforeRead
        <4> QED BY <4>1
      <3>3. /\ DOMAIN manager[r] = {"wts", "rts", "min_rts", "min_pts", "readreq",
                                    "writereq", "prereq", "data"}
            /\ {manager[r].min_rts, manager[r].min_pts} \subseteq Stamp
            /\ manager[r].readreq \subseteq Request /\ manager[r].prereq \subseteq Request
            /\ manager[r].writereq = {}
        BY <3>1 DEF Manager
      <3> QED BY <3>2, <3>3, ValueBound
    <2>3. accesses \in [Threads -> Seq([row : Rows, type : {"RD", "WR"}, data : 0..MAX_TS])]
      <3> DEFINE A == [row : Rows, type : {"RD", "WR"}, data : 0..MAX_TS]
      <3>1. ASSUME NEW t \in Threads PROVE accesses[t] \in Seq(A)
        <4>1. PICK n \in Nat : n = Len(accesses[t]) /\ DOMAIN accesses[t] = 1..n
                               /\ accesses[t] \in Seq(AccessType)
          BY <2>1, ThreadFacts
        <4>2. ASSUME NEW k \in 1..n PROVE accesses[t][k] \in A
          <5>1. accesses[t][k] \in AccessType
            BY <4>1
          <5>2. accesses[t][k].data = Cardinality(Before(committed, accesses[t][k].row, ts[t]))
            BY <4>1 DEF IInv, Seen
          <5>3. accesses[t][k].data \in 0..MAX_TS
            BY <5>2, ValueBound
          <5> QED BY <5>1, <5>3 DEF AccessType
        <4> HIDE DEF A
        <4> QED BY <4>1, <4>2
      <3> HIDE DEF A
      <3>2. accesses \in [Threads -> Seq(A)]
        BY <2>1, <3>1 DEF Types
      <3> QED BY <3>2 DEF A
    <2>4. ts \in [Threads -> Stamp]
      BY <2>1 DEF Types
    <2> QED BY <2>1, <2>2, <2>3, <2>4 DEF Types, TypeOK, CopyType
  <1>2. Init => CopyType
    BY MaxFacts DEF Init, CopyType
  <1>3. IInv /\ CopyType /\ [Next]_vars => CopyType'
    BY CopyStep
  <1> QED BY <1>1, <1>2, <1>3, Inductive, PTL DEF Spec

\* Every prewrite that waits is that of a thread which still holds the write or is
\* about to read for it, so somebody takes it back (row.cpp:213-218).
THEOREM PrewritesOwned == Spec => []NoOrphanPrewrite
  <1>1. IInv => NoOrphanPrewrite
    <2> SUFFICES ASSUME IInv, NEW r \in Rows
                 PROVE  manager[r].prereq = {[txn |-> t, ts |-> ts[t]] :
                                               t \in {u \in Threads : Announced(u, r)}}
      BY DEF NoOrphanPrewrite
    <2>1. \A e : e \in manager[r].prereq <=>
                   \E t \in Announcers(r) : e = [txn |-> t, ts |-> ts[t]]
      BY RowFacts DEF Buffers
    <2> QED BY <2>1 DEF Announcers
  <1> QED BY <1>1, Inductive, PTL

\* A buffered read waits for a prewrite of a smaller timestamp, and whoever spins
\* is buffered or has been let through (row_ts.cpp:243-266).
THEOREM NoWakeupLost == Spec => []NoLostWakeup
  <1>1. IInv => NoLostWakeup
    <2> SUFFICES ASSUME IInv PROVE NoLostWakeup
      OBVIOUS
    <2>1. ASSUME NEW r \in Rows, NEW e \in manager[r].readreq
          PROVE  /\ pc[e.txn] = "spin" /\ ~ ts_ready[e.txn]
                 /\ \E p \in manager[r].prereq : p.ts < e.ts
      <3>1. /\ \A f : f \in manager[r].prereq <=>
                        \E t \in Announcers(r) : f = [txn |-> t, ts |-> ts[t]]
            /\ \A f : f \in manager[r].readreq <=>
                        \E t \in Waiters(r) : f = [txn |-> t, ts |-> ts[t]]
            /\ \A t \in Waiters(r) : \E u \in Announcers(r) : ts[u] < ts[t]
        BY RowFacts DEF Buffers
      <3>2. PICK t \in Waiters(r) : e = [txn |-> t, ts |-> ts[t]]
        BY <3>1
      <3>3. PICK u \in Announcers(r) : ts[u] < ts[t]
        BY <3>1
      <3>4. [txn |-> u, ts |-> ts[u]] \in manager[r].prereq
        BY <3>1
      <3>5. e.txn = t /\ pc[t] = "spin" /\ ~ ts_ready[t]
        BY <3>2 DEF Waiters, Waits
      <3> QED BY <3>2, <3>3, <3>4, <3>5
    <2>2. ASSUME NEW t \in Threads, pc[t] = "spin", ~ ts_ready[t]
          PROVE  [txn |-> t, ts |-> ts[t]] \in M(t).readreq
      <3>1. Row(t) \in Rows /\ t \in Waiters(Row(t)) /\ M(t) = manager[Row(t)]
        BY <2>2, RequestFacts DEF Waiters, Waits
      <3> QED BY <3>1, RowFacts DEF Buffers
    <2> QED BY <2>1, <2>2 DEF NoLostWakeup
  <1> QED BY <1>1, Inductive, PTL

\* The value of a row at n is what the log has written before n.
LEMMA VersionBefore ==
  ASSUME NEW n, NEW r
  PROVE  Ordered!Version(n, r) = Cardinality(Before(committed, r, n))
  <1>1. \A S : Ordered!Cardinality(S) = Cardinality(S)
    BY DEF Ordered!Cardinality, Cardinality
  <1> QED BY <1>1 DEF Ordered!Version, Before

\* FinishTxn commits at its timestamp: no later transaction has read what it
\* writes, and it has seen what was written before.
LEMMA FinishCommits ==
  ASSUME IInv, NEW t \in Threads, FinishTxn(t)
  PROVE  Ordered!Next
  <1>1. /\ pc[t] = "run" /\ Len(accesses[t]) = Len(query[t]) /\ query[t] \in Queries
        /\ committed' = committed \union {Logged(t)}
    BY FinishFacts
  <1>2. \A c \in committed : c.ts # ts[t]
    BY <1>1, NotLogged
  <1>3. /\ DOMAIN query[t] = DOMAIN accesses[t] /\ DOMAIN query[t] = 1..Len(accesses[t])
        /\ \A i \in DOMAIN query[t] : /\ accesses[t][i].row = query[t][i].row
                                      /\ accesses[t][i].type = query[t][i].type
                                      /\ query[t][i].row \in Rows
    BY <1>1, QueryType, ThreadFacts DEF IInv, Progress
  <1>4. ASSUME NEW c \in committed, NEW i \in DOMAIN query[t], query[t][i].type = "WR",
               Ordered!Touches(c.query, query[t][i].row)
        PROVE  c.ts < ts[t]
    <2>1. PICK r \in Rows : r = query[t][i].row
      BY <1>3
    <2>2. t \in Announcers(r)
      BY <1>3, <1>4, <2>1 DEF Announcers, Announced
    <2>3. c.ts <= manager[r].rts /\ manager[r].rts <= ts[t]
      BY <1>4, <2>1, <2>2, RowFacts DEF Reading
    <2>4. c.ts # ts[t] /\ c.ts \in Nat /\ ts[t] \in Nat /\ manager[r].rts \in Nat
      BY <1>2, LogFacts, ClockFacts, RowFacts
    <2> QED BY <2>3, <2>4
  <1>5. Logged(t) = [ts |-> ts[t], query |-> query[t],
                     saw |-> [i \in DOMAIN query[t] |-> Ordered!Version(ts[t], query[t][i].row)]]
    <2>1. \A i \in DOMAIN query[t] :
            accesses[t][i].data = Ordered!Version(ts[t], query[t][i].row)
      BY <1>3, VersionBefore DEF IInv, Seen
    <2>2. [i \in DOMAIN accesses[t] |-> accesses[t][i].data]
            = [i \in DOMAIN query[t] |-> Ordered!Version(ts[t], query[t][i].row)]
      BY <1>3, <2>1
    <2> QED BY <2>2 DEF Logged
  <1>6. Ordered!Commit(ts[t], query[t])
    BY <1>1, <1>2, <1>4, <1>5 DEF Ordered!Commit
  <1>7. ts[t] \in Stamp
    BY ClockFacts
  <1> QED BY <1>1, <1>6, <1>7 DEF Ordered!Next

\* Committed transactions are serial in the order of their timestamps, whatever
\* the order in which they commit: RowTS implements TimestampStore.
THEOREM Refinement == Spec => TimestampOrder
  <1>1. Init => Ordered!Init
    BY DEF Init, Ordered!Init
  <1>2. IInv /\ [Next]_vars => [Ordered!Next]_committed
    <2> SUFFICES ASSUME IInv, [Next]_vars PROVE Ordered!Next \/ committed' = committed
      OBVIOUS
    <2>1. ASSUME NEW t \in Threads, Step(t), ~ FinishTxn(t) PROVE committed' = committed
      BY <2>1 DEF Step, StartTxn, Prewrite, ReadRow, ReadWaits, ReadAborts, LeaveSpin,
                  ReturnRow, TxnEnds
    <2>2. UNCHANGED vars => committed' = committed
      BY DEF vars
    <2> QED BY <2>1, <2>2, FinishCommits DEF Next, Terminated, Step
  <1> QED BY <1>1, <1>2, Inductive, PTL DEF Spec, TimestampOrder, Ordered!Spec
==============================================================================
