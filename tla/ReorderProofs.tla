---------------------------- MODULE ReorderProofs ----------------------------
(***************************************************************************)
(* Proofs about Reorder for programs of any number of blocks.              *)
(*                                                                         *)
(* Definitions come before uses, so all recursions over the program are    *)
(* well-founded, and a property of all blocks can be proved by looking at  *)
(* the first block that does not have it (UpTo).                           *)
(*                                                                         *)
(* The argument: a query is picked behind all queries that it depends on,  *)
(* through statements or directly.  When it is its turn in the new program *)
(* only statements are missing, whichever way they are reached: so nothing *)
(* but statements is ever queued, each query is emitted once, at its turn, *)
(* and the order of the queries in the new program is the one in which     *)
(* they were picked.                                                       *)
(***************************************************************************)
EXTENDS Reorder, SeqLemmas, FiniteSetTheorems, TLAPS

------------------------------------------------------------------------------
(***************************************************************************)
(* The operators: what their recursions and choices return                 *)
(***************************************************************************)

\* Induction over the numbers up to n, with the property given as a set.
LEMMA UpTo ==
  ASSUME NEW n \in Nat, NEW S, \A k \in 0..n : (\A m \in 0..n : m < k => m \in S) => k \in S
  PROVE  \A k \in 0..n : k \in S
  <1> DEFINE Bad == (0..n) \ S
  <1>1. ASSUME Bad # {} PROVE FALSE
    <2>1. PICK g \in Bad : \A k \in Bad : g <= k
      BY <1>1, LeastNumber
    <2>2. \A m \in 0..n : m < g => m \in S
      BY <2>1
    <2> QED BY <2>1, <2>2
  <1> QED BY <1>1

\* The program.
Program ==
  /\ queries \subseteq Blocks
  /\ conflict_index \in [Blocks -> Nat]
  /\ definers \in [Blocks -> SUBSET Blocks]
  /\ \A b \in Blocks : definers[b] \subseteq 1..(b - 1)

\* The recursion of Ancestors is over blocks that come earlier, so the equation
\* that defines it has a solution.
LEMMA AncestorsDef ==
  ASSUME Program
  PROVE  Ancestors = [b \in Blocks |-> definers[b] \union UNION {Ancestors[d] : d \in definers[b]}]
  <1> DEFINE Solves(g, n) ==
               g = [b \in 1..n |-> definers[b] \union UNION {g[d] : d \in definers[b]}]
             S == {n \in 0..N : \E g : Solves(g, n)}
  <1> N \in Nat
    BY ProgramAssumption
  <1>1. ASSUME NEW n \in 0..N, \A m \in 0..N : m < n => m \in S PROVE n \in S
    <2>1. CASE n = 0
      <3>1. Solves([b \in 1..0 |-> {}], 0)
        OBVIOUS
      <3> QED BY <2>1, <3>1
    <2>2. CASE n # 0
      <3>1. n - 1 \in 0..N /\ n - 1 < n
        BY <2>2
      <3>2. PICK g : Solves(g, n - 1)
        BY <1>1, <3>1
      <3> DEFINE a == definers[n] \union UNION {g[d] : d \in definers[n]}
                 h == [b \in 1..n |-> IF b = n THEN a ELSE g[b]]
      <3> HIDE DEF a
      <3>3. \A b \in 1..n : definers[b] \subseteq 1..(b - 1)
        BY DEF Program, Blocks
      <3>4. \A b \in 1..n : \A d \in definers[b] : d \in 1..(n - 1) /\ h[d] = g[d]
        BY <3>3
      <3>5. \A b \in 1..(n - 1) : g[b] = definers[b] \union UNION {g[d] : d \in definers[b]}
        BY <3>2
      <3>6. \A b \in 1..n : UNION {h[d] : d \in definers[b]} = UNION {g[d] : d \in definers[b]}
        BY <3>4
      <3>7. \A b \in 1..n : h[b] = definers[b] \union UNION {h[d] : d \in definers[b]}
        <4> TAKE b \in 1..n
        <4>1. CASE b = n
          BY <4>1, <3>6 DEF a
        <4>2. CASE b # n
          <5>1. b \in 1..(n - 1) /\ h[b] = g[b]
            BY <4>2
          <5> QED BY <5>1, <3>5, <3>6
        <4> QED BY <4>1, <4>2
      <3>8. Solves(h, n)
        BY <3>7
      <3> QED BY <3>8
    <2> QED BY <2>1, <2>2
  <1>2. N \in S
    <2> HIDE DEF S
    <2> QED BY <1>1, UpTo
  <1>3. PICK g : Solves(g, N)
    BY <1>2
  <1> QED BY <1>3 DEF Ancestors, Blocks

\* The ancestors of a block come before it, and their ancestors are its own.
LEMMA AncestorsFacts ==
  ASSUME Program
  PROVE  \A b \in Blocks :
           /\ definers[b] \subseteq Ancestors[b]
           /\ Ancestors[b] \subseteq 1..(b - 1)
           /\ \A d \in Ancestors[b] : Ancestors[d] \subseteq Ancestors[b]
  <1> DEFINE Good(b) == /\ Ancestors[b] \subseteq 1..(b - 1)
                        /\ \A d \in Ancestors[b] : Ancestors[d] \subseteq Ancestors[b]
             S == {b \in 0..N : b # 0 => Good(b)}
  <1> N \in Nat
    BY ProgramAssumption
  <1>1. \A b \in Blocks :
          Ancestors[b] = definers[b] \union UNION {Ancestors[d] : d \in definers[b]}
    BY AncestorsDef, Zenon
  <1>2. \A b \in Blocks : definers[b] \subseteq 1..(b - 1)
    BY DEF Program
  <1>3. ASSUME NEW b \in 0..N, \A m \in 0..N : m < b => m \in S PROVE b \in S
    <2> SUFFICES ASSUME b # 0 PROVE Good(b)
      OBVIOUS
    <2>1. b \in Blocks
      BY DEF Blocks
    <2>2. \A d \in definers[b] : d \in 0..N /\ d < b /\ d # 0 /\ Good(d)
      BY <1>2, <1>3, <2>1
    <2>3. \A x : x \in Ancestors[b] <=> x \in definers[b] \/ \E d \in definers[b] : x \in Ancestors[d]
      BY <1>1, <2>1
    <2>4. Ancestors[b] \subseteq 1..(b - 1)
      BY <1>2, <2>1, <2>2, <2>3
    <2>5. ASSUME NEW x \in Ancestors[b] PROVE Ancestors[x] \subseteq Ancestors[b]
      <3>1. CASE x \in definers[b]
        BY <2>3, <3>1
      <3>2. ASSUME NEW d \in definers[b], x \in Ancestors[d] PROVE Ancestors[x] \subseteq Ancestors[b]
        BY <2>2, <2>3, <3>2
      <3> QED BY <2>3, <2>5, <3>1, <3>2
    <2> QED BY <2>4, <2>5
  <1>4. \A b \in 0..N : b \in S
    <2> HIDE DEF S
    <2> QED BY <1>3, UpTo
  <1> QED BY <1>1, <1>4 DEF Blocks

\* Sets of blocks can be put in their order.
LEMMA InOrderLemma ==
  ASSUME NEW S \in SUBSET Blocks
  PROVE  /\ InOrder(S) \in Seq(S)
         /\ Len(InOrder(S)) = Cardinality(S)
  <1> DEFINE Sorts(s, T) == /\ s \in [1..Cardinality(T) -> T]
                            /\ \A i, j \in 1..Cardinality(T) : i < j => s[i] < s[j]
             D == {n \in 0..N : \A T \in SUBSET (1..n) : \E s : Sorts(s, T)}
  <1> N \in Nat
    BY ProgramAssumption
  <1>1. ASSUME NEW n \in 0..N, \A m \in 0..N : m < n => m \in D PROVE n \in D
    <2> SUFFICES ASSUME NEW T \in SUBSET (1..n) PROVE \E s : Sorts(s, T)
      OBVIOUS
    <2>0. IsFiniteSet(T)
      <3>1. 1 \in Int /\ n \in Int
        OBVIOUS
      <3> QED BY <3>1, FS_Interval, FS_Subset
    <2>1. CASE n = 0
      <3>1. T = {}
        BY <2>1
      <3>2. Cardinality(T) = 0
        BY <3>1, FS_EmptySet
      <3>3. Sorts([i \in 1..0 |-> 0], T)
        BY <3>2
      <3> QED BY <3>3
    <2>2. CASE n # 0 /\ n \notin T
      <3>1. n - 1 \in 0..N /\ n - 1 < n /\ T \in SUBSET (1..(n - 1))
        BY <2>2
      <3> QED BY <1>1, <3>1
    <2>3. CASE n # 0 /\ n \in T
      <3> DEFINE U == T \ {n}
                 c == Cardinality(U)
      <3>1. n - 1 \in 0..N /\ n - 1 < n /\ U \in SUBSET (1..(n - 1))
        BY <2>3
      <3>2. PICK s : Sorts(s, U)
        BY <1>1, <3>1
      <3>3. c \in Nat /\ Cardinality(T) = c + 1
        <4>1. Cardinality(U) = Cardinality(T) - 1
          BY <2>0, <2>3, FS_RemoveElement
        <4>2. Cardinality(T) \in Nat /\ Cardinality(U) \in Nat
          BY <2>0, <2>3, FS_RemoveElement, FS_CardinalityType
        <4> QED BY <4>1, <4>2
      <3> HIDE DEF c
      <3>4. /\ \A i \in 1..c : s[i] \in T /\ s[i] < n /\ s[i] \in Nat
            /\ \A i, j \in 1..c : i < j => s[i] < s[j]
        <4>1. s \in [1..c -> U] /\ \A i, j \in 1..c : i < j => s[i] < s[j]
          BY <3>2 DEF c
        <4>2. \A x \in U : x \in T /\ x < n /\ x \in Nat
          BY <3>1
        <4> QED BY <4>1, <4>2
      <3> DEFINE r == [i \in 1..(c + 1) |-> IF i = c + 1 THEN n ELSE s[i]]
      <3>5. r \in [1..(c + 1) -> T]
        BY <2>3, <3>3, <3>4
      <3>6. \A i, j \in 1..(c + 1) : i < j => r[i] < r[j]
        BY <3>3, <3>4
      <3>7. Sorts(r, T)
        BY <3>3, <3>5, <3>6
      <3> QED BY <3>7
    <2> QED BY <2>1, <2>2, <2>3
  <1>2. N \in D
    <2> HIDE DEF D
    <2> QED BY <1>1, UpTo
  <1>3. \E s : Sorts(s, S)
    BY <1>2 DEF Blocks
  <1>4. Sorts(InOrder(S), S)
    BY <1>3 DEF InOrder
  <1>5. Cardinality(S) \in Nat
    <2>1. 1 \in Int /\ N \in Int
      OBVIOUS
    <2> QED BY <2>1, FS_Interval, FS_Subset, FS_CardinalityType DEF Blocks
  <1> QED BY <1>4, <1>5

\* Followers goes through the blocks in their order.
LEMMA FollowersDef ==
  ASSUME NEW q, NEW done
  PROVE  \E out : /\ out[0] = <<>> /\ Followers(q, done) = out[N]
                  /\ \A b \in Blocks :
                       out[b] = IF /\ b \notin queries /\ q \in definers[b]
                                   /\ definers[b] \subseteq done \union Range(out[b - 1])
                                THEN Append(out[b - 1], b) ELSE out[b - 1]
  <1> DEFINE op(b, out) == IF /\ b \notin queries /\ q \in definers[b]
                              /\ definers[b] \subseteq done \union Range(out)
                           THEN Append(out, b) ELSE out
             Solves(g, n) == g = [s \in SUBSET (1..n) |->
                                    IF s = {} THEN <<>>
                                    ELSE op([b \in 1..N |-> b][Max(s)], g[s \ {Max(s)}])]
             D == {n \in 0..N : \E g : Solves(g, n)}
  <1> N \in Nat
    BY ProgramAssumption
  <1>0. \A n \in 1..N : Max(1..n) = n /\ (1..n) \ {n} = 1..(n - 1)
    <2> TAKE n \in 1..N
    <2>1. \A x \in 1..n : (\A y \in 1..n : x >= y) <=> x = n
      OBVIOUS
    <2>2. n \in 1..n
      OBVIOUS
    <2> QED BY <2>1, <2>2 DEF Max
  <1>1. ASSUME NEW n \in 0..N, \A m \in 0..N : m < n => m \in D PROVE n \in D
    <2>1. CASE n = 0
      <3>1. Solves([s \in SUBSET (1..0) |-> <<>>], 0)
        <4>1. \A s \in SUBSET (1..0) : s = {}
          OBVIOUS
        <4> QED BY <4>1
      <3> QED BY <2>1, <3>1
    <2>2. CASE n # 0
      <3>1. n - 1 \in 0..N /\ n - 1 < n
        BY <2>2
      <3>2. PICK g : Solves(g, n - 1)
        BY <1>1, <3>1
      <3> DEFINE next(s, f) == IF s = {} THEN <<>>
                               ELSE op([b \in 1..N |-> b][Max(s)], f[s \ {Max(s)}])
                 h == [s \in SUBSET (1..n) |->
                         IF n \in s THEN op([b \in 1..N |-> b][Max(s)], g[s \ {Max(s)}])
                         ELSE g[s]]
      <3>3. ASSUME NEW s \in SUBSET (1..n) PROVE h[s] = next(s, h)
        <4>1. CASE n \in s
          <5>1. Max(s) = n
            <6>1. \A x \in s : (\A y \in s : x >= y) <=> x = n
              BY <4>1
            <6> QED BY <6>1, <4>1 DEF Max
          <5>2. s \ {Max(s)} \in SUBSET (1..n) /\ n \notin s \ {Max(s)}
            BY <5>1
          <5>3. h[s \ {Max(s)}] = g[s \ {Max(s)}]
            BY <5>2
          <5>4. h[s] = op([b \in 1..N |-> b][Max(s)], g[s \ {Max(s)}])
            BY <4>1
          <5>5. s # {}
            BY <4>1
          <5> HIDE DEF h, op
          <5> QED BY <5>3, <5>4, <5>5
        <4>2. CASE n \notin s
          <5>1. s \in SUBSET (1..(n - 1)) /\ h[s] = g[s]
            BY <4>2
          <5>2. g[s] = next(s, g)
            <6> HIDE DEF op
            <6> QED BY <3>2, <5>1
          <5>3. ASSUME s # {} PROVE h[s \ {Max(s)}] = g[s \ {Max(s)}]
            <6>1. s \ {Max(s)} \in SUBSET (1..n) /\ n \notin s \ {Max(s)}
              BY <4>2
            <6> QED BY <6>1
          <5> HIDE DEF h, op
          <5> QED BY <5>1, <5>2, <5>3
        <4> QED BY <4>1, <4>2
      <3>4. h = [s \in SUBSET (1..n) |-> next(s, h)]
        <4>1. h = [s \in SUBSET (1..n) |-> h[s]]
          <5> HIDE DEF op
          <5> QED OBVIOUS
        <4> HIDE DEF h, next
        <4> QED BY <3>3, <4>1
      <3>5. Solves(h, n)
        <4> HIDE DEF h, op
        <4> QED BY <3>4
      <3> QED BY <3>5
    <2> QED BY <2>1, <2>2
  <1>2. \E g : Solves(g, N)
    <2>1. N \in D
      <3> HIDE DEF D
      <3> QED BY <1>1, UpTo
    <2> QED BY <2>1
  <1>3. PICK g : Followers(q, done) = g[1..N] /\ Solves(g, N)
    BY <1>2 DEF Followers, FoldLeft, MapThenFoldSet, Blocks
  <1> DEFINE out == [k \in 0..N |-> g[1..k]]
  <1>4. out[0] = <<>>
    <2>1. 1..0 = {}
      OBVIOUS
    <2> HIDE DEF op
    <2> QED BY <1>3, <2>1
  <1>5. ASSUME NEW b \in 1..N PROVE out[b] = op(b, out[b - 1])
    <2>1. 1..b \in SUBSET (1..N) /\ 1..b # {} /\ b - 1 \in 0..N
      OBVIOUS
    <2>2. g[1..b] = op([c \in 1..N |-> c][b], g[1..(b - 1)])
      <3> HIDE DEF op
      <3> QED BY <1>0, <1>3, <2>1
    <2> HIDE DEF op
    <2> QED BY <2>1, <2>2
  <1>6. Followers(q, done) = out[N]
    <2>1. N \in 0..N
      OBVIOUS
    <2>2. out[N] = g[1..N]
      BY <2>1
    <2>3. Followers(q, done) = g[1..N]
      BY <1>3
    <2> HIDE DEF out, op, Solves
    <2> QED BY <2>2, <2>3
  <1> HIDE DEF out
  <1> QED BY <1>4, <1>5, <1>6 DEF Blocks

\* Statements in an order that can follow the blocks of P.
Placed(s, P) ==
  /\ s \in Seq(Blocks \ queries)
  /\ \A i \in 1..Len(s) : \A d \in definers[s[i]] : d \in P \/ \E j \in 1..(i - 1) : s[j] = d

\* A statement whose definers are there or placed can be placed next.
LEMMA PlacedAppend ==
  ASSUME NEW s, NEW P, Placed(s, P), NEW b \in Blocks \ queries,
         definers[b] \subseteq P \union Range(s)
  PROVE  Placed(Append(s, b), P)
  <1> DEFINE r == Append(s, b)
  <1>1. s \in Seq(Blocks \ queries)
    BY DEF Placed
  <1>2. /\ r \in Seq(Blocks \ queries) /\ Len(r) = Len(s) + 1 /\ r[Len(s) + 1] = b
        /\ \A i \in 1..Len(s) : r[i] = s[i]
        /\ Len(s) \in Nat
    BY <1>1
  <1>3. ASSUME NEW i \in 1..Len(r), NEW d \in definers[r[i]]
        PROVE  d \in P \/ \E j \in 1..(i - 1) : r[j] = d
    <2>1. CASE i = Len(s) + 1
      <3>1. d \in P \/ \E j \in 1..Len(s) : s[j] = d
        BY <1>1, <1>2, <1>3, <2>1 DEF Range
      <3> QED BY <1>2, <2>1, <3>1
    <2>2. CASE i # Len(s) + 1
      <3>1. i \in 1..Len(s)
        BY <1>2, <2>2
      <3>2. d \in P \/ \E j \in 1..(i - 1) : s[j] = d
        BY <1>2, <1>3, <3>1 DEF Placed
      <3> QED BY <1>2, <3>1, <3>2
    <2> QED BY <2>1, <2>2
  <1> HIDE DEF r
  <1>4. Placed(r, P)
    BY <1>2, <1>3 DEF Placed
  <1> QED BY <1>4 DEF r

\* What follows a query uses it, and has its definers before it.
LEMMA FollowersFacts ==
  ASSUME NEW q, NEW done
  PROVE  Placed(Followers(q, done), done)
  <1> N \in Nat
    BY ProgramAssumption
  <1>1. PICK out : /\ out[0] = <<>> /\ Followers(q, done) = out[N]
                   /\ \A b \in Blocks :
                        out[b] = IF /\ b \notin queries /\ q \in definers[b]
                                    /\ definers[b] \subseteq done \union Range(out[b - 1])
                                 THEN Append(out[b - 1], b) ELSE out[b - 1]
    BY FollowersDef
  <1> DEFINE S == {k \in 0..N : Placed(out[k], done)}
  <1>2. ASSUME NEW k \in 0..N, \A m \in 0..N : m < k => m \in S PROVE k \in S
    <2>1. CASE k = 0
      <3>1. <<>> \in Seq(Blocks \ queries) /\ Len(<<>>) = 0
        OBVIOUS
      <3>2. Placed(<<>>, done)
        BY <3>1 DEF Placed
      <3>3. out[k] = <<>>
        BY <1>1, <2>1
      <3> QED BY <3>2, <3>3
    <2>2. CASE k # 0
      <3>1. k \in Blocks /\ k - 1 \in 0..N /\ k - 1 < k
        BY <2>2 DEF Blocks
      <3>2. Placed(out[k - 1], done)
        BY <1>2, <3>1
      <3>3. CASE /\ k \notin queries /\ q \in definers[k]
                 /\ definers[k] \subseteq done \union Range(out[k - 1])
        <4>1. Placed(Append(out[k - 1], k), done)
          <5>1. k \in Blocks \ queries /\ definers[k] \subseteq done \union Range(out[k - 1])
            BY <3>1, <3>3
          <5> QED BY <3>2, <5>1, PlacedAppend
        <4>2. out[k] = Append(out[k - 1], k)
          BY <1>1, <3>1, <3>3
        <4> QED BY <4>1, <4>2
      <3>4. CASE ~ (/\ k \notin queries /\ q \in definers[k]
                    /\ definers[k] \subseteq done \union Range(out[k - 1]))
        <4>1. out[k] = out[k - 1]
          BY <1>1, <3>1, <3>4
        <4> QED BY <3>2, <4>1
      <3> QED BY <3>3, <3>4
    <2> QED BY <2>1, <2>2
  <1>3. \A k \in 0..N : k \in S
    <2> HIDE DEF S
    <2> QED BY <1>2, UpTo
  <1> QED BY <1>1, <1>3

------------------------------------------------------------------------------
(***************************************************************************)
(* The inductive invariant                                                 *)
(***************************************************************************)

Types ==
  /\ phase \in {"sort", "emit", "rest", "done"}
  /\ query_seq \in Seq(Blocks) /\ q_index \in 0..Len(query_seq)
  /\ processed_blocks \subseteq Blocks
  /\ que \in Seq(Blocks) /\ limit \in 0..N
  /\ tempQ \in Seq(Blocks)

\* The first k queries of the order.
Picked(k) == {query_seq[i] : i \in 1..k}

\* Queries come behind their parents; one that is less contended than what was
\* picked before it was not ready then.
Sorted ==
  /\ \A i \in 1..Len(query_seq) :
       /\ query_seq[i] \in queries /\ map_parent(query_seq[i]) \subseteq Picked(i - 1)
       /\ \A q \in queries : /\ q \notin Picked(i)
                             /\ conflict_index[q] < conflict_index[query_seq[i]]
                             => ~ (map_parent(q) \subseteq Picked(i - 1))
  /\ \A i, j \in 1..Len(query_seq) : query_seq[i] = query_seq[j] => i = j

\* The program Q with the blocks P and the first k queries: every block behind
\* its definers, and the queries in their order.
Emitted(Q, P, k) ==
  /\ Q \in Seq(Blocks)
  /\ \A b : b \in P <=> \E i \in 1..Len(Q) : Q[i] = b
  /\ \A i \in 1..Len(Q) : \A d \in definers[Q[i]] : \E j \in 1..(i - 1) : Q[j] = d
  /\ \A a \in 1..k : query_seq[a] \in P
  /\ \A i \in 1..Len(Q) : Q[i] \in queries => \E a \in 1..k : Q[i] = query_seq[a]
  /\ \A i, j \in 1..Len(Q), a, b \in 1..k :
       Q[i] = query_seq[a] /\ Q[j] = query_seq[b] => (i < j <=> a < b)

\* Only statements are queued, and of the queries that they depend on none is
\* left.
Queued ==
  /\ \A i \in 1..Len(que) : que[i] \notin queries /\ que[i] \in {limit} \union Ancestors[limit]
  /\ que # <<>> => limit \in Blocks /\ queries \intersect Ancestors[limit] \subseteq processed_blocks

Phases ==
  /\ phase = "sort" => /\ processed_blocks = Picked(Len(query_seq))
                       /\ tempQ = <<>> /\ que = <<>> /\ q_index = 0
  /\ phase # "sort" => /\ queries = Picked(Len(query_seq))
                       /\ Emitted(tempQ, processed_blocks, q_index)
  /\ phase \in {"rest", "done"} => q_index = Len(query_seq)
  /\ phase = "done" => processed_blocks = Blocks /\ que = <<>>

IInv == Program /\ Types /\ Sorted /\ Queued /\ Phases

\* Placed statements can be emitted: no query moves.
LEMMA EmitStatements ==
  ASSUME Types, Sorted, NEW Q, NEW P, NEW k \in 0..Len(query_seq), Emitted(Q, P, k),
         NEW s, Placed(s, P)
  PROVE  Emitted(Q \o s, P \union Range(s), k)
  <1> DEFINE R == Q \o s
             O == P \union Range(s)
  <1>1. /\ Q \in Seq(Blocks) /\ s \in Seq(Blocks) /\ Len(Q) \in Nat /\ Len(s) \in Nat
        /\ \A i \in 1..Len(s) : s[i] \notin queries
    BY DEF Emitted, Placed
  <1>2. /\ R \in Seq(Blocks) /\ Len(R) = Len(Q) + Len(s)
        /\ \A i \in 1..Len(Q) : R[i] = Q[i]
        /\ \A i \in (Len(Q) + 1)..(Len(Q) + Len(s)) : R[i] = s[i - Len(Q)]
    <2> HIDE DEF R
    <2> QED BY <1>1, ConcatLemma DEF R
  <1>3. \A b : b \in Range(s) <=> \E i \in 1..Len(s) : s[i] = b
    BY <1>1 DEF Range
  <1> HIDE DEF R
  <1>4. \A i \in 1..Len(R) :
          (i \in 1..Len(Q) /\ R[i] = Q[i])
            \/ (i - Len(Q) \in 1..Len(s) /\ R[i] = s[i - Len(Q)])
    BY <1>1, <1>2
  <1>5. \A i \in 1..Len(s) : i + Len(Q) \in 1..Len(R) /\ R[i + Len(Q)] = s[i]
    BY <1>1, <1>2
  <1>6. \A i \in 1..Len(Q) : i \in 1..Len(R) /\ R[i] = Q[i]
    BY <1>1, <1>2
  <1>7. ASSUME NEW b PROVE b \in O <=> \E i \in 1..Len(R) : R[i] = b
    <2>1. b \in P <=> \E i \in 1..Len(Q) : Q[i] = b
      BY DEF Emitted
    <2> QED BY <1>3, <1>4, <1>5, <1>6, <2>1
  <1>8. ASSUME NEW i \in 1..Len(R), NEW d \in definers[R[i]] PROVE \E j \in 1..(i - 1) : R[j] = d
    <2>1. CASE i \in 1..Len(Q) /\ R[i] = Q[i]
      <3>1. PICK j \in 1..(i - 1) : Q[j] = d
        BY <1>8, <2>1 DEF Emitted
      <3>2. j \in 1..Len(Q)
        BY <1>1, <2>1
      <3> QED BY <1>6, <3>1, <3>2
    <2>2. CASE i - Len(Q) \in 1..Len(s) /\ R[i] = s[i - Len(Q)]
      <3> DEFINE n == i - Len(Q)
      <3>1. d \in P \/ \E j \in 1..(n - 1) : s[j] = d
        BY <1>8, <2>2 DEF Placed
      <3>2. CASE d \in P
        <4>1. PICK j \in 1..Len(Q) : Q[j] = d
          BY <3>2 DEF Emitted
        <4>2. j \in 1..(i - 1)
          BY <1>1, <2>2
        <4> QED BY <1>6, <4>1, <4>2
      <3>3. ASSUME NEW j \in 1..(n - 1), s[j] = d PROVE \E m \in 1..(i - 1) : R[m] = d
        <4>1. j \in 1..Len(s) /\ j + Len(Q) \in 1..(i - 1)
          BY <1>1, <2>2
        <4> QED BY <1>5, <3>3, <4>1
      <3> QED BY <3>1, <3>2, <3>3
    <2> QED BY <1>4, <2>1, <2>2
  <1>9. \A a \in 1..k : query_seq[a] \in O /\ query_seq[a] \in queries
    BY DEF Emitted, Sorted, Types
  <1>10. \A i \in 1..Len(R) : R[i] \in queries => i \in 1..Len(Q) /\ R[i] = Q[i]
    BY <1>1, <1>4
  <1>11. \A i \in 1..Len(R) : R[i] \in queries => \E a \in 1..k : R[i] = query_seq[a]
    BY <1>10 DEF Emitted
  <1>12. \A i, j \in 1..Len(R), a, b \in 1..k :
           R[i] = query_seq[a] /\ R[j] = query_seq[b] => (i < j <=> a < b)
    BY <1>9, <1>10 DEF Emitted
  <1> HIDE DEF O
  <1>13. Emitted(R, O, k)
    BY <1>2, <1>7, <1>8, <1>9, <1>11, <1>12 DEF Emitted
  <1> QED BY <1>13 DEF R, O

\* The next query can be emitted once its definers are there.
LEMMA EmitNext ==
  ASSUME Types, Sorted, NEW Q, NEW P, NEW k \in 0..(Len(query_seq) - 1), Emitted(Q, P, k),
         definers[query_seq[k + 1]] \subseteq P
  PROVE  Emitted(Append(Q, query_seq[k + 1]), P \union {query_seq[k + 1]}, k + 1)
  <1> DEFINE q == query_seq[k + 1]
             R == Append(Q, q)
             O == P \union {q}
             n == Len(Q) + 1
  <1>1. /\ k + 1 \in 1..Len(query_seq) /\ q \in Blocks
        /\ Q \in Seq(Blocks) /\ Len(Q) \in Nat
    BY DEF Emitted, Types
  <1>2. /\ R \in Seq(Blocks) /\ Len(R) = n /\ R[n] = q
        /\ \A i \in 1..Len(Q) : R[i] = Q[i]
    BY <1>1
  <1>3. \A a \in 1..(k + 1) : a \in 1..Len(query_seq) /\ (query_seq[a] = q <=> a = k + 1)
    BY <1>1 DEF Sorted, Types
  <1>4. \A a \in 1..(k + 1) : a \in 1..k \/ a = k + 1
    OBVIOUS
  <1>5. \A i \in 1..Len(Q) : Q[i] # q
    <2> SUFFICES ASSUME NEW i \in 1..Len(Q), Q[i] = q PROVE FALSE
      OBVIOUS
    <2>1. q \in queries
      BY <1>1 DEF Sorted
    <2>2. PICK a \in 1..k : Q[i] = query_seq[a]
      BY <2>1 DEF Emitted
    <2> QED BY <1>3, <2>2
  <1> HIDE DEF R, q
  <1>6. \A i \in 1..Len(R) : (i \in 1..Len(Q) /\ R[i] = Q[i]) \/ (i = n /\ R[i] = q)
    BY <1>1, <1>2
  <1>7. ASSUME NEW b PROVE b \in O <=> \E i \in 1..Len(R) : R[i] = b
    <2>1. b \in P <=> \E i \in 1..Len(Q) : Q[i] = b
      BY DEF Emitted
    <2> QED BY <1>1, <1>2, <1>6, <2>1
  <1>8. ASSUME NEW i \in 1..Len(R), NEW d \in definers[R[i]] PROVE \E j \in 1..(i - 1) : R[j] = d
    <2>1. CASE i \in 1..Len(Q) /\ R[i] = Q[i]
      <3>1. PICK j \in 1..(i - 1) : Q[j] = d
        BY <1>8, <2>1 DEF Emitted
      <3>2. j \in 1..Len(Q)
        BY <1>1, <2>1
      <3> QED BY <1>2, <3>1, <3>2
    <2>2. CASE i = n /\ R[i] = q
      <3>1. PICK j \in 1..Len(Q) : Q[j] = d
        BY <1>8, <2>2 DEF Emitted, q
      <3> QED BY <1>1, <1>2, <2>2, <3>1
    <2> QED BY <1>6, <2>1, <2>2
  <1>9. \A a \in 1..(k + 1) : query_seq[a] \in O
    BY <1>3, <1>4 DEF Emitted
  <1>10. \A i \in 1..Len(R) : R[i] \in queries => \E a \in 1..(k + 1) : R[i] = query_seq[a]
    <2> SUFFICES ASSUME NEW i \in 1..Len(R), R[i] \in queries
                 PROVE  \E a \in 1..(k + 1) : R[i] = query_seq[a]
      OBVIOUS
    <2>1. CASE i \in 1..Len(Q) /\ R[i] = Q[i]
      <3>1. PICK a \in 1..k : Q[i] = query_seq[a]
        BY <2>1 DEF Emitted
      <3> QED BY <2>1, <3>1
    <2>2. CASE i = n /\ R[i] = q
      BY <2>2 DEF q
    <2> QED BY <1>6, <2>1, <2>2
  <1>11. ASSUME NEW i \in 1..Len(R), NEW j \in 1..Len(R), NEW a \in 1..(k + 1), NEW b \in 1..(k + 1),
                R[i] = query_seq[a], R[j] = query_seq[b]
         PROVE  i < j <=> a < b
    <2>1. \A m \in 1..Len(R), c \in 1..(k + 1) : R[m] = query_seq[c] =>
            (m \in 1..Len(Q) /\ R[m] = Q[m] /\ c \in 1..k) \/ (m = n /\ c = k + 1)
      BY <1>3, <1>4, <1>5, <1>6
    <2>2. \A m \in 1..Len(Q) : m < n
      BY <1>1
    <2>3. CASE j = n /\ b = k + 1
      <3>1. CASE i = n /\ a = k + 1
        BY <2>3, <3>1, <1>1
      <3>2. CASE i \in 1..Len(Q) /\ a \in 1..k
        BY <2>2, <2>3, <3>2
      <3> QED BY <2>1, <1>11, <3>1, <3>2
    <2>4. CASE j \in 1..Len(Q) /\ R[j] = Q[j] /\ b \in 1..k
      <3>1. CASE i = n /\ a = k + 1
        BY <1>1, <2>4, <3>1
      <3>2. CASE i \in 1..Len(Q) /\ R[i] = Q[i] /\ a \in 1..k
        BY <1>11, <2>4, <3>2 DEF Emitted
      <3> QED BY <2>1, <1>11, <3>1, <3>2
    <2> QED BY <2>1, <1>11, <2>3, <2>4
  <1> HIDE DEF O
  <1>12. Emitted(R, O, k + 1)
    BY <1>2, <1>7, <1>8, <1>9, <1>10, <1>11 DEF Emitted
  <1> QED BY <1>12 DEF R, O, q

\* The parents of a query are its ancestors, and all those that are still to be
\* emitted for a statement that it uses.
LEMMA ParentsLemma ==
  ASSUME Program, NEW q \in Blocks
  PROVE  /\ \A p \in map_parent(q) : p \in queries /\ p \in Ancestors[q]
         /\ definers[q] \intersect queries \subseteq map_parent(q)
         /\ \A d \in definers[q] \ queries : Ancestors[d] \intersect queries \subseteq map_parent(q)
  <1>1. \A d \in definers[q] : d \in Blocks /\ d \in Ancestors[q] /\ Ancestors[d] \subseteq Ancestors[q]
    BY AncestorsFacts DEF Program
  <1> QED BY <1>1 DEF map_parent

\* A query that comes before a less contended one has among the ancestors of
\* that one itself or another query in between that is as contended.
LEMMA QueryOrder ==
  ASSUME Program, Types, Sorted
  PROVE  \A j \in 1..Len(query_seq), i \in 1..Len(query_seq) :
           i < j /\ conflict_index[query_seq[j]] < conflict_index[query_seq[i]] =>
             \E k \in i..(j - 1) :
               /\ query_seq[k] \in Ancestors[query_seq[j]]
               /\ conflict_index[query_seq[k]] >= conflict_index[query_seq[i]]
  <1> DEFINE n == Len(query_seq)
             ci(i) == conflict_index[query_seq[i]]
             Between(i, j) == \E k \in i..(j - 1) : /\ query_seq[k] \in Ancestors[query_seq[j]]
                                                     /\ ci(k) >= ci(i)
             S == {j \in 0..n : j # 0 => \A i \in 1..n : i < j /\ ci(j) < ci(i) => Between(i, j)}
  <1>0. n \in Nat /\ \A i \in 1..n : query_seq[i] \in Blocks /\ ci(i) \in Nat
    BY DEF Types, Program
  <1>1. ASSUME NEW j \in 0..n, \A m \in 0..n : m < j => m \in S PROVE j \in S
    <2> SUFFICES ASSUME j # 0, NEW i \in 1..n, i < j, ci(j) < ci(i) PROVE Between(i, j)
      OBVIOUS
    <2> DEFINE q == query_seq[j]
    <2>1. j \in 1..n /\ q \in queries /\ q \in Blocks
      BY <1>0 DEF Sorted
    <2>2. q \notin Picked(i)
      <3> SUFFICES ASSUME NEW m \in 1..i, query_seq[m] = q PROVE FALSE
        BY DEF Picked
      <3>1. m \in 1..n /\ m # j
        BY <1>0
      <3> QED BY <2>1, <3>1 DEF Sorted
    <2>3. PICK p \in map_parent(q) : p \notin Picked(i - 1)
      BY <2>1, <2>2 DEF Sorted
    <2>4. PICK k \in 1..(j - 1) : query_seq[k] = p
      <3>1. p \in Picked(j - 1)
        BY <2>1, <2>3 DEF Sorted
      <3> QED BY <3>1 DEF Picked
    <2>5. k \in i..(j - 1) /\ k \in 1..n
      <3>1. ~ (k \in 1..(i - 1))
        BY <2>3, <2>4 DEF Picked
      <3> QED BY <1>0, <2>1, <2>4, <3>1
    <2>6. p \in Ancestors[q]
      BY <2>1, <2>3, ParentsLemma
    <2>7. CASE ci(k) >= ci(i)
      BY <2>4, <2>5, <2>6, <2>7
    <2>8. CASE ci(k) < ci(i)
      <3>1. i < k /\ k < j /\ k \in 0..n /\ k # 0
        BY <1>0, <2>5, <2>8
      <3>2. Between(i, k)
        BY <1>1, <2>8, <3>1
      <3>3. PICK m \in i..(k - 1) : query_seq[m] \in Ancestors[p] /\ ci(m) >= ci(i)
        BY <2>4, <3>2
      <3>4. query_seq[m] \in Ancestors[q]
        BY <2>1, <2>6, <3>3, AncestorsFacts
      <3>5. m \in i..(j - 1)
        BY <3>1, <3>3
      <3> QED BY <3>3, <3>4, <3>5
    <2> QED BY <1>0, <2>1, <2>5, <2>7, <2>8
  <1>2. \A j \in 0..n : j \in S
    <2> HIDE DEF S
    <2> QED BY <1>0, <1>1, UpTo
  <1> QED BY <1>2

\* The invariant has what the runs check.
LEMMA InvDefiners == IInv => DefinersFirst
  <1> SUFFICES ASSUME IInv, NEW i \in DOMAIN tempQ, NEW d \in definers[tempQ[i]]
               PROVE  d \in Range(SubSeq(tempQ, 1, i - 1))
    BY DEF DefinersFirst
  <1>1. tempQ \in Seq(Blocks) /\ i \in 1..Len(tempQ) /\ Len(tempQ) \in Nat
    BY DEF IInv, Types
  <1>2. phase # "sort"
    <2>1. tempQ # <<>>
      BY <1>1
    <2> QED BY <2>1 DEF IInv, Phases
  <1>3. PICK j \in 1..(i - 1) : tempQ[j] = d
    BY <1>1, <1>2 DEF IInv, Phases, Emitted
  <1>4. /\ Len(SubSeq(tempQ, 1, i - 1)) = i - 1 /\ SubSeq(tempQ, 1, i - 1) \in Seq(Blocks)
        /\ SubSeq(tempQ, 1, i - 1)[j] = d
    BY <1>1, <1>3
  <1> QED BY <1>3, <1>4 DEF Range

\* Where the queries of the new program are in their order.
LEMMA Places ==
  ASSUME IInv, tempQ # <<>>
  PROVE  /\ q_index \in 0..Len(query_seq)
         /\ \A a \in 1..q_index : \E i \in 1..Len(tempQ) : tempQ[i] = query_seq[a]
         /\ \A i \in 1..Len(tempQ) : tempQ[i] \in queries =>
              \E a \in 1..q_index : tempQ[i] = query_seq[a]
         /\ \A i, j \in 1..Len(tempQ), a, b \in 1..q_index :
              tempQ[i] = query_seq[a] /\ tempQ[j] = query_seq[b] => (i < j <=> a < b)
  <1>1. Emitted(tempQ, processed_blocks, q_index) /\ q_index \in 0..Len(query_seq)
    BY DEF IInv, Phases, Types
  <1> QED BY <1>1 DEF Emitted

\* One query has one turn, and the places in the program are in that order.
LEMMA InvOnce == IInv => QueriesOnce
  <1> SUFFICES ASSUME IInv, NEW i \in DOMAIN tempQ, NEW j \in DOMAIN tempQ,
                      tempQ[i] = tempQ[j], tempQ[i] \in queries
               PROVE  i = j
    BY DEF QueriesOnce
  <1>1. i \in 1..Len(tempQ) /\ j \in 1..Len(tempQ) /\ tempQ # <<>> /\ Len(tempQ) \in Nat
    BY DEF IInv, Types
  <1>2. PICK a \in 1..q_index : tempQ[i] = query_seq[a]
    BY <1>1, Places
  <1>3. tempQ[j] = query_seq[a]
    BY <1>2
  <1>4. ~ (a < a)
    <2>1. q_index \in Nat
      BY <1>1, Places
    <2> QED BY <1>2, <2>1
  <1>5. ~ (i < j) /\ ~ (j < i)
    BY <1>1, <1>2, <1>3, <1>4, Places
  <1> QED BY <1>1, <1>5

\* The order of the queries is also that of their places in the program.
LEMMA InvContended == IInv => ContendedLast
  <1> SUFFICES ASSUME IInv, NEW i \in DOMAIN tempQ, NEW j \in DOMAIN tempQ,
                      i < j, tempQ[i] \in queries, tempQ[j] \in queries,
                      conflict_index[tempQ[j]] < conflict_index[tempQ[i]]
               PROVE  \E k \in i..(j - 1) : /\ tempQ[k] \in Ancestors[tempQ[j]] \intersect queries
                                            /\ conflict_index[tempQ[k]] >= conflict_index[tempQ[i]]
    BY DEF ContendedLast
  <1>1. i \in 1..Len(tempQ) /\ j \in 1..Len(tempQ) /\ tempQ # <<>> /\ Len(tempQ) \in Nat
    BY DEF IInv, Types
  <1>2. PICK a \in 1..q_index : tempQ[i] = query_seq[a]
    BY <1>1, Places
  <1>3. PICK b \in 1..q_index : tempQ[j] = query_seq[b]
    BY <1>1, Places
  <1>4. a < b /\ a \in 1..Len(query_seq) /\ b \in 1..Len(query_seq)
    <2>1. a < b
      BY <1>1, <1>2, <1>3, Places
    <2>2. Len(query_seq) \in Nat /\ q_index \in 0..Len(query_seq)
      BY DEF IInv, Types
    <2> QED BY <2>1, <2>2
  <1>5. PICK c \in a..(b - 1) : /\ query_seq[c] \in Ancestors[query_seq[b]]
                                /\ conflict_index[query_seq[c]] >= conflict_index[query_seq[a]]
    <2>1. Program /\ Types /\ Sorted
      BY DEF IInv
    <2> QED BY <1>2, <1>3, <1>4, <2>1, QueryOrder
  <1>6. c \in 1..q_index /\ c \in 1..Len(query_seq)
    <2>1. Len(query_seq) \in Nat /\ q_index \in 0..Len(query_seq)
      BY DEF IInv, Types
    <2> QED BY <1>4, <2>1
  <1>7. PICK k \in 1..Len(tempQ) : tempQ[k] = query_seq[c]
    BY <1>1, <1>6, Places
  <1>8. k < j
    BY <1>1, <1>3, <1>5, <1>6, <1>7, Places
  <1>9. ~ (k < i)
    BY <1>1, <1>2, <1>5, <1>6, <1>7, Places
  <1>10. query_seq[c] \in queries
    BY <1>6 DEF IInv, Sorted
  <1>11. k \in i..(j - 1)
    BY <1>1, <1>8, <1>9
  <1> QED BY <1>2, <1>3, <1>5, <1>7, <1>10, <1>11

\* While queries are left one of them has all its parents before it, so that the
\* loop that orders them goes on (CBlocks.cpp:830).
SortGoesOn ==
  phase = "sort" /\ processed_blocks # queries => \E q \in Blocks : NextQuery(q)

\* While queries are left, the first of them in the source is ready, so there is
\* a least contended one that is.
LEMMA InvGoesOn == IInv => SortGoesOn
  <1> SUFFICES ASSUME IInv, phase = "sort", processed_blocks # queries
               PROVE  \E q \in Blocks : NextQuery(q)
    BY DEF SortGoesOn
  <1> DEFINE left == queries \ processed_blocks
             ready == {p \in left : Ready(p)}
  <1> N \in Nat /\ Program
    BY ProgramAssumption DEF IInv
  <1>1. left # {} /\ left \in SUBSET (0..N)
    <2>1. processed_blocks \subseteq queries
      BY DEF IInv, Phases, Sorted, Picked
    <2>2. queries \subseteq 1..N
      BY DEF Program, Blocks
    <2>3. left # {}
      BY <2>1
    <2>4. \A x \in left : x \in 0..N
      BY <2>2
    <2> HIDE DEF left
    <2> QED BY <2>3, <2>4
  <1>2. PICK p \in left : \A n \in left : p <= n
    BY <1>1, LeastNumber
  <1>3. Ready(p)
    <2> SUFFICES ASSUME NEW d \in map_parent(p), d \notin processed_blocks PROVE FALSE
      BY DEF Ready
    <2>1. p \in Blocks
      BY <1>2 DEF Program
    <2>2. d \in queries /\ d \in Ancestors[p]
      BY <2>1, ParentsLemma
    <2>3. d \in 1..(p - 1)
      BY <2>1, <2>2, AncestorsFacts
    <2>4. d \in left /\ p \in 0..N
      BY <1>1, <2>2
    <2> QED BY <1>2, <2>3, <2>4
  <1>4. PICK q \in ready : \A n \in ready : conflict_index[q] <= conflict_index[n]
    <2> DEFINE x == conflict_index[p]
               C == {n \in 0..x : \E r \in ready : conflict_index[r] = n}
    <2>1. \A r \in ready : conflict_index[r] \in Nat
      BY DEF Program
    <2>2. p \in ready /\ x \in Nat /\ x \in C
      BY <1>2, <1>3, <2>1
    <2>3. PICK g \in C : \A n \in C : g <= n
      <3> HIDE DEF x
      <3> QED BY <2>2, LeastNumber
    <2>4. PICK q \in ready : conflict_index[q] = g
      BY <2>3
    <2>5. ASSUME NEW n \in ready PROVE g <= conflict_index[n]
      <3>1. CASE conflict_index[n] <= x
        <4>1. conflict_index[n] \in C
          BY <2>1, <2>2, <3>1
        <4> QED BY <2>3, <4>1
      <3>2. CASE x < conflict_index[n]
        <4>1. g \in 0..x
          BY <2>3
        <4> QED BY <2>1, <2>2, <3>2, <4>1
      <3> QED BY <2>1, <2>2, <3>1, <3>2
    <2> QED BY <2>4, <2>5
  <1> QED BY <1>4 DEF NextQuery, Program

------------------------------------------------------------------------------
(***************************************************************************)
(* The steps                                                               *)
(***************************************************************************)

\* The program does not change.
LEMMA ProgramFrame ==
  ASSUME UNCHANGED program
  PROVE  /\ queries' = queries /\ conflict_index' = conflict_index /\ definers' = definers
         /\ Ancestors' = Ancestors
         /\ \A q : map_parent(q)' = map_parent(q)
         /\ Program => Program'
  <1>1. queries' = queries /\ conflict_index' = conflict_index /\ definers' = definers
    BY DEF program
  <1>2. Ancestors' = Ancestors
    BY <1>1 DEF Ancestors
  <1>3. \A q : map_parent(q)' = map_parent(q)
    BY <1>1, <1>2 DEF map_parent
  <1>4. Program => Program'
    BY <1>1 DEF Program
  <1> QED BY <1>1, <1>2, <1>3, <1>4

\* Nor does the order of the queries once it is made.
LEMMA SortedFrame ==
  ASSUME UNCHANGED <<program, query_seq>>, Sorted
  PROVE  Sorted'
  <1>1. /\ query_seq' = query_seq /\ queries' = queries /\ conflict_index' = conflict_index
        /\ \A q : map_parent(q)' = map_parent(q)
    BY ProgramFrame
  <1>2. \A k : Picked(k)' = Picked(k)
    BY <1>1 DEF Picked
  <1> QED BY <1>1, <1>2 DEF Sorted

\* How much of the program is there, in the next state.
LEMMA EmittedFrame ==
  ASSUME UNCHANGED <<program, query_seq>>, NEW Q, NEW P, NEW k, Emitted(Q, P, k),
         tempQ' = Q, processed_blocks' = P, q_index' = k
  PROVE  Emitted(tempQ, processed_blocks, q_index)'
  BY ProgramFrame DEF Emitted

\* The invariant holds of every program to begin with: definitions come before
\* uses.
LEMMA InitInv == Init => IInv
  <1> SUFFICES ASSUME Init PROVE IInv
    OBVIOUS
  <1> N \in Nat
    BY ProgramAssumption
  <1>1. Program
    <2>1. conflict_index \in [Blocks -> Nat]
      <3>1. conflict_index \in [Blocks -> Conflicts \union {0}]
        BY DEF Init
      <3>2. Conflicts \union {0} \subseteq Nat
        BY ProgramAssumption
      <3> QED BY <3>1, <3>2
    <2> QED BY <2>1 DEF Init, Program
  <1>2. /\ phase = "sort" /\ query_seq = <<>> /\ q_index = 0 /\ processed_blocks = {}
        /\ que = <<>> /\ limit = 0 /\ tempQ = <<>>
    BY DEF Init
  <1>3. Len(query_seq) = 0 /\ Len(que) = 0 /\ <<>> \in Seq(Blocks)
    BY <1>2
  <1>4. Types
    BY <1>2, <1>3 DEF Types
  <1>5. Sorted
    BY <1>3 DEF Sorted
  <1>6. Queued
    BY <1>2, <1>3 DEF Queued
  <1>7. Picked(Len(query_seq)) = {}
    BY <1>3 DEF Picked
  <1>8. Phases
    BY <1>2, <1>7 DEF Phases
  <1> QED BY <1>1, <1>4, <1>5, <1>6, <1>8 DEF IInv

\* The query that is picked has its parents before it.
LEMMA SortStep ==
  ASSUME IInv, NEW q \in Blocks, SortQuery(q)
  PROVE  IInv'
  <1>0. PICK n \in Nat : n = Len(query_seq)
    BY DEF IInv, Types
  <1>1. /\ Program /\ Types /\ Sorted /\ phase = "sort" /\ q_index = 0
        /\ processed_blocks = Picked(n) /\ tempQ = <<>> /\ que = <<>>
    BY <1>0 DEF IInv, Phases, SortQuery
  <1>2. /\ q \in queries /\ q \notin Picked(n) /\ map_parent(q) \subseteq Picked(n)
        /\ \A p \in queries \ Picked(n) : map_parent(p) \subseteq Picked(n) =>
             conflict_index[q] <= conflict_index[p]
    BY <1>1 DEF SortQuery, NextQuery, Ready
  <1>3. /\ UNCHANGED program /\ phase' = phase /\ q_index' = q_index /\ que' = que
        /\ limit' = limit /\ tempQ' = tempQ
        /\ query_seq' = Append(query_seq, q) /\ processed_blocks' = Picked(n) \union {q}
    BY <1>1 DEF SortQuery
  <1>4. /\ n \in Nat /\ query_seq \in Seq(Blocks)
        /\ query_seq' \in Seq(Blocks) /\ Len(query_seq') = n + 1 /\ query_seq'[n + 1] = q
        /\ \A i \in 1..n : query_seq'[i] = query_seq[i]
    BY <1>0, <1>1, <1>3 DEF Types
  <1>5. /\ \A k \in 0..n : Picked(k)' = Picked(k)
        /\ Picked(n + 1)' = Picked(n) \union {q}
    <2>1. ASSUME NEW k \in 0..n PROVE Picked(k)' = Picked(k)
      <3>1. \A i \in 1..k : query_seq'[i] = query_seq[i]
        BY <1>4
      <3> QED BY <3>1 DEF Picked
    <2>2. \A i \in 1..(n + 1) : i \in 1..n \/ i = n + 1
      BY <1>4
    <2>3. \A i \in 1..n : i \in 1..(n + 1)
      BY <1>4
    <2>4. n + 1 \in 1..(n + 1)
      BY <1>4
    <2>5. Picked(n + 1)' = Picked(n) \union {q}
      <3>1. \A x : (\E i \in 1..(n + 1) : query_seq'[i] = x)
                     <=> (\E i \in 1..n : query_seq[i] = x) \/ x = q
        BY <1>4, <2>2, <2>3, <2>4
      <3>2. \A x : x \in Picked(n + 1)' <=> \E i \in 1..(n + 1) : query_seq'[i] = x
        BY DEF Picked
      <3>3. \A x : x \in Picked(n) <=> \E i \in 1..n : query_seq[i] = x
        BY DEF Picked
      <3> QED BY <3>1, <3>2, <3>3
    <2> QED BY <2>1, <2>5
  <1>6. Types'
    <2>1. processed_blocks' \subseteq Blocks
      BY <1>1, <1>3 DEF Types
    <2>2. q_index' \in 0..Len(query_seq')
      BY <1>1, <1>3, <1>4
    <2> QED BY <1>1, <1>3, <1>4, <2>1, <2>2 DEF Types
  <1>7. Sorted'
    <2>0. /\ queries' = queries /\ conflict_index' = conflict_index
          /\ \A p : map_parent(p)' = map_parent(p)
      BY <1>3, ProgramFrame
    <2>1. \A i \in 1..(n + 1) : i \in 1..n \/ i = n + 1
      BY <1>4
    <2>2. ASSUME NEW i \in 1..(n + 1)
          PROVE  /\ query_seq'[i] \in queries /\ map_parent(query_seq'[i]) \subseteq Picked(i - 1)'
                 /\ \A p \in queries : /\ p \notin Picked(i)'
                                       /\ conflict_index[p] < conflict_index[query_seq'[i]]
                                       => ~ (map_parent(p) \subseteq Picked(i - 1)')
      <3>1. CASE i \in 1..n
        <4>1. i - 1 \in 0..n /\ i \in 0..n
          BY <1>4, <3>1
        <4>2. Picked(i)' = Picked(i) /\ Picked(i - 1)' = Picked(i - 1) /\ query_seq'[i] = query_seq[i]
          BY <1>4, <1>5, <3>1, <4>1
        <4> QED BY <1>0, <1>1, <3>1, <4>2 DEF Sorted
      <3>2. CASE i = n + 1
        <4>1. n \in 0..n /\ i - 1 = n
          BY <1>4, <3>2
        <4>2. Picked(i - 1)' = Picked(n) /\ Picked(i)' = Picked(n) \union {q} /\ query_seq'[i] = q
          BY <1>4, <1>5, <3>2, <4>1
        <4>3. ASSUME NEW p \in queries, p \notin Picked(n), conflict_index[p] < conflict_index[q]
              PROVE  ~ (map_parent(p) \subseteq Picked(n))
          <5>1. conflict_index[p] \in Nat /\ conflict_index[q] \in Nat
            BY <1>1 DEF Program
          <5>2. ~ (conflict_index[q] <= conflict_index[p])
            BY <4>3, <5>1
          <5> QED BY <1>2, <4>3, <5>2
        <4> QED BY <1>2, <4>2, <4>3
      <3> QED BY <2>1, <3>1, <3>2
    <2>3. ASSUME NEW i \in 1..(n + 1), NEW j \in 1..(n + 1), query_seq'[i] = query_seq'[j]
          PROVE  i = j
      <3>1. \A m \in 1..n : query_seq[m] # q
        BY <1>2 DEF Picked
      <3>2. CASE i = n + 1 \/ j = n + 1
        BY <1>4, <2>1, <2>3, <3>1, <3>2
      <3>3. CASE i \in 1..n /\ j \in 1..n
        BY <1>1, <1>4, <2>3, <1>0, <3>3 DEF Sorted
      <3> QED BY <2>1, <3>2, <3>3
    <2> QED BY <1>4, <2>0, <2>2, <2>3 DEF Sorted
  <1>8. Queued'
    <2>1. que' = <<>> /\ Len(que') = 0
      BY <1>1, <1>3
    <2> QED BY <2>1 DEF Queued
  <1>9. Phases'
    <2>1. processed_blocks' = Picked(Len(query_seq))'
      BY <1>3, <1>4, <1>5 DEF Picked
    <2> QED BY <1>1, <1>3, <2>1 DEF Phases
  <1>10. Program'
    BY <1>1, <1>3, ProgramFrame
  <1> QED BY <1>6, <1>7, <1>8, <1>9, <1>10 DEF IInv

\* When the sort ends all queries are picked, and none is emitted yet.
LEMMA EndSortStep ==
  ASSUME IInv, EndSort
  PROVE  IInv'
  <1>1. /\ Program /\ Types /\ Sorted /\ q_index = 0
        /\ queries = Picked(Len(query_seq)) /\ tempQ = <<>> /\ que = <<>>
    BY DEF IInv, Phases, EndSort
  <1>2. /\ UNCHANGED <<program, query_seq>> /\ phase' = "emit" /\ q_index' = 0 /\ que' = <<>>
        /\ limit' = limit /\ tempQ' = <<>> /\ processed_blocks' = {}
    BY <1>1 DEF EndSort
  <1>3. Types'
    BY <1>1, <1>2 DEF Types
  <1>4. Queued'
    BY <1>2 DEF Queued
  <1>5. Emitted(<<>>, {}, 0)
    <2>1. <<>> \in Seq(Blocks) /\ Len(<<>>) = 0
      OBVIOUS
    <2> QED BY <2>1 DEF Emitted
  <1>6. Emitted(tempQ, processed_blocks, q_index)'
    BY <1>2, <1>5, EmittedFrame
  <1>7. queries' = Picked(Len(query_seq))'
    BY <1>1, <1>2, ProgramFrame DEF Picked
  <1>8. Phases'
    BY <1>2, <1>6, <1>7 DEF Phases
  <1> QED BY <1>1, <1>2, <1>3, <1>4, <1>8, ProgramFrame, SortedFrame DEF IInv

\* What the next query depends on is there, but for statements that it uses.
LEMMA ParentsThere ==
  ASSUME IInv, Emitting
  PROVE  /\ phase # "sort" /\ q_index \in 0..(Len(query_seq) - 1)
         /\ cur_qblock \in queries /\ cur_qblock \in Blocks
         /\ map_parent(cur_qblock) \subseteq processed_blocks
  <1>1. phase # "sort" /\ q_index \in 0..(Len(query_seq) - 1) /\ q_index + 1 \in 1..Len(query_seq)
    BY DEF IInv, Types, Emitting
  <1>2. cur_qblock \in queries /\ map_parent(cur_qblock) \subseteq Picked(q_index)
    <2>1. q_index + 1 - 1 = q_index
      BY <1>1
    <2> QED BY <1>1, <2>1 DEF IInv, Sorted, cur_qblock
  <1>3. Picked(q_index) \subseteq processed_blocks
    BY <1>1 DEF IInv, Phases, Emitted, Picked
  <1> QED BY <1>1, <1>2, <1>3 DEF IInv, Program

\* Once all queries are emitted only statements are left.
LEMMA QueriesThere ==
  ASSUME IInv, phase = "rest"
  PROVE  queries \subseteq processed_blocks
  BY DEF IInv, Phases, Emitted, Picked

\* What is wanted is a statement, and so is all it still depends on.
LEMMA WantStep ==
  ASSUME IInv, WantBlock
  PROVE  IInv'
  <1> N \in Nat
    BY ProgramAssumption
  <1>1. Program /\ Types /\ Sorted /\ Phases /\ phase \in {"emit", "rest"} /\ Wanted # {}
    BY DEF IInv, WantBlock, Emitting
  <1>2. UNCHANGED <<program, phase, query_seq, q_index, processed_blocks, tempQ>>
    BY DEF WantBlock
  <1>3. limit' \in Wanted /\ que' = <<limit'>>
    <2>1. Wanted \in SUBSET (0..N)
      <3>1. Wanted \subseteq Blocks
        <4>1. Emitting => definers[cur_qblock] \subseteq Blocks
          BY <1>1, ParentsThere DEF Program
        <4> QED BY <4>1 DEF Wanted
      <3> QED BY <3>1 DEF Blocks
    <2>2. \E g \in Wanted : \A n \in Wanted : g <= n
      BY <1>1, <2>1, LeastNumber
    <2>3. Min(Wanted) \in Wanted
      BY <2>2 DEF Min
    <2> QED BY <2>3 DEF WantBlock
  <1>4. /\ limit' \in Blocks /\ limit' \notin queries
        /\ queries \intersect Ancestors[limit'] \subseteq processed_blocks
    <2>1. CASE Emitting
      <3>1. limit' \in definers[cur_qblock] \ queries
        BY <1>3, <2>1 DEF Wanted
      <3>2. cur_qblock \in Blocks /\ map_parent(cur_qblock) \subseteq processed_blocks
        BY <2>1, ParentsThere
      <3>3. limit' \in Blocks
        BY <1>1, <3>1, <3>2 DEF Program
      <3> QED BY <1>1, <3>1, <3>2, <3>3, ParentsLemma
    <2>2. CASE ~ Emitting
      <3>1. phase = "rest"
        BY <2>2 DEF WantBlock
      <3>2. limit' \in Blocks \ processed_blocks
        BY <1>3, <2>2 DEF Wanted
      <3> QED BY <3>1, <3>2, QueriesThere
    <2> QED BY <2>1, <2>2
  <1>5. que' \in Seq(Blocks) /\ Len(que') = 1 /\ que'[1] = limit'
    BY <1>3, <1>4
  <1>6. Types'
    <2>1. limit' \in 0..N
      BY <1>4 DEF Blocks
    <2> QED BY <1>1, <1>2, <1>5, <2>1 DEF Types
  <1>7. Queued'
    <2>1. UNCHANGED program
      BY <1>2
    <2>2. queries' = queries /\ Ancestors' = Ancestors /\ processed_blocks' = processed_blocks
      BY <1>2, <2>1, ProgramFrame
    <2>3. \A i \in 1..Len(que') : que'[i] = limit'
      BY <1>5
    <2> QED BY <1>4, <2>2, <2>3 DEF Queued
  <1>8. Phases'
    <2>1. phase' \in {"emit", "rest"} /\ phase' = phase
      BY <1>1, <1>2
    <2>2. Emitted(tempQ, processed_blocks, q_index)'
      BY <1>1, <1>2, EmittedFrame DEF Phases
    <2>3. queries' = Picked(Len(query_seq))'
      BY <1>1, <1>2, ProgramFrame DEF Picked, Phases
    <2>4. phase' = "rest" => q_index' = Len(query_seq')
      BY <1>1, <1>2 DEF Phases
    <2> QED BY <2>1, <2>2, <2>3, <2>4 DEF Phases
  <1> QED BY <1>1, <1>2, <1>6, <1>7, <1>8, ProgramFrame, SortedFrame DEF IInv

\* What is missing before a queued statement is a statement as well.
LEMMA MissingFacts ==
  ASSUME IInv, que # <<>>
  PROVE  LET cb == Head(que)
         IN /\ cb \in Blocks \ queries
            /\ Missing(cb) = definers[cb] \ processed_blocks
            /\ \A d \in Missing(cb) : d \in Blocks \ queries /\ d \in Ancestors[limit]
  <1> DEFINE cb == Head(que)
  <1> N \in Nat
    BY ProgramAssumption
  <1>1. Program /\ Types /\ Queued /\ limit \in Blocks
    BY DEF IInv, Queued
  <1>2. Len(que) \in Nat /\ Len(que) # 0 /\ 1 \in 1..Len(que) /\ cb = que[1]
    BY <1>1 DEF Types
  <1>3. cb \in Blocks /\ cb \notin queries /\ (cb = limit \/ cb \in Ancestors[limit])
    BY <1>1, <1>2 DEF Types, Queued
  <1> HIDE DEF cb
  <1>4. \A d \in definers[cb] : d \in Blocks /\ d \in Ancestors[limit]
    BY <1>1, <1>3, AncestorsFacts DEF Program
  <1>5. \A d \in Ancestors[limit] : d < limit
    <2>1. Ancestors[limit] \subseteq 1..(limit - 1)
      BY <1>1, AncestorsFacts
    <2> QED BY <1>1, <2>1 DEF Blocks
  <1>6. Missing(cb) = definers[cb] \ processed_blocks
    BY <1>4, <1>5 DEF Missing
  <1>7. queries \intersect Ancestors[limit] \subseteq processed_blocks
    BY <1>1 DEF Queued
  <1> QED BY <1>3, <1>4, <1>6, <1>7 DEF cb

\* A statement at the head of the queue is emitted, or queued behind statements.
LEMMA PopStep ==
  ASSUME IInv, PopBlock
  PROVE  IInv'
  <1> DEFINE cb == Head(que)
             M == Missing(cb)
  <1> N \in Nat
    BY ProgramAssumption
  <1>1. /\ Program /\ Types /\ Sorted /\ Phases /\ Queued /\ que # <<>>
        /\ phase \in {"emit", "rest"} /\ limit \in Blocks
    BY DEF IInv, PopBlock, Phases, Types, Queued
  <1>2. UNCHANGED <<program, phase, query_seq, q_index, limit>>
    BY DEF PopBlock
  <1>3. /\ cb \in Blocks \ queries
        /\ M = definers[cb] \ processed_blocks
        /\ \A d \in M : d \in Blocks \ queries /\ d \in Ancestors[limit]
    BY <1>1, MissingFacts
  <1>4. /\ Len(que) \in Nat /\ Tail(que) \in Seq(Blocks) /\ Len(Tail(que)) = Len(que) - 1
        /\ \A i \in 1..Len(Tail(que)) : i + 1 \in 1..Len(que) /\ Tail(que)[i] = que[i + 1]
        /\ cb = que[1] /\ 1 \in 1..Len(que)
    BY <1>1 DEF Types
  <1> DEFINE Fits(x) == x \notin queries /\ x \in {limit} \union Ancestors[limit]
  <1>5. Fits(cb) /\ \A i \in 1..Len(Tail(que)) : Fits(Tail(que)[i])
    BY <1>1, <1>4 DEF Queued
  <1>6. /\ que' \in Seq(Blocks) /\ \A i \in 1..Len(que') : Fits(que'[i])
        /\ tempQ' \in Seq(Blocks) /\ processed_blocks \subseteq processed_blocks'
        /\ processed_blocks' \subseteq Blocks
        /\ Emitted(tempQ', processed_blocks', q_index)
    <2>1. CASE M = {}
      <3>1. /\ tempQ' = Append(tempQ, cb) /\ processed_blocks' = processed_blocks \union {cb}
            /\ que' = Tail(que)
        BY <2>1 DEF PopBlock
      <3>2. Placed(<<cb>>, processed_blocks)
        <4>1. <<cb>> \in Seq(Blocks \ queries) /\ Len(<<cb>>) = 1 /\ <<cb>>[1] = cb
          BY <1>3
        <4>2. definers[cb] \subseteq processed_blocks
          BY <1>3, <2>1
        <4> HIDE DEF cb, M
        <4>3. \A i \in 1..Len(<<cb>>) : <<cb>>[i] = cb
          BY <4>1
        <4> QED BY <4>1, <4>2, <4>3 DEF Placed
      <3>3. Emitted(tempQ, processed_blocks, q_index) /\ q_index \in 0..Len(query_seq)
        BY <1>1 DEF Phases, Types
      <3>4. Emitted(tempQ \o <<cb>>, processed_blocks \union Range(<<cb>>), q_index)
        BY <1>1, <3>2, <3>3, EmitStatements
      <3>5. Range(<<cb>>) = {cb} /\ tempQ \o <<cb>> = Append(tempQ, cb)
        <4>1. cb \in Blocks /\ tempQ \in Seq(Blocks)
          BY <1>1, <1>3 DEF Types
        <4> HIDE DEF cb, M
        <4>2. <<cb>> \in Seq(Blocks) /\ Len(<<cb>>) = 1 /\ <<cb>>[1] = cb /\ DOMAIN <<cb>> = {1}
          BY <4>1
        <4>3. Range(<<cb>>) = {cb}
          BY <4>2 DEF Range
        <4>4. tempQ \o <<cb>> = Append(tempQ, cb)
          BY <4>1
        <4> QED BY <4>3, <4>4
      <3>6. Append(tempQ, cb) \in Seq(Blocks) /\ processed_blocks \union {cb} \subseteq Blocks
        <4>1. cb \in Blocks /\ tempQ \in Seq(Blocks) /\ processed_blocks \subseteq Blocks
          BY <1>1, <1>3 DEF Types
        <4> HIDE DEF cb, M
        <4> QED BY <4>1
      <3> QED BY <1>4, <1>5, <3>1, <3>4, <3>5, <3>6
    <2>2. CASE M # {}
      <3>1. /\ que' = Tail(que) \o InOrder(M) \o <<cb>>
            /\ tempQ' = tempQ /\ processed_blocks' = processed_blocks
        BY <2>2 DEF PopBlock
      <3>2. M \in SUBSET Blocks
        BY <1>3
      <3> DEFINE o == InOrder(M)
      <3>3. o \in Seq(M)
        <4> HIDE DEF M
        <4> QED BY <3>2, InOrderLemma
      <3>4. Len(o) \in Nat /\ \A i \in 1..Len(o) : o[i] \in M
        <4> HIDE DEF M, o
        <4> QED BY <3>3
      <3>5. o \in Seq(Blocks)
        <4> HIDE DEF M, o
        <4> QED BY <3>2, <3>3
      <3>6. \A i \in 1..Len(o) : Fits(o[i])
        BY <1>3, <3>4
      <3> DEFINE t == Tail(que) \o o
                 u == t \o <<cb>>
      <3> HIDE DEF o
      <3>7. /\ t \in Seq(Blocks) /\ Len(t) = Len(Tail(que)) + Len(o)
            /\ \A i \in 1..Len(Tail(que)) : t[i] = Tail(que)[i]
            /\ \A i \in (Len(Tail(que)) + 1)..(Len(Tail(que)) + Len(o)) : t[i] = o[i - Len(Tail(que))]
        BY <1>4, <3>5, ConcatLemma
      <3>8. \A i \in 1..Len(t) : Fits(t[i])
        <4> TAKE i \in 1..Len(t)
        <4>1. CASE i \in 1..Len(Tail(que))
          BY <1>5, <3>7, <4>1
        <4>2. CASE i \notin 1..Len(Tail(que))
          <5>1. /\ i \in (Len(Tail(que)) + 1)..(Len(Tail(que)) + Len(o))
                /\ i - Len(Tail(que)) \in 1..Len(o)
            BY <1>4, <3>4, <3>7, <4>2
          <5> QED BY <3>6, <3>7, <5>1
        <4> QED BY <4>1, <4>2
      <3> HIDE DEF t
      <3>9. u \in Seq(Blocks) /\ \A i \in 1..Len(u) : (i \in 1..Len(t) /\ u[i] = t[i]) \/ u[i] = cb
        <4>1. cb \in Blocks
          BY <1>3
        <4> HIDE DEF cb, M
        <4> QED BY <3>7, <4>1
      <3>10. \A i \in 1..Len(u) : Fits(u[i])
        BY <1>5, <3>8, <3>9
      <3>11. que' = u
        BY <3>1 DEF t, o
      <3>12. Emitted(tempQ, processed_blocks, q_index)
        BY <1>1 DEF Phases
      <3> HIDE DEF u, Fits
      <3> QED BY <1>1, <3>1, <3>9, <3>10, <3>11, <3>12 DEF Types
    <2> QED BY <2>1, <2>2
  <1>7. Types'
    BY <1>1, <1>2, <1>6 DEF Types
  <1>8. Queued'
    <2>1. queries' = queries /\ Ancestors' = Ancestors /\ limit' = limit
      BY <1>2, ProgramFrame
    <2>2. queries \intersect Ancestors[limit] \subseteq processed_blocks
      BY <1>1 DEF Queued
    <2> QED BY <1>1, <1>6, <2>1, <2>2 DEF Queued
  <1>9. Phases'
    <2>1. phase' \in {"emit", "rest"} /\ phase' = phase /\ q_index' = q_index
      BY <1>1, <1>2
    <2>2. Emitted(tempQ, processed_blocks, q_index)'
      BY <1>2, <1>6, EmittedFrame
    <2>3. queries' = Picked(Len(query_seq))'
      BY <1>1, <1>2, ProgramFrame DEF Picked, Phases
    <2>4. phase' = "rest" => q_index' = Len(query_seq')
      BY <1>1, <1>2 DEF Phases
    <2> QED BY <2>1, <2>2, <2>3, <2>4 DEF Phases
  <1> QED BY <1>1, <1>2, <1>7, <1>8, <1>9, ProgramFrame, SortedFrame DEF IInv

\* The next query and its followers are emitted.
LEMMA EmitStep ==
  ASSUME IInv, EmitQuery
  PROVE  IInv'
  <1> DEFINE q == cur_qblock
             done == processed_blocks \union {q}
             next == Followers(q, done)
  <1>1. Program /\ Types /\ Sorted /\ Phases /\ phase = "emit" /\ Emitting /\ Wanted = {}
    BY DEF IInv, EmitQuery, Emitting
  <1>2. /\ UNCHANGED <<program, phase, query_seq, limit>> /\ que = <<>> /\ que' = que
        /\ q_index' = q_index + 1
        /\ tempQ' = Append(tempQ, q) \o next
        /\ processed_blocks' = done \union Range(next)
    BY DEF EmitQuery
  <1>3. /\ q_index \in 0..(Len(query_seq) - 1) /\ q \in Blocks
        /\ map_parent(q) \subseteq processed_blocks
    BY <1>1, ParentsThere
  <1>4. definers[q] \subseteq processed_blocks
    <2>1. definers[q] \intersect queries \subseteq processed_blocks
      BY <1>1, <1>3, ParentsLemma
    <2>2. definers[q] \ queries \subseteq processed_blocks
      BY <1>1 DEF Wanted
    <2> QED BY <2>1, <2>2
  <1>5. Emitted(Append(tempQ, q), done, q_index + 1)
    <2>1. Emitted(tempQ, processed_blocks, q_index)
      BY <1>1 DEF Phases
    <2> QED BY <1>1, <1>3, <1>4, <2>1, EmitNext DEF cur_qblock
  <1>6. Placed(next, done)
    BY FollowersFacts
  <1>7. Len(query_seq) \in Nat /\ q_index + 1 \in 0..Len(query_seq)
    BY <1>1, <1>3 DEF Types
  <1>8. Emitted(tempQ', processed_blocks', q_index')
    <2> HIDE DEF q, done, next
    <2> QED BY <1>1, <1>2, <1>5, <1>6, <1>7, EmitStatements
  <1>9. Types'
    <2>1. tempQ' \in Seq(Blocks)
      BY <1>8 DEF Emitted
    <2>2. \A b \in processed_blocks' : b \in Blocks
      <3> SUFFICES ASSUME NEW b \in processed_blocks' PROVE b \in Blocks
        OBVIOUS
      <3>1. PICK i \in 1..Len(tempQ') : tempQ'[i] = b
        BY <1>8 DEF Emitted
      <3> QED BY <2>1, <3>1
    <2> HIDE DEF q, done, next
    <2> QED BY <1>1, <1>2, <1>7, <2>1, <2>2 DEF Types
  <1>10. Queued'
    <2>1. que' = <<>> /\ Len(que') = 0
      BY <1>2
    <2> QED BY <2>1 DEF Queued
  <1>11. Phases'
    <2>1. phase' = "emit"
      BY <1>1, <1>2
    <2>2. Emitted(tempQ, processed_blocks, q_index)'
      <3> HIDE DEF q, done, next
      <3> QED BY <1>2, <1>8, EmittedFrame
    <2>3. queries' = Picked(Len(query_seq))'
      BY <1>1, <1>2, ProgramFrame DEF Picked, Phases
    <2> QED BY <2>1, <2>2, <2>3 DEF Phases
  <1> HIDE DEF q, done, next
  <1> QED BY <1>1, <1>2, <1>9, <1>10, <1>11, ProgramFrame, SortedFrame DEF IInv

\* The steps that only go on to the next phase.
LEMMA EndStep ==
  ASSUME IInv, EndEmit \/ EndRest
  PROVE  IInv'
  <1>1. Program /\ Types /\ Sorted /\ Phases /\ Queued /\ phase \in {"emit", "rest"}
    BY DEF IInv, EndEmit, EndRest
  <1>2. UNCHANGED <<program, query_seq, q_index, processed_blocks, que, limit, tempQ>>
    BY DEF EndEmit, EndRest
  <1>3. phase' \in {"rest", "done"}
    BY DEF EndEmit, EndRest
  <1>4. Types'
    BY <1>1, <1>2, <1>3 DEF Types
  <1>5. Queued'
    <2>1. queries' = queries /\ Ancestors' = Ancestors
      BY <1>2, ProgramFrame
    <2> QED BY <1>1, <1>2, <2>1 DEF Queued
  <1>6. Phases'
    <2>1. Emitted(tempQ, processed_blocks, q_index)'
      BY <1>1, <1>2, EmittedFrame DEF Phases
    <2>2. queries' = Picked(Len(query_seq))'
      BY <1>1, <1>2, ProgramFrame DEF Picked, Phases
    <2>3. q_index' = Len(query_seq')
      BY <1>1, <1>2 DEF Phases, EndEmit, EndRest
    <2>4. phase' = "done" => processed_blocks' = Blocks /\ que' = <<>>
      <3> SUFFICES ASSUME phase' = "done" PROVE processed_blocks = Blocks /\ que = <<>>
        BY <1>2
      <3>1. EndRest
        BY DEF EndEmit
      <3>2. Blocks \ processed_blocks = {}
        BY <3>1 DEF EndRest, Wanted, Emitting
      <3> QED BY <1>1, <3>1, <3>2 DEF EndRest, Types
    <2> QED BY <1>3, <2>1, <2>2, <2>3, <2>4 DEF Phases
  <1> QED BY <1>1, <1>2, <1>4, <1>5, <1>6, ProgramFrame, SortedFrame DEF IInv

\* Every step keeps the invariant.
LEMMA NextInv == IInv /\ [Next]_vars => IInv'
  <1> SUFFICES ASSUME IInv, [Next]_vars PROVE IInv'
    OBVIOUS
  <1>1. CASE UNCHANGED vars
    <2>1. UNCHANGED <<program, query_seq>>
      BY <1>1 DEF vars
    <2>2. /\ phase' = phase /\ q_index' = q_index /\ processed_blocks' = processed_blocks
          /\ que' = que /\ limit' = limit /\ tempQ' = tempQ /\ query_seq' = query_seq
      BY <1>1 DEF vars
    <2>3. Types'
      BY <2>2 DEF IInv, Types
    <2>4. Queued'
      BY <2>1, <2>2, ProgramFrame DEF IInv, Queued
    <2>5. Picked(Len(query_seq))' = Picked(Len(query_seq))
      BY <2>2 DEF Picked
    <2>6. Emitted(tempQ, processed_blocks, q_index) => Emitted(tempQ, processed_blocks, q_index)'
      BY <2>1, <2>2, EmittedFrame
    <2>7. Phases'
      BY <2>1, <2>2, <2>5, <2>6, ProgramFrame DEF IInv, Phases
    <2> QED BY <2>1, <2>3, <2>4, <2>7, ProgramFrame, SortedFrame DEF IInv
  <1> QED BY <1>1, SortStep, EndSortStep, WantStep, PopStep, EmitStep, EndStep DEF Next

------------------------------------------------------------------------------
(***************************************************************************)
(* The theorems                                                            *)
(***************************************************************************)

\* The invariant is inductive.
THEOREM Inductive == Spec => []IInv
  BY InitInv, NextInv, PTL DEF Spec

\* In the new program every block comes after all those that define a variable
\* it uses, whichever of the three ways it was emitted in (CBlocks.cpp:876-935).
THEOREM DefinersAlwaysFirst == Spec => []DefinersFirst
  BY InvDefiners, Inductive, PTL

\* A contended query comes before a less contended one only if that one depends
\* on it, or on one as contended between them (CBlocks.cpp:826-860).
THEOREM ContendedAlwaysLast == Spec => []ContendedLast
  BY InvContended, Inductive, PTL

\* No query is in the new program twice, although statements may be
\* (CBlocks.cpp:894-915).
THEOREM NoQueryTwice == Spec => []QueriesOnce
  BY InvOnce, Inductive, PTL

\* The loop that orders the queries always finds one to go on with
\* (CBlocks.cpp:830-860).
THEOREM SortAlwaysGoesOn == Spec => []SortGoesOn
  BY InvGoesOn, Inductive, PTL

\* When QURO is done the new program has all the blocks of the old one, and no
\* others (CBlocks.cpp:870).
THEOREM CompleteAtEnd == Spec => [](phase = "done" => Range(tempQ) = Blocks)
  <1>1. IInv => (phase = "done" => Range(tempQ) = Blocks)
    <2> SUFFICES ASSUME IInv, phase = "done" PROVE Range(tempQ) = Blocks
      OBVIOUS
    <2>1. /\ tempQ \in Seq(Blocks) /\ DOMAIN tempQ = 1..Len(tempQ)
          /\ \A b : b \in Blocks <=> \E i \in 1..Len(tempQ) : tempQ[i] = b
      BY DEF IInv, Types, Phases, Emitted
    <2> QED BY <2>1 DEF Range
  <1> QED BY <1>1, Inductive, PTL
==============================================================================
