------------------------------ MODULE SeqLemmas ------------------------------
(***************************************************************************)
(* What the operators on sequences that the lists of the concurrency       *)
(* control are modelled with return, place by place, and two facts about   *)
(* finite sets.                                                            *)
(***************************************************************************)
EXTENDS Naturals, SequencesExt, FiniteSetTheorems, WellFoundedInduction, TLAPS

\* A concatenation has the places of a, then those of b.
LEMMA ConcatLemma ==
  ASSUME NEW S, NEW a \in Seq(S), NEW b \in Seq(S)
  PROVE  /\ a \o b \in Seq(S)
         /\ Len(a \o b) = Len(a) + Len(b)
         /\ \A k \in 1..Len(a) : (a \o b)[k] = a[k]
         /\ \A k \in (Len(a) + 1)..(Len(a) + Len(b)) : (a \o b)[k] = b[k - Len(a)]
  OBVIOUS

\* InsertAt, which queues a waiter in the middle of a list, keeps every entry and
\* moves those from place i on by one.
LEMMA InsertLemma ==
  ASSUME NEW S, NEW ws \in Seq(S), NEW e \in S, NEW i \in 1..(Len(ws) + 1)
  PROVE  /\ InsertAt(ws, i, e) \in Seq(S)
         /\ Len(InsertAt(ws, i, e)) = Len(ws) + 1
         /\ \A k \in 1..(Len(ws) + 1) :
              InsertAt(ws, i, e)[k] = IF k < i THEN ws[k]
                                      ELSE IF k = i THEN e ELSE ws[k - 1]
  <1> DEFINE a == SubSeq(ws, 1, i - 1)
             b == SubSeq(ws, i, Len(ws))
             c == a \o <<e>>
  <1>1. /\ a \in Seq(S) /\ Len(a) = i - 1
        /\ \A k \in 1..(i - 1) : a[k] = ws[k]
    OBVIOUS
  <1>2. /\ b \in Seq(S) /\ Len(b) = Len(ws) - i + 1
        /\ \A k \in 1..(Len(ws) - i + 1) : b[k] = ws[i + k - 1]
    OBVIOUS
  <1> HIDE DEF a, b
  <1>3. /\ c \in Seq(S) /\ Len(c) = i
        /\ \A k \in 1..i : c[k] = IF k < i THEN ws[k] ELSE e
    BY <1>1
  <1>4. InsertAt(ws, i, e) = c \o b
    BY DEF InsertAt, a, b
  <1> HIDE DEF c
  <1>5. /\ c \o b \in Seq(S) /\ Len(c \o b) = Len(ws) + 1
        /\ \A k \in 1..i : (c \o b)[k] = c[k]
        /\ \A k \in (i + 1)..(Len(ws) + 1) : (c \o b)[k] = b[k - i]
    <2>1. /\ c \o b \in Seq(S) /\ Len(c \o b) = Len(c) + Len(b)
          /\ \A k \in 1..Len(c) : (c \o b)[k] = c[k]
          /\ \A k \in (Len(c) + 1)..(Len(c) + Len(b)) :
               (c \o b)[k] = b[k - Len(c)]
      BY <1>2, <1>3, ConcatLemma
    <2>2. Len(c) + Len(b) = Len(ws) + 1 /\ Len(c) = i
      BY <1>2, <1>3
    <2> QED BY <2>1, <2>2
  <1>6. ASSUME NEW k \in 1..(Len(ws) + 1)
        PROVE  (c \o b)[k] = IF k < i THEN ws[k]
                             ELSE IF k = i THEN e ELSE ws[k - 1]
    <2>1. CASE k <= i
      BY <2>1, <1>3, <1>5
    <2>2. CASE ~ (k <= i)
      <3>1. k - i \in 1..(Len(ws) - i + 1) /\ i + (k - i) - 1 = k - 1
        BY <2>2
      <3>2. b[k - i] = ws[k - 1]
        BY <3>1, <1>2
      <3>3. k \in (i + 1)..(Len(ws) + 1) /\ k # i /\ ~ (k < i)
        BY <2>2
      <3> QED BY <3>3, <3>2, <1>5
    <2> QED BY <2>1, <2>2
  <1> QED BY <1>4, <1>5, <1>6

\* RemoveAt, which withdraws a waiter, keeps every other entry and moves those
\* after place i up by one.
LEMMA RemoveLemma ==
  ASSUME NEW S, NEW ws \in Seq(S), NEW i \in 1..Len(ws)
  PROVE  /\ RemoveAt(ws, i) \in Seq(S)
         /\ Len(RemoveAt(ws, i)) = Len(ws) - 1
         /\ \A k \in 1..(Len(ws) - 1) :
              RemoveAt(ws, i)[k] = IF k < i THEN ws[k] ELSE ws[k + 1]
  <1> DEFINE a == SubSeq(ws, 1, i - 1)
             b == SubSeq(ws, i + 1, Len(ws))
  <1>1. /\ a \in Seq(S) /\ Len(a) = i - 1
        /\ \A k \in 1..(i - 1) : a[k] = ws[k]
    OBVIOUS
  <1>2. /\ b \in Seq(S) /\ Len(b) = Len(ws) - i
        /\ \A k \in 1..(Len(ws) - i) : b[k] = ws[i + k]
    OBVIOUS
  <1>4. RemoveAt(ws, i) = a \o b
    BY DEF RemoveAt
  <1> HIDE DEF a, b
  <1>5. /\ a \o b \in Seq(S) /\ Len(a \o b) = Len(ws) - 1
        /\ \A k \in 1..(i - 1) : (a \o b)[k] = a[k]
        /\ \A k \in i..(Len(ws) - 1) : (a \o b)[k] = b[k - (i - 1)]
    <2>1. /\ a \o b \in Seq(S) /\ Len(a \o b) = Len(a) + Len(b)
          /\ \A k \in 1..Len(a) : (a \o b)[k] = a[k]
          /\ \A k \in (Len(a) + 1)..(Len(a) + Len(b)) :
               (a \o b)[k] = b[k - Len(a)]
      <3>1. a \in Seq(S) /\ b \in Seq(S)
        BY <1>1, <1>2
      <3> QED BY <3>1, ConcatLemma
    <2>2. /\ Len(a) + Len(b) = Len(ws) - 1 /\ Len(a) + 1 = i
          /\ Len(a) = i - 1
      BY <1>1, <1>2
    <2>3. \A k \in i..(Len(ws) - 1) : k \in (Len(a) + 1)..(Len(a) + Len(b))
      BY <2>2
    <2> QED BY <2>1, <2>2, <2>3
  <1>6. ASSUME NEW k \in 1..(Len(ws) - 1)
        PROVE  (a \o b)[k] = IF k < i THEN ws[k] ELSE ws[k + 1]
    <2>1. CASE k < i
      BY <2>1, <1>1, <1>5
    <2>2. CASE ~ (k < i)
      <3>1. /\ k - (i - 1) \in 1..(Len(ws) - i)
            /\ i + (k - (i - 1)) = k + 1
        BY <2>2
      <3>2. b[k - (i - 1)] = ws[k + 1]
        BY <3>1, <1>2
      <3> QED BY <2>2, <3>2, <1>5
    <2> QED BY <2>1, <2>2
  <1> QED BY <1>4, <1>5, <1>6

\* What is left of a list once its first k entries are popped.
LEMMA SuffixLemma ==
  ASSUME NEW S, NEW ws \in Seq(S), NEW k \in 0..Len(ws)
  PROVE  /\ SubSeq(ws, k + 1, Len(ws)) \in Seq(S)
         /\ Len(SubSeq(ws, k + 1, Len(ws))) = Len(ws) - k
         /\ \A i \in 1..(Len(ws) - k) :
              SubSeq(ws, k + 1, Len(ws))[i] = ws[k + i]
  OBVIOUS

\* The first k entries of a list.
LEMMA PrefixLemma ==
  ASSUME NEW S, NEW ws \in Seq(S), NEW k \in 0..Len(ws)
  PROVE  /\ SubSeq(ws, 1, k) \in Seq(S)
         /\ Len(SubSeq(ws, 1, k)) = k
         /\ \A i \in 1..k : SubSeq(ws, 1, k)[i] = ws[i]
  OBVIOUS

\* What is left of a list once its last entry, Last(s), is removed.
LEMMA FrontLemma ==
  ASSUME NEW S, NEW s \in Seq(S), s # <<>>
  PROVE  /\ Front(s) \in Seq(S)
         /\ Len(Front(s)) = Len(s) - 1
         /\ \A i \in 1..(Len(s) - 1) : Front(s)[i] = s[i]
         /\ Last(s) \in S /\ Last(s) = s[Len(s)] /\ Len(s) \in 1..Len(s)
  <1>1. Len(s) \in Nat \ {0}
    OBVIOUS
  <1>2. Len(s) - 1 \in 0..Len(s)
    BY <1>1
  <1>3. Last(s) = s[Len(s)] /\ Len(s) \in 1..Len(s) /\ s[Len(s)] \in S
    BY <1>1 DEF Last
  <1> QED BY <1>2, <1>3, PrefixLemma DEF Front

------------------------------------------------------------------------------
(***************************************************************************)
(* Finite sets                                                             *)
(***************************************************************************)

\* In a finite set some element has the greatest value of f.
LEMMA GreatestLemma ==
  ASSUME NEW S, IsFiniteSet(S), S # {}, NEW f \in [S -> Nat]
  PROVE  \E t \in S : \A u \in S : ~ (f[t] < f[u])
  <1> DEFINE Bad == {U \in SUBSET S : U # {} /\ \A t \in U : \E u \in U : f[t] < f[u]}
  <1> SUFFICES ASSUME S \in Bad PROVE FALSE
    OBVIOUS
  <1>1. IsWellFoundedOn(StrictSubsetOrdering(S), SUBSET S)
    BY FS_StrictSubsetOrderingWellFounded, FS_FiniteSubsetsOfFinite
  <1>2. PICK U \in Bad : \A V \in Bad : ~ (<<V, U>> \in StrictSubsetOrdering(S))
    <2>1. Bad \subseteq SUBSET S /\ Bad # {}
      OBVIOUS
    <2> HIDE DEF Bad
    <2> QED BY <1>1, <2>1, WFMin
  <1>3. PICK t \in U : TRUE
    OBVIOUS
  <1> DEFINE V == {u \in U : f[t] < f[u]}
  <1>4. U \subseteq S /\ t \in S /\ f[t] \in Nat /\ V \subseteq U /\ t \notin V
    OBVIOUS
  <1>5. V \in Bad
    <2>1. V # {}
      OBVIOUS
    <2>2. ASSUME NEW v \in V PROVE \E u \in V : f[v] < f[u]
      <3>1. PICK u \in U : f[v] < f[u]
        OBVIOUS
      <3>2. f[u] \in Nat /\ f[v] \in Nat /\ f[t] < f[v]
        BY <1>4
      <3> QED BY <1>4, <3>1, <3>2
    <2> QED BY <1>4, <2>1, <2>2
  <1>6. <<V, U>> \in StrictSubsetOrdering(S)
    BY <1>3, <1>4 DEF StrictSubsetOrdering
  <1> QED BY <1>2, <1>5, <1>6

\* Numbers up to some k have a greatest and a least one.
LEMMA GreatestNumber ==
  ASSUME NEW k \in Nat, NEW S \in SUBSET (0..k), S # {}
  PROVE  \E g \in S : \A n \in S : n <= g
  <1> DEFINE f == [n \in S |-> n]
  <1>1. IsFiniteSet(S)
    <2>1. 0 \in Int /\ k \in Int
      OBVIOUS
    <2> QED BY <2>1, FS_Interval, FS_Subset
  <1>2. f \in [S -> Nat] /\ \A n \in S : f[n] = n /\ n \in Nat
    OBVIOUS
  <1> HIDE DEF f
  <1>3. PICK g \in S : \A n \in S : ~ (f[g] < f[n])
    BY <1>1, <1>2, GreatestLemma
  <1> QED BY <1>2, <1>3

LEMMA LeastNumber ==
  ASSUME NEW k \in Nat, NEW S \in SUBSET (0..k), S # {}
  PROVE  \E g \in S : \A n \in S : g <= n
  <1> DEFINE f == [n \in S |-> k - n]
  <1>1. IsFiniteSet(S)
    <2>1. 0 \in Int /\ k \in Int
      OBVIOUS
    <2> QED BY <2>1, FS_Interval, FS_Subset
  <1>2. f \in [S -> Nat] /\ \A n \in S : f[n] = k - n /\ n \in Nat
    OBVIOUS
  <1> HIDE DEF f
  <1>3. PICK g \in S : \A n \in S : ~ (f[g] < f[n])
    BY <1>1, <1>2, GreatestLemma
  <1> QED BY <1>2, <1>3

\* A set of places that has every place before each of its own is a prefix.
LEMMA PrefixSet ==
  ASSUME NEW n \in Nat, NEW D \in SUBSET (1..n),
         \A k \in D : \A j \in 1..k : j \in D
  PROVE  Cardinality(D) \in 0..n /\ D = 1..Cardinality(D)
  <1>1. PICK m \in 0..n : D = 1..m
    <2>1. CASE D = {}
      BY <2>1
    <2>2. CASE D # {}
      <3> DEFINE f == [k \in D |-> k]
      <3>1. IsFiniteSet(D)
        <4>1. 1 \in Int /\ n \in Int
          OBVIOUS
        <4>2. IsFiniteSet(1..n)
          BY <4>1, FS_Interval
        <4> QED BY <4>2, FS_Subset
      <3>2. PICK m \in D : \A k \in D : ~ (f[m] < f[k])
        <4>1. f \in [D -> Nat]
          OBVIOUS
        <4> HIDE DEF f
        <4> QED BY <2>2, <3>1, <4>1, GreatestLemma
      <3>3. m \in 1..n /\ \A k \in D : k \in 1..n /\ ~ (m < k)
        BY <3>2
      <3>4. \A j \in 1..m : j \in D
        OBVIOUS
      <3>5. \A k \in D : k \in 1..m
        BY <3>3
      <3> HIDE DEF f
      <3>6. D = 1..m
        BY <3>4, <3>5
      <3> QED BY <3>3, <3>6
    <2> QED BY <2>1, <2>2
  <1>2. Cardinality(D) = m
    <2>1. 1 \in Int /\ m \in Int /\ (1 > m => m = 0) /\ m - 1 + 1 = m
      OBVIOUS
    <2> QED BY <1>1, <2>1, FS_Interval
  <1> QED BY <1>1, <1>2

==============================================================================
