---------------------------- MODULE DLDetectProofs ----------------------------
(***************************************************************************)
(* Proofs about DLDetect for every set of threads and every bound on the   *)
(* waits and the searches: the first alarm of the detector is right.       *)
(*                                                                         *)
(* The argument: a node keeps the transactions of waits that are over, but *)
(* as long as nobody has given up, these have all begun to give their rows *)
(* back, in an order in which none comes before one it has waited for.     *)
(* So a search that enters a transaction that is gone sees only such ones  *)
(* from there on and never closes a loop, and one that closes a loop has   *)
(* followed waits that still last.                                         *)
(***************************************************************************)
EXTENDS DLDetect, SeqLemmas, FiniteSetTheorems, TLAPS

------------------------------------------------------------------------------
(***************************************************************************)
(* The inductive invariant                                                 *)
(***************************************************************************)

Node  == [txnid : BOOLEAN, adj : SUBSET Threads]
Calls == [thd : Threads, todo : SUBSET Threads]
At    == {"test", "add", "look", "check", "abort"}
Search == [at : At, visited : SUBSET Threads, stack : Seq(Calls),
           victim : [thd : Threads, live : BOOLEAN]]

TypeInv ==
  /\ pc \in [Threads -> PC]
  /\ waits_for \in [Threads -> SUBSET Threads]
  /\ dependency \in [Threads -> Node]
  /\ txnids \in [Threads -> SUBSET Threads]
  /\ search \in [Threads -> Search]
  /\ gave_up \in BOOLEAN
  /\ \A t \in Threads : search[t].at = "look" => search[t].stack # <<>>

\* The threads that give their rows back: whom they have waited for does so too,
\* or has ended.
Gone == {t \in Threads : pc[t] = "cleanup"}

\* Of the threads G that are gone, the set S has all that its members have
\* waited for, by the nodes dep.
Closed(S, G, dep) == S \subseteq G /\ \A u \in S : dep[u].adj \subseteq S

\* Who is gone has not waited, directly or not, for itself.
Unlooped(G, dep) ==
  \A u \in G : \E S \in SUBSET Threads :
    Closed(S, G, dep) /\ dep[u].adj \subseteq S /\ u \notin S

\* All that the calls of nextNode from place i on have left to look at is gone,
\* and the search will not come back to the thread of call i.
Settled(st, i, G, dep) ==
  \E S \in SUBSET Threads :
    /\ Closed(S, G, dep) /\ st[i].thd \notin S
    /\ \A j \in i..Len(st) : st[j].todo \subseteq S

\* With the waits wf, the calls st follow waits that last, up to a place from
\* where everything is settled.
StackInv(st, wf, G, dep) ==
  \A i \in 1..Len(st) :
    /\ st[i].todo \subseteq wf[st[i].thd] \union G
    /\ i < Len(st) => st[i + 1].thd \in wf[st[i].thd] \/ Settled(st, i + 1, G, dep)
    /\ st[i].thd \in G => Settled(st, i, G, dep)

\* The nodes keep only waits that last and such for threads that are gone.
WaitsInv ==
  \A t \in Threads :
    /\ pc[t] \in {"run", "cleanup"} => waits_for[t] = {}
    /\ txnids[t] \union dependency[t].adj \subseteq waits_for[t] \union Gone

\* With the waits wf, t waits for itself (OnLoop).
LoopIn(wf, t) ==
  \A S \in SUBSET Threads :
    wf[t] \subseteq S /\ (\A u \in S : wf[u] \subseteq S) => t \in S

SearchInv(t) ==
  /\ StackInv(search[t].stack, waits_for, Gone, dependency)
  /\ search[t].at \in {"check", "abort"} => LoopIn(waits_for, search[t].victim.thd)

Inv ==
  /\ WaitsInv
  /\ Unlooped(Gone, dependency)
  /\ \A t \in Threads : SearchInv(t)

IInv ==
  /\ TypeInv
  /\ ~ gave_up => Inv

------------------------------------------------------------------------------
(***************************************************************************)
(* Stacks of calls, for any waits wf, threads G and nodes dep              *)
(***************************************************************************)

LEMMA StackFacts ==
  ASSUME NEW s \in Seq(Calls)
  PROVE  /\ Len(s) \in Nat
         /\ \A i \in 1..Len(s) : s[i].thd \in Threads /\ s[i].todo \in SUBSET Threads
  <1>1. \A i \in 1..Len(s) : s[i] \in Calls
    OBVIOUS
  <1> QED BY <1>1 DEF Calls

\* A stack that has less left to look at.
LEMMA ShrinkStack ==
  ASSUME NEW wf, NEW G, NEW dep, NEW s \in Seq(Calls), NEW v \in Seq(Calls),
         Len(v) <= Len(s),
         \A i \in 1..Len(v) : v[i].thd = s[i].thd /\ v[i].todo \subseteq s[i].todo,
         StackInv(s, wf, G, dep)
  PROVE  StackInv(v, wf, G, dep)
  <1>0. Len(s) \in Nat /\ Len(v) \in Nat
    OBVIOUS
  <1>1. ASSUME NEW i \in 1..Len(v), Settled(s, i, G, dep)
        PROVE  Settled(v, i, G, dep)
    <2>1. PICK S \in SUBSET Threads :
            /\ Closed(S, G, dep) /\ s[i].thd \notin S
            /\ \A j \in i..Len(s) : s[j].todo \subseteq S
      BY <1>1 DEF Settled
    <2>2. \A j \in i..Len(v) : v[j].todo \subseteq S
      BY <1>0, <2>1
    <2>3. v[i].thd \notin S
      BY <2>1
    <2> QED BY <2>1, <2>2, <2>3 DEF Settled
  <1>2. ASSUME NEW i \in 1..Len(v)
        PROVE  /\ v[i].todo \subseteq wf[v[i].thd] \union G
               /\ i < Len(v) => \/ v[i + 1].thd \in wf[v[i].thd]
                                \/ Settled(v, i + 1, G, dep)
               /\ v[i].thd \in G => Settled(v, i, G, dep)
    <2>1. i \in 1..Len(s)
      BY <1>0
    <2>2. /\ s[i].todo \subseteq wf[s[i].thd] \union G
          /\ i < Len(s) => s[i + 1].thd \in wf[s[i].thd] \/ Settled(s, i + 1, G, dep)
          /\ s[i].thd \in G => Settled(s, i, G, dep)
      BY <2>1 DEF StackInv
    <2>3. i < Len(v) => i < Len(s) /\ i + 1 \in 1..Len(v)
      BY <1>0
    <2> QED BY <1>1, <2>2, <2>3
  <1> QED BY <1>2 DEF StackInv

\* Threads begin to wait, and enter it in their nodes.
LEMMA MoreWaits ==
  ASSUME NEW wf, NEW wf2, NEW G, NEW dep, NEW dep2,
         \A t \in Threads : wf[t] \subseteq wf2[t],
         \A t \in G : dep2[t].adj = dep[t].adj
  PROVE  /\ \A S : Closed(S, G, dep) => Closed(S, G, dep2)
         /\ Unlooped(G, dep) => Unlooped(G, dep2)
         /\ \A t \in Threads : LoopIn(wf, t) => LoopIn(wf2, t)
         /\ \A s \in Seq(Calls) : StackInv(s, wf, G, dep) => StackInv(s, wf2, G, dep2)
  <1>1. \A S : Closed(S, G, dep) => Closed(S, G, dep2)
    BY DEF Closed
  <1>2. Unlooped(G, dep) => Unlooped(G, dep2)
    BY <1>1 DEF Unlooped
  <1>3. \A t \in Threads : LoopIn(wf, t) => LoopIn(wf2, t)
    BY DEF LoopIn
  <1>4. ASSUME NEW s \in Seq(Calls), StackInv(s, wf, G, dep)
        PROVE  StackInv(s, wf2, G, dep2)
    <2>1. \A i \in 1..Len(s) : Settled(s, i, G, dep) => Settled(s, i, G, dep2)
      BY <1>1 DEF Settled
    <2>2. \A i \in 1..Len(s) : wf[s[i].thd] \subseteq wf2[s[i].thd]
      BY StackFacts
    <2>3. \A i \in 1..Len(s) : i < Len(s) => i + 1 \in 1..Len(s)
      BY StackFacts
    <2> QED BY <1>4, <2>1, <2>2, <2>3 DEF StackInv
  <1> QED BY <1>1, <1>2, <1>3, <1>4

\* Thread v, which waits for nobody, begins to give its rows back.
LEMMA FinishStack ==
  ASSUME NEW wf, NEW G \in SUBSET Threads, NEW dep,
         NEW v \in Threads, v \notin G, wf[v] = {},
         Closed(G, G, dep), dep[v].adj \subseteq G
  PROVE  /\ Unlooped(G, dep) => Unlooped(G \union {v}, dep)
         /\ \A s \in Seq(Calls) : StackInv(s, wf, G, dep) => StackInv(s, wf, G \union {v}, dep)
  <1> DEFINE G2 == G \union {v}
  <1>1. \A S : Closed(S, G, dep) => Closed(S, G2, dep)
    BY DEF Closed
  <1>2. Unlooped(G, dep) => Unlooped(G2, dep)
    <2> SUFFICES ASSUME Unlooped(G, dep), NEW u \in G2
                 PROVE  \E S \in SUBSET Threads :
                          Closed(S, G2, dep) /\ dep[u].adj \subseteq S /\ u \notin S
      BY DEF Unlooped
    <2>1. CASE u = v
      BY <1>1, <2>1
    <2>2. CASE u \in G
      BY <1>1, <2>2 DEF Unlooped
    <2> QED BY <2>1, <2>2
  <1>3. ASSUME NEW s \in Seq(Calls), StackInv(s, wf, G, dep)
        PROVE  StackInv(s, wf, G2, dep)
    <2>1. \A i \in 1..Len(s) : Settled(s, i, G, dep) => Settled(s, i, G2, dep)
      BY <1>1 DEF Settled
    <2>2. ASSUME NEW i \in 1..Len(s), s[i].thd = v
          PROVE  Settled(s, i, G2, dep)
      <3>1. s[i].todo \subseteq G
        BY <1>3, <2>2 DEF StackInv
      <3>2. i < Len(s) => Settled(s, i + 1, G, dep)
        BY <1>3, <2>2 DEF StackInv
      <3>3. ASSUME NEW j \in i..Len(s) PROVE s[j].todo \subseteq G
        <4>1. CASE j = i
          BY <3>1, <4>1
        <4>2. CASE j # i
          <5>1. i < Len(s) /\ j \in (i + 1)..Len(s)
            BY <4>2, StackFacts
          <5> QED BY <3>2, <5>1 DEF Settled, Closed
        <4> QED BY <4>1, <4>2
      <3> QED BY <1>1, <2>2, <3>3 DEF Settled
    <2>3. ASSUME NEW i \in 1..Len(s)
          PROVE  /\ s[i].todo \subseteq wf[s[i].thd] \union G2
                 /\ i < Len(s) => \/ s[i + 1].thd \in wf[s[i].thd]
                                  \/ Settled(s, i + 1, G2, dep)
                 /\ s[i].thd \in G2 => Settled(s, i, G2, dep)
      <3>1. /\ s[i].todo \subseteq wf[s[i].thd] \union G
            /\ i < Len(s) => s[i + 1].thd \in wf[s[i].thd] \/ Settled(s, i + 1, G, dep)
            /\ s[i].thd \in G => Settled(s, i, G, dep)
        BY <1>3 DEF StackInv
      <3>2. i < Len(s) => i + 1 \in 1..Len(s)
        BY StackFacts
      <3> QED BY <2>1, <2>2, <3>1, <3>2
    <2> QED BY <2>3 DEF StackInv
  <1> QED BY <1>2, <1>3

\* Thread v, which is gone, gives a row back: some wait no longer for it.
LEMMA ReturnStack ==
  ASSUME NEW wf, NEW wf2, NEW G, NEW dep,
         NEW v \in Threads, v \in G, wf[v] = {},
         \A t \in Threads : wf[t] \ {v} \subseteq wf2[t] /\ wf2[t] \subseteq wf[t]
  PROVE  /\ \A t \in Threads : LoopIn(wf, t) => LoopIn(wf2, t)
         /\ \A s \in Seq(Calls) : StackInv(s, wf, G, dep) => StackInv(s, wf2, G, dep)
  <1>1. ASSUME NEW t \in Threads, LoopIn(wf, t)
        PROVE  LoopIn(wf2, t)
    <2> SUFFICES ASSUME NEW S \in SUBSET Threads, wf2[t] \subseteq S,
                        \A u \in S : wf2[u] \subseteq S
                 PROVE  t \in S
      BY DEF LoopIn
    <2>1. t # v
      <3>1. t = v => wf[t] \subseteq {} /\ t \notin {}
        OBVIOUS
      <3> QED BY <1>1, <3>1 DEF LoopIn
    <2>2. S \union {v} \in SUBSET Threads /\ wf[t] \subseteq S \union {v}
      OBVIOUS
    <2>3. \A u \in S \union {v} : wf[u] \subseteq S \union {v}
      OBVIOUS
    <2> QED BY <1>1, <2>1, <2>2, <2>3 DEF LoopIn
  <1>2. ASSUME NEW s \in Seq(Calls), StackInv(s, wf, G, dep)
        PROVE  StackInv(s, wf2, G, dep)
    <2> SUFFICES ASSUME NEW i \in 1..Len(s)
                 PROVE  /\ s[i].todo \subseteq wf2[s[i].thd] \union G
                        /\ i < Len(s) => \/ s[i + 1].thd \in wf2[s[i].thd]
                                         \/ Settled(s, i + 1, G, dep)
                        /\ s[i].thd \in G => Settled(s, i, G, dep)
      BY DEF StackInv
    <2>1. /\ s[i].todo \subseteq wf[s[i].thd] \union G
          /\ i < Len(s) => s[i + 1].thd \in wf[s[i].thd] \/ Settled(s, i + 1, G, dep)
          /\ s[i].thd \in G => Settled(s, i, G, dep)
      BY <1>2 DEF StackInv
    <2>2. s[i].thd \in Threads /\ (i < Len(s) => i + 1 \in 1..Len(s))
      BY StackFacts
    <2>3. i < Len(s) /\ s[i + 1].thd = v => Settled(s, i + 1, G, dep)
      BY <1>2, <2>2 DEF StackInv
    <2> QED BY <2>1, <2>2, <2>3
  <1> QED BY <1>1, <1>2

\* The transaction of v, which is gone, ends: its number becomes stale.
LEMMA EndStack ==
  ASSUME NEW wf, NEW G \in SUBSET Threads, NEW G2, NEW dep, NEW dep2,
         NEW v \in Threads, G2 = G \ {v},
         \A t \in Threads : dep2[t].adj \subseteq dep[t].adj \ {v}
  PROVE  /\ Unlooped(G, dep) => Unlooped(G2, dep2)
         /\ \A s, s2 \in Seq(Calls) :
              /\ StackInv(s, wf, G, dep)
              /\ Len(s2) = Len(s)
              /\ \A i \in 1..Len(s) : s2[i].thd = s[i].thd /\ s2[i].todo = s[i].todo \ {v}
              => StackInv(s2, wf, G2, dep2)
  <1>1. \A S \in SUBSET Threads : Closed(S, G, dep) => Closed(S \ {v}, G2, dep2)
    BY DEF Closed
  <1>2. Unlooped(G, dep) => Unlooped(G2, dep2)
    <2> SUFFICES ASSUME Unlooped(G, dep), NEW u \in G2
                 PROVE  \E S \in SUBSET Threads :
                          Closed(S, G2, dep2) /\ dep2[u].adj \subseteq S /\ u \notin S
      BY DEF Unlooped
    <2>1. PICK S \in SUBSET Threads : Closed(S, G, dep) /\ dep[u].adj \subseteq S /\ u \notin S
      BY DEF Unlooped
    <2>2. S \ {v} \in SUBSET Threads /\ dep2[u].adj \subseteq S \ {v} /\ u \notin S \ {v}
      BY <2>1
    <2> QED BY <1>1, <2>1, <2>2
  <1>3. ASSUME NEW s \in Seq(Calls), NEW s2 \in Seq(Calls),
               StackInv(s, wf, G, dep), Len(s2) = Len(s),
               \A i \in 1..Len(s) : s2[i].thd = s[i].thd /\ s2[i].todo = s[i].todo \ {v}
        PROVE  StackInv(s2, wf, G2, dep2)
    <2>1. ASSUME NEW i \in 1..Len(s), Settled(s, i, G, dep)
          PROVE  Settled(s2, i, G2, dep2)
      <3>1. PICK S \in SUBSET Threads :
              /\ Closed(S, G, dep) /\ s[i].thd \notin S
              /\ \A j \in i..Len(s) : s[j].todo \subseteq S
        BY <2>1 DEF Settled
      <3>2. \A j \in i..Len(s2) : s2[j].todo \subseteq S \ {v}
        <4> TAKE j \in i..Len(s2)
        <4>1. j \in 1..Len(s) /\ j \in i..Len(s)
          BY <1>3, StackFacts
        <4> QED BY <1>3, <3>1, <4>1
      <3>3. s2[i].thd \notin S \ {v}
        BY <1>3, <3>1
      <3>4. Closed(S \ {v}, G2, dep2) /\ S \ {v} \in SUBSET Threads
        BY <1>1, <3>1
      <3> QED BY <3>2, <3>3, <3>4 DEF Settled
    <2>2. ASSUME NEW i \in 1..Len(s)
          PROVE  /\ s2[i].todo \subseteq wf[s2[i].thd] \union G2
                 /\ i < Len(s) => \/ s2[i + 1].thd \in wf[s2[i].thd]
                                  \/ Settled(s2, i + 1, G2, dep2)
                 /\ s2[i].thd \in G2 => Settled(s2, i, G2, dep2)
      <3>1. /\ s[i].todo \subseteq wf[s[i].thd] \union G
            /\ i < Len(s) => s[i + 1].thd \in wf[s[i].thd] \/ Settled(s, i + 1, G, dep)
            /\ s[i].thd \in G => Settled(s, i, G, dep)
        BY <1>3 DEF StackInv
      <3>2. i < Len(s) => i + 1 \in 1..Len(s)
        BY StackFacts
      <3> QED BY <1>3, <2>1, <3>1, <3>2
    <2> QED BY <1>3, <2>2 DEF StackInv
  <1> QED BY <1>2, <1>3

\* The search goes on with thread u, which the innermost call had left to look
\* at, and v is the stack with the new call.
LEMMA PushStack ==
  ASSUME NEW wf, NEW G \in SUBSET Threads, NEW dep,
         NEW s \in Seq(Calls), NEW v \in Seq(Calls), Len(s) # 0,
         NEW u \in s[Len(s)].todo, u \in Threads,
         Len(v) = Len(s) + 1,
         \A i \in 1..Len(s) : v[i].thd = s[i].thd /\ v[i].todo \subseteq s[i].todo,
         v[Len(s) + 1].thd = u, v[Len(s) + 1].todo = dep[u].adj,
         StackInv(s, wf, G, dep), Unlooped(G, dep),
         dep[u].adj \subseteq wf[u] \union G
  PROVE  StackInv(v, wf, G, dep)
  <1> DEFINE n == Len(s)
  <1>0. n \in Nat /\ n \in 1..n /\ \A i \in 1..(n + 1) : i \in 1..n \/ i = n + 1
    BY StackFacts
  <1> HIDE DEF n
  <1>1. ASSUME NEW i \in 1..n, Settled(s, i, G, dep)
        PROVE  Settled(v, i, G, dep)
    <2>1. PICK S \in SUBSET Threads :
            /\ Closed(S, G, dep) /\ s[i].thd \notin S
            /\ \A j \in i..n : s[j].todo \subseteq S
      BY <1>1 DEF Settled, n
    <2>2. n \in i..n /\ u \in S
      BY <1>0, <2>1 DEF n
    <2>3. dep[u].adj \subseteq S
      BY <2>1, <2>2 DEF Closed
    <2>4. ASSUME NEW j \in i..(n + 1) PROVE v[j].todo \subseteq S
      <3>1. CASE j = n + 1
        BY <2>3, <3>1 DEF n
      <3>2. CASE j # n + 1
        <4>1. j \in i..n /\ j \in 1..n
          BY <1>0, <3>2
        <4> QED BY <2>1, <4>1 DEF n
      <3> QED BY <3>1, <3>2
    <2>5. v[i].thd \notin S
      BY <2>1 DEF n
    <2> QED BY <2>1, <2>4, <2>5 DEF Settled, n
  <1>2. u \in G => Settled(v, n + 1, G, dep)
    <2> SUFFICES ASSUME u \in G PROVE Settled(v, n + 1, G, dep)
      OBVIOUS
    <2>1. PICK S \in SUBSET Threads : Closed(S, G, dep) /\ dep[u].adj \subseteq S /\ u \notin S
      BY DEF Unlooped
    <2>2. \A j \in (n + 1)..(n + 1) : v[j].todo \subseteq S
      BY <1>0, <2>1 DEF n
    <2> QED BY <2>1, <2>2 DEF Settled, n
  <1>3. ASSUME NEW i \in 1..n
        PROVE  /\ v[i].todo \subseteq wf[v[i].thd] \union G
               /\ v[i + 1].thd \in wf[v[i].thd] \/ Settled(v, i + 1, G, dep)
               /\ v[i].thd \in G => Settled(v, i, G, dep)
    <2>1. /\ s[i].todo \subseteq wf[s[i].thd] \union G
          /\ i < n => s[i + 1].thd \in wf[s[i].thd] \/ Settled(s, i + 1, G, dep)
          /\ s[i].thd \in G => Settled(s, i, G, dep)
      BY DEF StackInv, n
    <2>2. v[i].thd = s[i].thd /\ v[i].todo \subseteq s[i].todo
      BY DEF n
    <2>3. CASE i < n
      <3>1. i + 1 \in 1..n
        BY <1>0, <2>3
      <3>2. v[i + 1].thd = s[i + 1].thd
        BY <3>1 DEF n
      <3> QED BY <1>1, <2>1, <2>2, <2>3, <3>1, <3>2
    <2>4. CASE ~ (i < n)
      <3>1. i = n
        BY <1>0, <2>4
      <3>2. u \in wf[s[n].thd] \union G
        BY <2>1, <3>1 DEF n
      <3> QED BY <1>1, <1>2, <2>1, <2>2, <3>1, <3>2 DEF n
    <2> QED BY <2>3, <2>4
  <1>4. /\ v[n + 1].todo \subseteq wf[v[n + 1].thd] \union G
        /\ v[n + 1].thd \in G => Settled(v, n + 1, G, dep)
    BY <1>2 DEF n
  <1>5. Len(v) = n + 1
    BY DEF n
  <1>6. \A i \in 1..(n + 1) : i < n + 1 => i \in 1..n
    BY <1>0
  <1> QED BY <1>0, <1>3, <1>4, <1>5, <1>6 DEF StackInv

\* The innermost call has left to look at the thread of an earlier one: all the
\* calls from there on are of threads on a loop.
LEMMA LoopFound ==
  ASSUME NEW wf, NEW G \in SUBSET Threads, NEW dep,
         NEW s \in Seq(Calls), StackInv(s, wf, G, dep),
         NEW first \in 1..Len(s), s[first].thd \in s[Len(s)].todo,
         NEW k \in first..Len(s)
  PROVE  LoopIn(wf, s[k].thd)
  <1> DEFINE n == Len(s)
  <1>0. n \in Nat /\ n \in 1..n /\ first \in Nat /\ k \in Nat /\ first <= k /\ k <= n
    BY StackFacts
  <1> HIDE DEF n
  <1>1. s[first].thd \notin G
    <2> SUFFICES ASSUME s[first].thd \in G PROVE FALSE
      OBVIOUS
    <2>1. Settled(s, first, G, dep)
      BY DEF StackInv
    <2>2. n \in first..n
      BY <1>0
    <2> QED BY <2>1, <2>2 DEF Settled, n
  <1>2. \A i \in first..n : ~ Settled(s, i, G, dep)
    <2> SUFFICES ASSUME NEW i \in first..n, Settled(s, i, G, dep) PROVE FALSE
      OBVIOUS
    <2>1. n \in i..n
      BY <1>0
    <2> QED BY <1>1, <2>1 DEF Settled, Closed, n
  <1>3. ASSUME NEW i \in first..n, i < n PROVE s[i + 1].thd \in wf[s[i].thd]
    <2>1. i + 1 \in first..n /\ i \in 1..n
      BY <1>0, <1>3
    <2> QED BY <1>2, <1>3, <2>1 DEF StackInv, n
  <1>4. s[first].thd \in wf[s[n].thd]
    BY <1>0, <1>1 DEF StackInv, n
  <1> SUFFICES ASSUME NEW S \in SUBSET Threads, wf[s[k].thd] \subseteq S,
                      \A u \in S : wf[u] \subseteq S
               PROVE  s[k].thd \in S
    BY DEF LoopIn
  <1> DEFINE In(i) == wf[s[i].thd] \subseteq S
  <1>5. \A i \in first..n : i < n /\ In(i) => In(i + 1) /\ s[i + 1].thd \in S
    BY <1>3
  <1>6. In(n) => In(first) /\ s[first].thd \in S
    BY <1>4
  <1>7. In(k)
    OBVIOUS
  <1>8. ASSUME NEW a \in first..n, NEW b \in first..n, a <= b, In(a)
        PROVE  In(b)
    <2> SUFFICES ASSUME ~ In(b) PROVE FALSE
      OBVIOUS
    <2> DEFINE D == {i \in a..b : In(i)}
               f == [i \in D |-> i]
    <2>1. a \in D
      BY <1>0, <1>8
    <2>2. IsFiniteSet(D) /\ f \in [D -> Nat]
      <3>1. IsFiniteSet(a..b)
        BY <1>0, FS_Interval
      <3>2. IsFiniteSet(D)
        BY <3>1, FS_Subset
      <3> QED BY <1>0, <3>2
    <2> HIDE DEF D
    <2>3. PICK m \in D : \A i \in D : ~ (f[m] < f[i])
      BY <2>1, <2>2, GreatestLemma
    <2>4. m \in a..b /\ In(m) /\ m # b
      BY <2>3 DEF D
    <2>5. m + 1 \in a..b /\ m < n /\ m \in first..n
      BY <1>0, <2>4
    <2>6. m + 1 \in D
      BY <1>5, <2>4, <2>5 DEF D
    <2>7. ~ (m < m + 1)
      BY <2>3, <2>6
    <2> QED BY <1>0, <2>4, <2>7
  <1> HIDE DEF In
  <1>9. In(n)
    BY <1>0, <1>7, <1>8
  <1>10. CASE k = first
    BY <1>6, <1>9, <1>10
  <1>11. CASE k # first
    <2>1. k - 1 \in first..n /\ k - 1 < n /\ first <= k - 1 /\ (k - 1) + 1 = k
      BY <1>0, <1>11
    <2>2. In(k - 1)
      BY <1>0, <1>6, <1>8, <1>9, <2>1
    <2> QED BY <1>5, <2>1, <2>2
  <1> QED BY <1>10, <1>11

------------------------------------------------------------------------------
(***************************************************************************)
(* The steps                                                               *)
(***************************************************************************)

\* Calls that have nothing left to look at return, the innermost first.
LEMMA TrimLemma ==
  ASSUME NEW st \in Seq(Calls)
  PROVE  \E k \in 0..Len(st) : Trim(st) = SubSeq(st, 1, k)
  <1> DEFINE open == {i \in DOMAIN st : st[i].todo # {}}
             n    == CHOOSE n \in open \union {0} : \A i \in open : i <= n
             f    == [i \in open \union {0} |-> i]
  <1>1. Len(st) \in Nat /\ DOMAIN st = 1..Len(st)
    OBVIOUS
  <1>2. IsFiniteSet(open \union {0})
    <2>1. IsFiniteSet(1..Len(st))
      BY <1>1, FS_Interval
    <2>2. IsFiniteSet(open)
      BY <1>1, <2>1, FS_Subset
    <2> QED BY <2>2, FS_AddElement
  <1>3. open \subseteq 1..Len(st)
    BY <1>1
  <1> HIDE DEF open
  <1>4. f \in [open \union {0} -> Nat] /\ open \union {0} # {}
    BY <1>1, <1>3
  <1>5. PICK m \in open \union {0} : \A i \in open \union {0} : ~ (f[m] < f[i])
    BY <1>2, <1>4, GreatestLemma
  <1>6. m \in open \union {0} /\ \A i \in open : i <= m
    <2>1. open \union {0} \subseteq Nat
      BY <1>1, <1>3
    <2>2. \A i \in open \union {0} : f[i] = i
      OBVIOUS
    <2> HIDE DEF f
    <2> QED BY <1>5, <2>1, <2>2
  <1>7. n \in open \union {0}
    BY <1>6
  <1>8. Trim(st) = SubSeq(st, 1, n)
    BY DEF Trim, open
  <1> HIDE DEF n
  <1>9. n \in 0..Len(st)
    BY <1>1, <1>3, <1>7
  <1> QED BY <1>8, <1>9

\* A search with a stack that the invariant allows may go on with it.
LEMMA ContinuesLemma ==
  ASSUME TypeInv, NEW t \in Threads, NEW visited \in SUBSET Threads,
         NEW st \in Seq(Calls), Continues(t, visited, st)
  PROVE  /\ search' \in [Threads -> Search]
         /\ \A u \in Threads \ {t} : search'[u] = search[u]
         /\ search'[t].at \in {"test", "look"}
         /\ search'[t].at = "look" => search'[t].stack # <<>>
         /\ \A wf, G, dep : StackInv(st, wf, G, dep)
                            => StackInv(search'[t].stack, wf, G, dep)
  <1> DEFINE at == IF Trim(st) = <<>> THEN "test" ELSE "look"
             vi == IF Trim(st) = <<>> THEN {} ELSE visited
  <1>1. PICK k \in 0..Len(st) : Trim(st) = SubSeq(st, 1, k)
    BY TrimLemma
  <1>2. /\ Trim(st) \in Seq(Calls) /\ Len(Trim(st)) = k
        /\ \A i \in 1..k : Trim(st)[i] = st[i]
    BY <1>1, PrefixLemma
  <1>3. search' = [search EXCEPT ![t] = [@ EXCEPT !.at = at, !.visited = vi,
                                                  !.stack = Trim(st)]]
    BY DEF Continues
  <1> HIDE DEF at, vi
  <1>4. /\ at \in {"test", "look"} /\ vi \in SUBSET Threads
        /\ at = "look" => Trim(st) # <<>>
    BY DEF at, vi
  <1>5. /\ search'[t].at = at /\ search'[t].stack = Trim(st)
        /\ \A u \in Threads \ {t} : search'[u] = search[u]
        /\ search' \in [Threads -> Search]
    <2>1. search \in [Threads -> Search] /\ search[t] \in Search
      BY DEF TypeInv
    <2> DEFINE new == [search[t] EXCEPT !.at = at, !.visited = vi, !.stack = Trim(st)]
    <2>2. new.at = at /\ new.stack = Trim(st) /\ new \in Search
      BY <1>2, <1>4, <2>1 DEF Search, At
    <2>3. search' = [search EXCEPT ![t] = new]
      BY <1>3
    <2> HIDE DEF new
    <2> QED BY <2>1, <2>2, <2>3
  <1>6. ASSUME NEW wf, NEW G, NEW dep, StackInv(st, wf, G, dep)
        PROVE  StackInv(Trim(st), wf, G, dep)
    <2>1. \A i \in 1..Len(Trim(st)) : /\ Trim(st)[i].thd = st[i].thd
                                      /\ Trim(st)[i].todo \subseteq st[i].todo
      BY <1>2
    <2>2. Len(Trim(st)) <= Len(st)
      BY <1>2
    <2> QED BY <1>2, <1>6, <2>1, <2>2, ShrinkStack
  <1> QED BY <1>4, <1>5, <1>6

\* Every thread has a stack of calls.
LEMMA Stacks ==
  ASSUME TypeInv, NEW t \in Threads
  PROVE  /\ search[t].stack \in Seq(Calls) /\ search[t].visited \in SUBSET Threads
         /\ search[t].victim \in [thd : Threads, live : BOOLEAN]
         /\ search[t].at \in At
         /\ dependency[t].adj \in SUBSET Threads /\ dependency[t].txnid \in BOOLEAN
  BY DEF TypeInv, Node, Search

LEMMA NoIdType == NoId \in [thd : Threads, live : BOOLEAN]
  BY ConfigAssumption DEF NoId

LEMMA NewSearchType ==
  /\ NewSearch \in Search
  /\ NewSearch.at = "test" /\ NewSearch.stack = <<>>
  <1>1. <<>> \in Seq(Calls) /\ {} \in SUBSET Threads
    OBVIOUS
  <1> QED BY <1>1, NoIdType DEF NewSearch, Search, At

\* A step in which nobody comes back or ends, searches may get new stacks that
\* fit the waits of the next state, and new victims that are on a loop.
LEMMA QuietStep ==
  ASSUME Inv, Gone' = Gone,
         \A t \in Threads : waits_for[t] \subseteq waits_for'[t],
         \A t \in Gone : dependency'[t].adj = dependency[t].adj,
         WaitsInv',
         TypeInv,
         \A t \in Threads :
           \/ search'[t] = search[t]
           \/ /\ \/ search'[t].stack = search[t].stack
                 \/ StackInv(search'[t].stack, waits_for', Gone, dependency')
              /\ \/ search'[t].at \notin {"check", "abort"}
                 \/ LoopIn(waits_for', search'[t].victim.thd)
                 \/ /\ search[t].at \in {"check", "abort"}
                    /\ search'[t].victim = search[t].victim
  PROVE  Inv'
  <1>1. /\ Unlooped(Gone, dependency) => Unlooped(Gone, dependency')
        /\ \A t \in Threads : LoopIn(waits_for, t) => LoopIn(waits_for', t)
        /\ \A s \in Seq(Calls) : StackInv(s, waits_for, Gone, dependency)
                                 => StackInv(s, waits_for', Gone, dependency')
    BY MoreWaits
  <1>2. Unlooped(Gone, dependency)'
    BY <1>1 DEF Inv
  <1>3. ASSUME NEW t \in Threads PROVE SearchInv(t)'
    <2>1. SearchInv(t)
      BY DEF Inv
    <2>2. StackInv(search[t].stack, waits_for', Gone, dependency')
      BY <1>1, <2>1, Stacks DEF SearchInv
    <2>3. search[t].at \in {"check", "abort"} => LoopIn(waits_for', search[t].victim.thd)
      BY <1>1, <2>1, Stacks DEF SearchInv
    <2> QED BY <2>2, <2>3 DEF SearchInv
  <1> QED BY <1>2, <1>3 DEF Inv

LEMMA LockWaitsStep ==
  ASSUME IInv, NEW t \in Threads, NEW W \in SUBSET Threads, LockWaits(t, W)
  PROVE  IInv'
  <1>1. /\ pc[t] = "run" /\ waits_for' = [waits_for EXCEPT ![t] = W]
        /\ txnids' = [txnids EXCEPT ![t] = W] /\ pc' = [pc EXCEPT ![t] = "wait"]
        /\ UNCHANGED <<gave_up, dependency, search>> /\ TypeInv
    BY DEF IInv, LockWaits, Requests, Goto
  <1>2. TypeInv'
    BY <1>1 DEF TypeInv, PC
  <1>3. ASSUME ~ gave_up PROVE Inv'
    <2>1. Inv
      BY <1>3 DEF IInv
    <2>2. Gone' = Gone
      BY <1>1 DEF Gone, TypeInv
    <2>3. waits_for[t] = {} /\ \A u \in Threads : waits_for[u] \subseteq waits_for'[u]
      BY <1>1, <2>1 DEF Inv, WaitsInv, TypeInv
    <2>4. WaitsInv'
      <3> SUFFICES ASSUME NEW u \in Threads
                   PROVE  /\ pc'[u] \in {"run", "cleanup"} => waits_for'[u] = {}
                          /\ txnids'[u] \union dependency'[u].adj
                               \subseteq waits_for'[u] \union Gone'
        BY DEF WaitsInv
      <3>1. CASE u = t
        BY <1>1, <2>1, <2>2, <2>3, <3>1 DEF Inv, WaitsInv, TypeInv
      <3>2. CASE u # t
        BY <1>1, <2>1, <2>2, <3>2 DEF Inv, WaitsInv, TypeInv
      <3> QED BY <3>1, <3>2
    <2> QED BY <1>1, <2>1, <2>2, <2>3, <2>4, QuietStep
  <1> QED BY <1>1, <1>2, <1>3 DEF IInv

\* The transaction of t begins to give its rows back.
LEMMA FinishStep ==
  ASSUME IInv, NEW t \in Threads, FinishTxn(t)
  PROVE  IInv'
  <1>1. /\ pc[t] = "run" /\ pc' = [pc EXCEPT ![t] = "cleanup"]
        /\ UNCHANGED <<gave_up, waits_for, dependency, txnids, search>> /\ TypeInv
    BY DEF IInv, FinishTxn, Goto, detectVars
  <1>2. TypeInv'
    BY <1>1 DEF TypeInv, PC
  <1>3. ASSUME ~ gave_up PROVE Inv'
    <2>1. Inv
      BY <1>3 DEF IInv
    <2>2. Gone' = Gone \union {t} /\ t \notin Gone /\ Gone \in SUBSET Threads
      BY <1>1 DEF Gone, TypeInv
    <2>3. waits_for[t] = {}
      BY <1>1, <2>1 DEF Inv, WaitsInv
    <2>4. Closed(Gone, Gone, dependency) /\ dependency[t].adj \subseteq Gone
      BY <2>1, <2>3 DEF Inv, WaitsInv, Closed, Gone
    <2>5. /\ Unlooped(Gone, dependency) => Unlooped(Gone', dependency)
          /\ \A s \in Seq(Calls) : StackInv(s, waits_for, Gone, dependency)
                                   => StackInv(s, waits_for, Gone', dependency)
      BY <2>2, <2>3, <2>4, FinishStack
    <2>6. WaitsInv'
      BY <1>1, <2>1, <2>2, <2>3 DEF Inv, WaitsInv, TypeInv
    <2>7. ASSUME NEW u \in Threads PROVE SearchInv(u)'
      BY <1>1, <2>1, <2>5, Stacks DEF Inv, SearchInv
    <2> QED BY <1>1, <2>1, <2>5, <2>6, <2>7 DEF Inv
  <1> QED BY <1>1, <1>2, <1>3 DEF IInv

\* The transaction of t gives a row back.
LEMMA ReturnStep ==
  ASSUME IInv, NEW t \in Threads, ReturnRow(t)
  PROVE  IInv'
  <1>1. PICK S \in SUBSET Waiters(t) : Returned(t, S)
    BY DEF ReturnRow
  <1>2. /\ pc[t] = "cleanup" /\ TypeInv
        /\ UNCHANGED <<pc, gave_up, dependency, txnids, search>>
        /\ waits_for' = [u \in Threads |->
             IF u = t THEN {} ELSE waits_for[u] \ (IF u \in S THEN {t} ELSE {})]
    BY <1>1 DEF IInv, ReturnRow, Returned, detectVars
  <1>3. TypeInv'
    BY <1>2 DEF TypeInv
  <1>4. ASSUME ~ gave_up PROVE Inv'
    <2>1. Inv
      BY <1>4 DEF IInv
    <2>2. Gone' = Gone /\ t \in Gone
      BY <1>2 DEF Gone
    <2>3. /\ waits_for[t] = {}
          /\ \A u \in Threads : /\ waits_for[u] \ {t} \subseteq waits_for'[u]
                                /\ waits_for'[u] \subseteq waits_for[u]
      BY <1>2, <2>1 DEF Inv, WaitsInv
    <2>4. /\ \A u \in Threads : LoopIn(waits_for, u) => LoopIn(waits_for', u)
          /\ \A s \in Seq(Calls) : StackInv(s, waits_for, Gone, dependency)
                                   => StackInv(s, waits_for', Gone, dependency)
      BY <2>2, <2>3, ReturnStack
    <2>5. WaitsInv'
      BY <1>2, <2>1, <2>2, <2>3 DEF Inv, WaitsInv
    <2>6. ASSUME NEW u \in Threads PROVE SearchInv(u)'
      BY <1>2, <2>1, <2>2, <2>4, Stacks DEF Inv, SearchInv
    <2> QED BY <1>2, <2>1, <2>2, <2>5, <2>6 DEF Inv
  <1> QED BY <1>2, <1>3, <1>4 DEF IInv

\* The transaction of t ends, and its number is stale from now on.
LEMMA EndStep ==
  ASSUME IInv, NEW t \in Threads, EndTxn(t)
  PROVE  IInv'
  <1>1. /\ pc[t] = "cleanup" /\ pc' = [pc EXCEPT ![t] = "run"]
        /\ txnids' = [u \in Threads |-> txnids[u] \ {t}]
        /\ UNCHANGED <<gave_up, waits_for>> /\ TypeInv
    BY DEF IInv, EndTxn, Goto
  <1>2. /\ dependency' \in [Threads -> Node]
        /\ \A u \in Threads : dependency'[u].adj \subseteq dependency[u].adj \ {t}
    <2>1. dependency' = [u \in Threads |->
            IF u = t THEN [dependency[t] EXCEPT !.adj = {}, !.txnid = FALSE]
            ELSE [dependency[u] EXCEPT !.adj = @ \ {t}]]
      BY DEF EndTxn, clear_dep
    <2>2. \A u \in Threads : dependency[u] \in Node
      BY <1>1 DEF TypeInv
    <2>3. ASSUME NEW u \in Threads
          PROVE  /\ dependency'[u] \in Node
                 /\ dependency'[u].adj \subseteq dependency[u].adj \ {t}
      <3>1. CASE u = t
        <4>1. dependency'[u] = [dependency[u] EXCEPT !.adj = {}, !.txnid = FALSE]
          BY <2>1, <3>1
        <4>2. {} \in SUBSET Threads /\ FALSE \in BOOLEAN
          OBVIOUS
        <4> QED BY <2>2, <4>1, <4>2 DEF Node
      <3>2. CASE u # t
        <4>1. dependency'[u] = [dependency[u] EXCEPT !.adj = @ \ {t}]
          BY <2>1, <3>2
        <4> QED BY <2>2, <4>1 DEF Node
      <3> QED BY <3>1, <3>2
    <2>4. DOMAIN dependency' = Threads /\ dependency' = [u \in Threads |-> dependency'[u]]
      BY <2>1
    <2> QED BY <2>3, <2>4
  <1>3. ASSUME NEW u \in Threads
        PROVE  /\ search'[u] \in Search
               /\ search'[u].at = search[u].at
               /\ search'[u].victim.thd = search[u].victim.thd
               /\ Len(search'[u].stack) = Len(search[u].stack)
               /\ \A i \in 1..Len(search[u].stack) :
                    /\ search'[u].stack[i].thd = search[u].stack[i].thd
                    /\ search'[u].stack[i].todo = search[u].stack[i].todo \ {t}
    <2> DEFINE s   == search[u]
               st  == s.stack
               st2 == [i \in DOMAIN st |-> LooksNoMore(st[i], t)]
               id  == [s.victim EXCEPT !.live = @ /\ s.victim.thd # t]
    <2> DEFINE New(x) == [search[x] EXCEPT
                            !.stack = [i \in DOMAIN @ |-> LooksNoMore(@[i], t)],
                            !.victim.live = @ /\ search[x].victim.thd # t]
    <2>0. search' = [x \in Threads |-> New(x)]
      BY DEF EndTxn
    <2>1. search'[u] = New(u)
      <3> HIDE DEF New
      <3> QED BY <2>0
    <2>2. s \in Search /\ st \in Seq(Calls) /\ s.victim \in [thd : Threads, live : BOOLEAN]
      BY <1>1 DEF TypeInv, Search
    <2>3. /\ Len(st) \in Nat /\ DOMAIN st = 1..Len(st)
          /\ \A i \in 1..Len(st) : st[i] \in Calls
      BY <2>2
    <2>4. \A i \in 1..Len(st) : /\ LooksNoMore(st[i], t) \in Calls
                                /\ LooksNoMore(st[i], t).thd = st[i].thd
                                /\ LooksNoMore(st[i], t).todo = st[i].todo \ {t}
      BY <2>3 DEF Calls, LooksNoMore
    <2>5. /\ st2 \in Seq(Calls) /\ Len(st2) = Len(st)
          /\ \A i \in 1..Len(st) : /\ st2[i].thd = st[i].thd
                                   /\ st2[i].todo = st[i].todo \ {t}
      BY <2>3, <2>4
    <2>6. id \in [thd : Threads, live : BOOLEAN] /\ id.thd = s.victim.thd
      BY <2>2
    <2> HIDE DEF st2, id, st
    <2>7. [s EXCEPT !.stack = st2, !.victim = id] \in Search
      BY <2>2, <2>5, <2>6 DEF Search
    <2>7a. search'[u] = [s EXCEPT !.stack = st2, !.victim = id]
      BY <2>1 DEF id, st, st2
    <2>8. search'[u].stack = st2 /\ search'[u].victim = id /\ search'[u].at = s.at
      BY <2>2, <2>7a DEF Search
    <2> QED BY <2>5, <2>6, <2>7, <2>7a, <2>8 DEF st
  <1>4. TypeInv'
    <2>1. search' \in [Threads -> Search]
      <3>1. search' = [u \in Threads |-> search'[u]]
        BY DEF EndTxn
      <3> QED BY <1>3, <3>1
    <2>2. \A u \in Threads : search'[u].at = "look" => search'[u].stack # <<>>
      <3> SUFFICES ASSUME NEW u \in Threads, search'[u].at = "look"
                   PROVE  search'[u].stack # <<>>
        OBVIOUS
      <3>1. search[u].stack # <<>> /\ search[u].stack \in Seq(Calls)
        BY <1>1, <1>3, Stacks DEF TypeInv
      <3>2. Len(search[u].stack) # 0
        BY <3>1
      <3> QED BY <1>3, <3>2
    <2> QED BY <1>1, <1>2, <2>1, <2>2 DEF TypeInv, PC
  <1>5. ASSUME ~ gave_up PROVE Inv'
    <2>1. Inv
      BY <1>5 DEF IInv
    <2>2. Gone' = Gone \ {t} /\ Gone \in SUBSET Threads
      BY <1>1 DEF Gone, TypeInv
    <2>3. WaitsInv'
      <3> SUFFICES ASSUME NEW u \in Threads
                   PROVE  /\ pc'[u] \in {"run", "cleanup"} => waits_for'[u] = {}
                          /\ txnids'[u] \union dependency'[u].adj
                               \subseteq waits_for'[u] \union Gone'
        BY DEF WaitsInv
      <3>1. /\ txnids[u] \union dependency[u].adj \subseteq waits_for[u] \union Gone
            /\ pc[u] \in {"run", "cleanup"} => waits_for[u] = {}
        BY <2>1 DEF Inv, WaitsInv
      <3>2. pc'[u] \in {"run", "cleanup"} => pc[u] \in {"run", "cleanup"}
        BY <1>1 DEF TypeInv
      <3>3. txnids'[u] = txnids[u] \ {t}
        BY <1>1
      <3> QED BY <1>1, <1>2, <2>2, <3>1, <3>2, <3>3
    <2>4. /\ Unlooped(Gone, dependency) => Unlooped(Gone', dependency')
          /\ \A s, s2 \in Seq(Calls) :
               /\ StackInv(s, waits_for, Gone, dependency)
               /\ Len(s2) = Len(s)
               /\ \A i \in 1..Len(s) : s2[i].thd = s[i].thd /\ s2[i].todo = s[i].todo \ {t}
               => StackInv(s2, waits_for, Gone', dependency')
      BY <1>2, <2>2, EndStack
    <2>5. ASSUME NEW u \in Threads PROVE SearchInv(u)'
      <3>1. search[u].stack \in Seq(Calls) /\ search'[u].stack \in Seq(Calls) /\ SearchInv(u)
        BY <1>1, <1>3, <2>1 DEF Inv, TypeInv, Search
      <3>2. StackInv(search'[u].stack, waits_for, Gone', dependency')
        BY <1>3, <2>4, <3>1 DEF SearchInv
      <3> QED BY <1>1, <1>3, <3>1, <3>2 DEF SearchInv
    <2> QED BY <2>1, <2>3, <2>4, <2>5 DEF Inv
  <1> QED BY <1>1, <1>4, <1>5 DEF IInv

\* The steps that change no waits, nodes or threads that are gone.
LEMMA SearchStep ==
  ASSUME IInv, NEW t \in Threads,
         UNCHANGED <<pc, waits_for, gave_up, dependency, txnids>>,
         search' \in [Threads -> Search],
         \A u \in Threads \ {t} : search'[u] = search[u],
         search'[t].at = "look" => search'[t].stack # <<>>,
         ~ gave_up => \/ search'[t].stack = search[t].stack
                      \/ StackInv(search'[t].stack, waits_for, Gone, dependency),
         ~ gave_up => \/ search'[t].at \notin {"check", "abort"}
                      \/ LoopIn(waits_for, search'[t].victim.thd)
                      \/ /\ search[t].at \in {"check", "abort"}
                         /\ search'[t].victim = search[t].victim
  PROVE  IInv'
  <1>1. TypeInv /\ TypeInv' /\ Gone' = Gone
    BY DEF IInv, TypeInv, Gone
  <1>2. ASSUME ~ gave_up PROVE Inv'
    <2>1. Inv /\ WaitsInv'
      BY <1>1, <1>2 DEF IInv, Inv, WaitsInv
    <2> QED BY <1>1, <1>2, <2>1, QuietStep
  <1> QED BY <1>1, <1>2 DEF IInv

LEMMA TakeTurnStep ==
  ASSUME IInv, NEW t \in Threads, TakeTurn(t)
  PROVE  IInv'
  <1>1. /\ pc[t] = "spin" /\ TypeInv
        /\ UNCHANGED <<pc, waits_for, gave_up, dependency, txnids>>
    BY DEF IInv, TakeTurn, Spins, txnVars
  <1>2. CASE txnids[t] # {}
    <2>1. search' = [search EXCEPT ![t].at = "add"]
      BY <1>2 DEF TakeTurn
    <2>2. search[t] \in Search /\ search \in [Threads -> Search]
      BY <1>1 DEF TypeInv
    <2>3. [search[t] EXCEPT !.at = "add"] \in Search
      BY <2>2 DEF Search, At
    <2>4. /\ search'[t].at = "add" /\ search'[t].stack = search[t].stack
          /\ search' \in [Threads -> Search]
          /\ \A u \in Threads \ {t} : search'[u] = search[u]
      BY <2>1, <2>2, <2>3 DEF Search
    <2> QED BY <1>1, <2>4, SearchStep
  <1>3. CASE txnids[t] = {}
    <2> DEFINE c  == Call(t, dependency[t])
               st == <<c>>
    <2>1. Continues(t, {t}, st)
      BY <1>3 DEF TakeTurn
    <2>2. c \in Calls /\ c.thd = t /\ c.todo = dependency[t].adj
      BY <1>1, Stacks DEF Call, Calls
    <2> HIDE DEF c
    <2>3. st \in Seq(Calls) /\ Len(st) = 1 /\ st[1] = c
      BY <2>2
    <2> HIDE DEF st
    <2>4. /\ search' \in [Threads -> Search]
          /\ \A u \in Threads \ {t} : search'[u] = search[u]
          /\ search'[t].at \in {"test", "look"}
          /\ search'[t].at = "look" => search'[t].stack # <<>>
          /\ \A wf, G, dep : StackInv(st, wf, G, dep)
                             => StackInv(search'[t].stack, wf, G, dep)
      BY <1>1, <2>1, <2>3, ContinuesLemma
    <2>5. ASSUME ~ gave_up PROVE StackInv(st, waits_for, Gone, dependency)
      <3>1. dependency[t].adj \subseteq waits_for[t] \union Gone /\ t \notin Gone
        BY <1>1, <2>5 DEF IInv, Inv, WaitsInv, Gone
      <3> QED BY <2>2, <2>3, <3>1 DEF StackInv
    <2> QED BY <1>1, <2>4, <2>5, SearchStep
  <1> QED BY <1>2, <1>3

LEMMA NothingLeftStep ==
  ASSUME IInv, NEW t \in Threads, NothingLeft(t)
  PROVE  IInv'
  <1>1. /\ Continues(t, search[t].visited, search[t].stack) /\ TypeInv
        /\ UNCHANGED <<pc, waits_for, gave_up, dependency, txnids>>
    BY DEF IInv, NothingLeft, txnVars
  <1>2. PICK st \in Seq(Calls), vi \in SUBSET Threads :
          st = search[t].stack /\ vi = search[t].visited
    BY <1>1, Stacks
  <1>3. /\ search' \in [Threads -> Search]
        /\ \A u \in Threads \ {t} : search'[u] = search[u]
        /\ search'[t].at \in {"test", "look"}
        /\ search'[t].at = "look" => search'[t].stack # <<>>
        /\ \A wf, G, dep : StackInv(st, wf, G, dep)
                           => StackInv(search'[t].stack, wf, G, dep)
    BY <1>1, <1>2, ContinuesLemma
  <1>4. ~ gave_up => StackInv(search'[t].stack, waits_for, Gone, dependency)
    BY <1>2, <1>3 DEF IInv, Inv, SearchInv
  <1> QED BY <1>1, <1>3, <1>4, SearchStep

\* nextNode looks at one more dependency.
LEMMA LookAtStep ==
  ASSUME IInv, NEW t \in Threads, NEW u \in Threads, LookAt(t, u)
  PROVE  IInv'
  <1>1. /\ TypeInv /\ search[t].at = "look"
        /\ UNCHANGED <<pc, waits_for, gave_up, dependency, txnids>>
    BY DEF IInv, LookAt, Spins, txnVars
  <1>2. PICK s \in Seq(Calls), vi \in SUBSET Threads :
          s = search[t].stack /\ vi = search[t].visited
    BY <1>1, Stacks
  <1> DEFINE n  == Len(s)
             st == [s EXCEPT ![n].todo = @ \ {u}]
             onstack == {i \in DOMAIN st : st[i].thd = u}
  <1>3. n \in Nat /\ n # 0 /\ s[n] \in Calls
    <2>1. s # <<>>
      BY <1>1, <1>2 DEF TypeInv
    <2> QED BY <2>1
  <1>4. /\ u \in s[n].todo
        /\ \/ /\ SameTxn32(u)
              /\ \E first \in onstack : \E v \in Victims(st, first) :
                   search' = [search EXCEPT ![t] =
                     [@ EXCEPT !.at = "check", !.visited = {}, !.stack = <<>>,
                               !.victim = [thd |-> v, live |-> TRUE]]]
           \/ /\ dependency[u].txnid /\ u \notin vi
              /\ Continues(t, vi \union {u}, Append(st, Call(u, dependency[u])))
           \/ Continues(t, vi, st)
    BY <1>2 DEF LookAt
  <1>5. /\ st \in Seq(Calls) /\ Len(st) = n /\ DOMAIN st = 1..n
        /\ \A i \in 1..n : st[i].thd = s[i].thd /\ st[i].todo \subseteq s[i].todo
    <2>1. [s[n] EXCEPT !.todo = @ \ {u}] \in Calls
      BY <1>3 DEF Calls
    <2>2. st = [s EXCEPT ![n] = [s[n] EXCEPT !.todo = @ \ {u}]]
      OBVIOUS
    <2>3. /\ [s[n] EXCEPT !.todo = @ \ {u}].thd = s[n].thd
          /\ [s[n] EXCEPT !.todo = @ \ {u}].todo \subseteq s[n].todo
      BY <1>3 DEF Calls
    <2> QED BY <1>3, <2>1, <2>2, <2>3
  <1> HIDE DEF st
  <1>6. ~ gave_up => /\ StackInv(s, waits_for, Gone, dependency)
                     /\ StackInv(st, waits_for, Gone, dependency)
    <2> SUFFICES ASSUME ~ gave_up
                 PROVE  /\ StackInv(s, waits_for, Gone, dependency)
                        /\ StackInv(st, waits_for, Gone, dependency)
      OBVIOUS
    <2>1. StackInv(s, waits_for, Gone, dependency)
      BY <1>2 DEF IInv, Inv, SearchInv
    <2>2. Len(st) <= Len(s)
      BY <1>3, <1>5
    <2> QED BY <1>5, <2>1, <2>2, ShrinkStack
  <1>7. ASSUME NEW first \in onstack, NEW v \in Victims(st, first),
               search' = [search EXCEPT ![t] =
                     [@ EXCEPT !.at = "check", !.visited = {}, !.stack = <<>>,
                               !.victim = [thd |-> v, live |-> TRUE]]]
        PROVE  IInv'
    <2>1. first \in 1..n /\ s[first].thd = u
      BY <1>5
    <2>2. PICK k \in first..n : v = s[k].thd
      <3>1. PICK k \in first..n : v = st[k].thd
        BY <1>5, <1>7 DEF Victims
      <3>2. k \in 1..n
        BY <1>3, <2>1
      <3> QED BY <1>5, <3>1, <3>2
    <2>3. v \in Threads
      <3>1. k \in 1..n
        BY <1>3, <2>1
      <3> QED BY <2>2, <3>1, StackFacts
    <2>4. /\ search' \in [Threads -> Search] /\ search'[t].at = "check"
          /\ search'[t].stack = <<>> /\ search'[t].victim.thd = v
          /\ \A w \in Threads \ {t} : search'[w] = search[w]
      <3>1. search[t] \in Search /\ search \in [Threads -> Search]
        BY <1>1 DEF TypeInv
      <3> DEFINE new == [search[t] EXCEPT !.at = "check", !.visited = {}, !.stack = <<>>,
                                          !.victim = [thd |-> v, live |-> TRUE]]
      <3>1a. /\ <<>> \in Seq(Calls) /\ {} \in SUBSET Threads /\ "check" \in At
             /\ [thd |-> v, live |-> TRUE] \in [thd : Threads, live : BOOLEAN]
        BY <2>3 DEF At
      <3>2. new \in Search /\ new.at = "check" /\ new.stack = <<>> /\ new.victim.thd = v
        BY <3>1, <3>1a DEF Search
      <3>3. search' = [search EXCEPT ![t] = new]
        BY <1>7
      <3> HIDE DEF new
      <3> QED BY <3>1, <3>2, <3>3
    <2>5. ASSUME ~ gave_up
          PROVE  /\ StackInv(search'[t].stack, waits_for, Gone, dependency)
                 /\ LoopIn(waits_for, search'[t].victim.thd)
      <3>1. Gone \in SUBSET Threads /\ s[first].thd \in s[n].todo
        BY <1>4, <2>1 DEF Gone
      <3>2. LoopIn(waits_for, s[k].thd)
        BY <1>6, <2>1, <2>2, <2>5, <3>1, LoopFound
      <3>3. StackInv(<<>>, waits_for, Gone, dependency)
        BY DEF StackInv
      <3> QED BY <2>2, <2>4, <3>2, <3>3
    <2> QED BY <1>1, <2>4, <2>5, SearchStep
  <1>8. ASSUME NEW q \in Seq(Calls), NEW vs \in SUBSET Threads, Continues(t, vs, q),
               ~ gave_up => StackInv(q, waits_for, Gone, dependency)
        PROVE  IInv'
    <2>1. /\ search' \in [Threads -> Search]
          /\ \A w \in Threads \ {t} : search'[w] = search[w]
          /\ search'[t].at \in {"test", "look"}
          /\ search'[t].at = "look" => search'[t].stack # <<>>
          /\ \A wf, G, dep : StackInv(q, wf, G, dep)
                             => StackInv(search'[t].stack, wf, G, dep)
      BY <1>1, <1>8, ContinuesLemma
    <2>2. ~ gave_up => StackInv(search'[t].stack, waits_for, Gone, dependency)
      BY <1>8, <2>1
    <2> QED BY <1>1, <2>1, <2>2, SearchStep
  <1>9. ASSUME Continues(t, vi \union {u}, Append(st, Call(u, dependency[u])))
        PROVE  IInv'
    <2> DEFINE c == Call(u, dependency[u])
               q == Append(st, c)
    <2>1. c \in Calls /\ c.thd = u /\ c.todo = dependency[u].adj
      BY <1>1, Stacks DEF Call, Calls
    <2> HIDE DEF c
    <2>2. /\ q \in Seq(Calls) /\ Len(q) = n + 1 /\ q[n + 1] = c
          /\ \A i \in 1..n : q[i].thd = s[i].thd /\ q[i].todo \subseteq s[i].todo
      BY <1>5, <2>1
    <2>3. Continues(t, vi \union {u}, q)
      BY <1>9 DEF c
    <2> HIDE DEF q
    <2>4. ~ gave_up => StackInv(q, waits_for, Gone, dependency)
      <3> SUFFICES ASSUME ~ gave_up PROVE StackInv(q, waits_for, Gone, dependency)
        OBVIOUS
      <3>1. /\ Unlooped(Gone, dependency) /\ Gone \in SUBSET Threads
            /\ dependency[u].adj \subseteq waits_for[u] \union Gone
        BY DEF IInv, Inv, WaitsInv, Gone
      <3>2. u \in s[Len(s)].todo /\ Len(s) # 0
        BY <1>3, <1>4
      <3> QED BY <1>6, <2>1, <2>2, <3>1, <3>2, PushStack
    <2> QED BY <1>8, <2>2, <2>3, <2>4
  <1>10. ASSUME Continues(t, vi, st) PROVE IInv'
    BY <1>5, <1>6, <1>8, <1>10
  <1> QED BY <1>4, <1>7, <1>9, <1>10

LEMMA VictimStep ==
  ASSUME IInv, NEW t \in Threads, CheckVictim(t) \/ AbortVictim(t)
  PROVE  IInv'
  <1>1. /\ TypeInv /\ search[t].at \in {"check", "abort"}
        /\ UNCHANGED <<pc, waits_for, gave_up, dependency, txnids>>
    BY DEF IInv, CheckVictim, AbortVictim, Spins, txnVars
  <1>2. search[t] \in Search /\ search \in [Threads -> Search]
    BY <1>1 DEF TypeInv
  <1> DEFINE a == [search[t] EXCEPT !.at = "abort"]
             b == [search[t] EXCEPT !.at = "test", !.victim = NoId]
  <1>3. /\ a \in Search /\ a.at = "abort" /\ a.stack = search[t].stack
        /\ a.victim = search[t].victim
        /\ b \in Search /\ b.at = "test" /\ b.stack = search[t].stack
    BY <1>2, NoIdType DEF Search, At
  <1>4. search' = [search EXCEPT ![t] = a] \/ search' = [search EXCEPT ![t] = b]
    BY <1>2 DEF CheckVictim, AbortVictim
  <1> HIDE DEF a, b
  <1>5. /\ search' \in [Threads -> Search]
        /\ \A u \in Threads \ {t} : search'[u] = search[u]
        /\ search'[t] = a \/ search'[t] = b
    BY <1>2, <1>3, <1>4
  <1>6. search'[t].stack = search[t].stack /\ search'[t].at # "look"
    BY <1>3, <1>5
  <1>7. search'[t].at \notin {"check", "abort"} \/ search'[t].victim = search[t].victim
    BY <1>3, <1>5
  <1> QED BY <1>1, <1>5, <1>6, <1>7, SearchStep

\* The other steps of the spin loop.
LEMMA SpinStep ==
  ASSUME IInv, NEW t \in Threads, EnterSpin(t) \/ LeaveSpin(t) \/ AddDep(t)
  PROVE  IInv'
  <1>1. /\ TypeInv /\ waits_for' = waits_for /\ gave_up' = gave_up
        /\ pc[t] \in {"wait", "spin"}
    BY DEF IInv, EnterSpin, LeaveSpin, AddDep, Spins, txnVars
  <1>2. /\ pc' \in [Threads -> PC] /\ \A u \in Threads \ {t} : pc'[u] = pc[u]
        /\ pc'[t] \in {"run", "spin"} /\ (pc'[t] = "run" => waits_for[t] = {})
    BY <1>1 DEF TypeInv, PC, EnterSpin, LeaveSpin, AddDep, Goto, Spins, txnVars, lock_ready
  <1>3. /\ dependency' \in [Threads -> Node] /\ txnids' \in [Threads -> SUBSET Threads]
        /\ \A u \in Threads \ {t} : /\ dependency'[u] = dependency[u]
                                    /\ txnids'[u] = txnids[u]
        /\ dependency'[t].adj \union txnids'[t] \subseteq dependency[t].adj \union txnids[t]
    <2>1. CASE AddDep(t)
      <3>1. dependency[t] \in Node /\ txnids[t] \in SUBSET Threads
        BY <1>1 DEF TypeInv
      <3> QED BY <1>1, <2>1, <3>1 DEF AddDep, add_dep, TypeInv, Node
    <2>2. CASE EnterSpin(t) \/ LeaveSpin(t)
      BY <1>1, <2>2 DEF EnterSpin, LeaveSpin, Forgotten, detectVars, TypeInv
    <2> QED BY <2>1, <2>2
  <1>4. /\ search' \in [Threads -> Search]
        /\ \A u \in Threads \ {t} : search'[u] = search[u]
        /\ \/ search'[t] = search[t]
           \/ search'[t] = NewSearch
           \/ search'[t].at = "test" /\ search'[t].stack = search[t].stack
    <2>1. search[t] \in Search /\ search \in [Threads -> Search]
      BY <1>1 DEF TypeInv
    <2>2. CASE AddDep(t)
      <3> DEFINE new == [search[t] EXCEPT !.at = "test"]
      <3>1. new \in Search /\ new.at = "test" /\ new.stack = search[t].stack
        BY <2>1 DEF Search, At
      <3>2. search' = [search EXCEPT ![t] = new]
        BY <2>2 DEF AddDep
      <3> HIDE DEF new
      <3> QED BY <2>1, <3>1, <3>2
    <2>3. CASE EnterSpin(t) \/ LeaveSpin(t)
      BY <2>1, <2>3, NewSearchType DEF EnterSpin, LeaveSpin, Forgotten, detectVars
    <2> QED BY <2>2, <2>3
  <1>5. /\ search'[t].at = "look" => search'[t] = search[t]
        /\ search'[t] # search[t] => search'[t].at = "test"
        /\ search'[t].stack = search[t].stack \/ search'[t].stack = <<>>
    BY <1>4, NewSearchType
  <1>6. TypeInv'
    BY <1>1, <1>2, <1>3, <1>4, <1>5 DEF TypeInv
  <1>7. ASSUME ~ gave_up PROVE Inv'
    <2>1. Inv
      BY <1>7 DEF IInv
    <2>2. Gone' = Gone /\ t \notin Gone
      BY <1>1, <1>2 DEF Gone
    <2>3. WaitsInv'
      <3> SUFFICES ASSUME NEW u \in Threads
                   PROVE  /\ pc'[u] \in {"run", "cleanup"} => waits_for'[u] = {}
                          /\ txnids'[u] \union dependency'[u].adj
                               \subseteq waits_for'[u] \union Gone'
        BY DEF WaitsInv
      <3>1. /\ txnids[u] \union dependency[u].adj \subseteq waits_for[u] \union Gone
            /\ pc[u] \in {"run", "cleanup"} => waits_for[u] = {}
        BY <2>1 DEF Inv, WaitsInv
      <3> QED BY <1>1, <1>2, <1>3, <2>2, <3>1
    <2>4. StackInv(<<>>, waits_for', Gone, dependency')
      BY DEF StackInv
    <2>5. \A u \in Gone : dependency'[u].adj = dependency[u].adj
      BY <1>3, <2>2 DEF Gone
    <2>6. \A u \in Threads :
           \/ search'[u] = search[u]
           \/ /\ \/ search'[u].stack = search[u].stack
                 \/ StackInv(search'[u].stack, waits_for', Gone, dependency')
              /\ search'[u].at \notin {"check", "abort"}
      BY <1>4, <1>5, <2>4
    <2> QED BY <1>1, <2>1, <2>2, <2>3, <2>5, <2>6, QuietStep
  <1> QED BY <1>1, <1>6, <1>7 DEF IInv

\* Once somebody has given up nothing is claimed.
LEMMA GiveUpStep ==
  ASSUME IInv, NEW t \in Threads, GiveUp(t)
  PROVE  IInv'
  <1>1. /\ TypeInv /\ gave_up' = TRUE /\ dependency' = dependency
        /\ pc' = [pc EXCEPT ![t] = "cleanup"]
        /\ \E S \in SUBSET Waiters(t) : waits_for' = [u \in Threads |->
             IF u = t THEN {} ELSE waits_for[u] \ (IF u \in S THEN {t} ELSE {})]
        /\ txnids' = [txnids EXCEPT ![t] = {}] /\ search' = [search EXCEPT ![t] = NewSearch]
    BY DEF IInv, GiveUp, Returned, Forgotten, Goto
  <1>2. TypeInv'
    BY <1>1, NewSearchType DEF TypeInv, PC
  <1> QED BY <1>1, <1>2 DEF IInv

------------------------------------------------------------------------------
(***************************************************************************)
(* The theorem                                                             *)
(***************************************************************************)

LEMMA InitIInv ==
  ASSUME Init
  PROVE  IInv
  <1>1. TypeInv
    BY NewSearchType DEF Init, TypeInv, PC, Node, NoDep
  <1>2. Gone = {}
    BY DEF Init, Gone
  <1>3. WaitsInv /\ Unlooped(Gone, dependency)
    BY <1>2 DEF Init, WaitsInv, Unlooped, NoDep
  <1>4. ASSUME NEW t \in Threads PROVE SearchInv(t)
    BY NewSearchType DEF Init, SearchInv, StackInv
  <1> QED BY <1>1, <1>3, <1>4 DEF IInv, Inv

LEMMA NextIInv ==
  ASSUME IInv, [Next]_vars
  PROVE  IInv'
  <1>1. ASSUME NEW t \in Threads, Step(t) PROVE IInv'
    BY <1>1, LockWaitsStep, FinishStep, ReturnStep, EndStep, SpinStep, GiveUpStep, TakeTurnStep,
       NothingLeftStep, LookAtStep, VictimStep DEF Step, Detect
  <1>2. CASE UNCHANGED vars
    BY <1>2 DEF vars, txnVars, detectVars, IInv, TypeInv, Inv, WaitsInv, SearchInv, Gone
  <1> QED BY <1>1, <1>2 DEF Next

\* The nodes and the searches of the detector see only waits that last or that
\* ended in an order, until the first transaction gives up.
THEOREM Inductive == Spec => []IInv
  BY InitIInv, NextIInv, PTL DEF Spec

\* The detector's first alarm is right, with any number of threads, waits and
\* searches at the same time (dl_detect.cpp:27-28, 100).
THEOREM FirstAlarm == Spec => []FirstAlarmRight
  <1>1. IInv => FirstAlarmRight
    BY DEF IInv, Inv, SearchInv, FirstAlarmRight, OnLoop, LoopIn
  <1> QED BY <1>1, Inductive, PTL

====
