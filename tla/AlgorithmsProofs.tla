---------------------------- MODULE AlgorithmsProofs ----------------------------
(***************************************************************************)
(* The graph of RoadmapGraph, built from any rows, and the searches of      *)
(* GraphSearch, on every finite graph: any number of nodes, any edges,      *)
(* loops among them, any choice of nodes, and any order in which Python     *)
(* iterates over its sets.  Each search has an invariant of its own.        *)
(*                                                                         *)
(* Nothing here is by induction over the data.  What a search has done is  *)
(* in its invariant, also that the recursion by which the parents are read *)
(* back has a solution; the rest follows from finite sets, since a family  *)
(* of subsets of one has a member that has no other in it.                 *)
(***************************************************************************)
EXTENDS MCAlgorithms, Sequences, FiniteSetTheorems, TLAPS

------------------------------------------------------------------------------
(* Sequences, and what leads to a node                                       *)

Elements(s) == {s[i] : i \in 1 .. Len(s)}
NoneTwice(s) == \A i, j \in 1 .. Len(s) : s[i] = s[j] => i = j
Ahead(n) == G!Into(n) \intersect chosen

------------------------------------------------------------------------------
(* topological_sort: the queue and the result hold, each once, exactly what  *)
(* has everything before it in the result, and degree counts what has not.   *)
Ready(n, q, r) == n \in Elements(q) \/ n \in Elements(r)
SortInv ==
  /\ result \in Seq(chosen) /\ queue \in Seq(chosen)
  /\ degree = [n \in chosen |-> Cardinality(Ahead(n) \ Elements(result))]
  /\ NoneTwice(result) /\ NoneTwice(queue) /\ Elements(queue) \intersect Elements(result) = {}
  /\ \A n \in chosen : Ahead(n) \subseteq Elements(result) <=> Ready(n, queue, result)
  /\ \A j \in 1 .. Len(result) : Ahead(result[j]) \subseteq {result[i] : i \in 1 .. j - 1}

LEMMA SameCount == ASSUME NEW X PROVE G!Cardinality(X) = Cardinality(X)
  BY DEF G!Cardinality, Cardinality

(* An order of a finite set has each of its members once.                   *)
LEMMA OrdersAre ==
  ASSUME NEW X, IsFiniteSet(X), NEW s \in G!Orders(X)
  PROVE  s \in Seq(X) /\ Elements(s) = X /\ NoneTwice(s)
  <1> DEFINE n == Cardinality(X)
  <1>1. n \in Nat /\ s \in [1 .. n -> X] /\ {s[i] : i \in 1 .. n} = X
    BY SameCount, FS_CardinalityType DEF G!Orders, G!ToSet
  <1> HIDE DEF n
  <1>2. IsFiniteSet(1 .. n) /\ Cardinality(1 .. n) = n
    <2>1. 1 \in Int /\ n \in Int
      BY <1>1
    <2>2. IsFiniteSet(1 .. n) /\ Cardinality(1 .. n) = IF 1 > n THEN 0 ELSE n - 1 + 1
      BY <2>1, FS_Interval
    <2> QED
      BY <1>1, <2>2
  <1>3. s \in Surjection(1 .. n, X)
    BY <1>1 DEF Surjection
  <1>4. s \in Injection(1 .. n, X)
    <2>1. IsFiniteSet(1 .. n) /\ Cardinality(X) = Cardinality(1 .. n)
      BY <1>2 DEF n
    <2> QED
      BY <1>3, <2>1, FS_Surjection
  <1>5. s \in Seq(X) /\ Len(s) = n
    BY <1>1
  <1> QED
    BY <1>1, <1>4, <1>5 DEF Elements, NoneTwice, Injection, IsInjective

LEMMA Appended ==
  ASSUME NEW X, NEW s \in Seq(X), NEW x \in X
  PROVE  /\ Append(s, x) \in Seq(X) /\ Elements(Append(s, x)) = Elements(s) \union {x}
         /\ NoneTwice(s) /\ x \notin Elements(s) => NoneTwice(Append(s, x))
         /\ Elements(s) \subseteq X
  BY DEF Elements, NoneTwice

LEMMA HeadTaken ==
  ASSUME NEW X, NEW s \in Seq(X), s # <<>>
  PROVE  /\ Tail(s) \in Seq(X) /\ Head(s) \in X /\ Head(s) \in Elements(s)
         /\ Elements(s) = Elements(Tail(s)) \union {Head(s)}
         /\ NoneTwice(s) => NoneTwice(Tail(s)) /\ Head(s) \notin Elements(Tail(s))
  BY DEF Elements, NoneTwice

LEMMA Joined ==
  ASSUME NEW X, NEW s \in Seq(X), NEW t \in Seq(X)
  PROVE  /\ s \o t \in Seq(X) /\ Elements(s \o t) = Elements(s) \union Elements(t)
         /\ NoneTwice(s) /\ NoneTwice(t) /\ Elements(s) \intersect Elements(t) = {} => NoneTwice(s \o t)
  <1> DEFINE m == Len(s)
             n == Len(t)
             st == s \o t
  <1>1. /\ m \in Nat /\ n \in Nat /\ st \in Seq(X) /\ Len(st) = m + n
        /\ \A i \in 1 .. m + n : st[i] = IF i <= m THEN s[i] ELSE t[i - m]
    OBVIOUS
  <1> HIDE DEF m, n, st
  <1>2. Elements(st) = {st[i] : i \in 1 .. m + n} /\ Elements(s) = {s[i] : i \in 1 .. m} /\ Elements(t) = {t[i] : i \in 1 .. n}
    BY <1>1 DEF Elements, m, n
  <1>3. \A i \in 1 .. n : m + i \in 1 .. m + n /\ st[m + i] = t[i]
    BY <1>1
  <1>4. Elements(st) = Elements(s) \union Elements(t)
    <2>1. ASSUME NEW x \in Elements(t) PROVE x \in Elements(st)
      <3>1. PICK i \in 1 .. n : x = t[i]
        BY <1>2
      <3> QED
        BY <1>2, <1>3, <3>1
    <2>2. Elements(s) \subseteq Elements(st)
      BY <1>1, <1>2
    <2>3. ASSUME NEW i \in 1 .. m + n PROVE st[i] \in Elements(s) \union Elements(t)
      <3>1. CASE i <= m
        BY <1>1, <1>2, <3>1
      <3>2. CASE i > m
        <4>1. i - m \in 1 .. n /\ st[i] = t[i - m]
          BY <1>1, <3>2
        <4> QED
          BY <1>2, <4>1
      <3> QED
        BY <1>1, <3>1, <3>2
    <2> QED
      BY <1>2, <2>1, <2>2, <2>3
  <1>5. ASSUME NoneTwice(s), NoneTwice(t), Elements(s) \intersect Elements(t) = {} PROVE NoneTwice(st)
    <2>1. \A i, j \in 1 .. m : s[i] = s[j] => i = j
      BY <1>5 DEF NoneTwice, m
    <2>2. \A i, j \in 1 .. n : t[i] = t[j] => i = j
      BY <1>5 DEF NoneTwice, n
    <2>3. \A i \in 1 .. m, j \in 1 .. n : s[i] # t[j]
      BY <1>2, <1>5
    <2>4. \A i, j \in 1 .. m + n : st[i] = st[j] => i = j
      BY <1>1, <2>1, <2>2, <2>3, SMTT(20)
    <2> QED
      BY <1>1, <2>4 DEF NoneTwice
  <1> QED
    BY <1>1, <1>4, <1>5 DEF st

(* How many of what leads to a node are not yet in the result.              *)
LEMMA AheadCounted ==
  ASSUME NEW n, NEW known
  PROVE  /\ IsFiniteSet(Ahead(n) \ known) /\ Cardinality(Ahead(n) \ known) \in Nat
         /\ Cardinality(Ahead(n) \ known) = 0 <=> Ahead(n) \subseteq known
         /\ \A m : m \in Ahead(n) /\ m \notin known =>
               Cardinality(Ahead(n) \ (known \union {m})) = Cardinality(Ahead(n) \ known) - 1
         /\ \A m : m \notin Ahead(n) => Ahead(n) \ (known \union {m}) = Ahead(n) \ known
  <1>1. Ahead(n) \ known \in SUBSET Nodes
    BY DEF Ahead, G!Into
  <1>2. IsFiniteSet(Ahead(n) \ known)
    BY <1>1, SearchAssumption, FS_Subset
  <1>3. Cardinality(Ahead(n) \ known) \in Nat /\ (Cardinality(Ahead(n) \ known) = 0 <=> Ahead(n) \ known = {})
    BY <1>2, FS_CardinalityType, FS_EmptySet
  <1>4. ASSUME NEW m, m \in Ahead(n), m \notin known
        PROVE  Cardinality(Ahead(n) \ (known \union {m})) = Cardinality(Ahead(n) \ known) - 1
    <2>1. Ahead(n) \ (known \union {m}) = (Ahead(n) \ known) \ {m} /\ m \in Ahead(n) \ known
      BY <1>4
    <2> QED
      BY <1>2, <2>1, FS_RemoveElement
  <1> QED
    BY <1>2, <1>3, <1>4

LEMMA SortStep ==
  ASSUME SortInv, chosen \subseteq Nodes, UNCHANGED <<edges, chosen>>, G!SortStep
  PROVE  SortInv'
  <1> DEFINE taken == Head(queue)
             lower == [n \in chosen |-> IF n \in G!Out(taken) THEN degree[n] - 1 ELSE degree[n]]
             loose == {n \in G!Out(taken) \intersect chosen : lower[n] = 0}
             before == Elements(result)
             waiting == Elements(queue)
  <1>1. PICK freed \in G!Orders(loose) :
          /\ queue # <<>> /\ result' = Append(result, taken) /\ degree' = lower
          /\ queue' = Tail(queue) \o freed
    BY DEF G!SortStep
  <1>2. /\ result \in Seq(chosen) /\ queue \in Seq(chosen) /\ NoneTwice(result) /\ NoneTwice(queue)
        /\ degree = [n \in chosen |-> Cardinality(Ahead(n) \ before)]
        /\ waiting \intersect before = {}
        /\ \A n \in chosen : Ahead(n) \subseteq before <=> n \in waiting \union before
        /\ \A j \in 1 .. Len(result) : Ahead(result[j]) \subseteq {result[i] : i \in 1 .. j - 1}
    BY DEF SortInv, Ready
  <1>3. /\ Tail(queue) \in Seq(chosen) /\ taken \in chosen /\ taken \in waiting
        /\ waiting = Elements(Tail(queue)) \union {taken} /\ NoneTwice(Tail(queue)) /\ taken \notin Elements(Tail(queue))
    BY <1>1, <1>2, HeadTaken
  <1>4. IsFiniteSet(loose)
    <2>1. loose \in SUBSET Nodes
      BY DEF G!Out
    <2> QED
      BY <2>1, SearchAssumption, FS_Subset
  <1>5. freed \in Seq(loose) /\ Elements(freed) = loose /\ NoneTwice(freed)
    BY <1>1, <1>4, OrdersAre
  <1>6. /\ result' \in Seq(chosen) /\ Elements(result') = before \union {taken} /\ NoneTwice(result')
        /\ taken \notin before
    BY <1>1, <1>2, <1>3, Appended
  <1>7. \A n : (Ahead(n))' = Ahead(n) /\ (n \in G!Out(taken) /\ n \in chosen => taken \in Ahead(n)) /\ (n \in chosen /\ taken \in Ahead(n) => n \in G!Out(taken))
    BY <1>3 DEF Ahead, G!Into, G!Out
  <1> HIDE DEF taken, before, waiting
  <1>8. \A n \in chosen : lower[n] = Cardinality(Ahead(n) \ (before \union {taken}))
    BY <1>2, <1>6, <1>7, AheadCounted
  <1>9. \A n \in chosen : lower[n] = 0 <=> Ahead(n) \subseteq before \union {taken}
    BY <1>8, AheadCounted
  <1>10. loose = {n \in chosen : taken \in Ahead(n) /\ Ahead(n) \subseteq before \union {taken}}
    BY <1>7, <1>9
  <1> HIDE DEF lower, loose
  <1>11. \A n \in loose : n \notin waiting /\ n \notin before
    BY <1>2, <1>6, <1>10
  <1>12. freed \in Seq(chosen)
    BY <1>5, <1>10
  <1>13. /\ queue' \in Seq(chosen) /\ Elements(queue') = Elements(Tail(queue)) \union loose /\ NoneTwice(queue')
    <2>1. Elements(Tail(queue)) \intersect Elements(freed) = {}
      BY <1>3, <1>5, <1>11
    <2>2. /\ Tail(queue) \o freed \in Seq(chosen)
          /\ Elements(Tail(queue) \o freed) = Elements(Tail(queue)) \union Elements(freed)
          /\ NoneTwice(Tail(queue) \o freed)
      <3> DEFINE rest == Tail(queue)
      <3>1. rest \in Seq(chosen) /\ NoneTwice(rest) /\ Elements(rest) \intersect Elements(freed) = {}
        BY <1>3, <2>1
      <3> HIDE DEF rest
      <3>2. rest \o freed \in Seq(chosen) /\ Elements(rest \o freed) = Elements(rest) \union Elements(freed)
        BY <1>12, <3>1, Joined
      <3>3. NoneTwice(rest \o freed)
        BY <1>5, <1>12, <3>1, Joined
      <3> QED
        BY <3>2, <3>3 DEF rest
    <2> QED
      BY <1>1, <1>5, <2>2
  <1>14. \A n \in chosen : Ahead(n) \subseteq before \union {taken} <=> n \in Elements(queue') \union Elements(result')
    <2> SUFFICES ASSUME NEW n \in chosen
                 PROVE  Ahead(n) \subseteq before \union {taken} <=> n \in waiting \union loose \union before
      BY <1>3, <1>6, <1>13
    <2> QED
      BY <1>2, <1>10
  <1>15. \A j \in 1 .. Len(result') : Ahead(result'[j]) \subseteq {result'[i] : i \in 1 .. j - 1}
    <2> SUFFICES ASSUME NEW j \in 1 .. Len(result')
                 PROVE  Ahead(result'[j]) \subseteq {result'[i] : i \in 1 .. j - 1}
      OBVIOUS
    <2>1. /\ Len(result') = Len(result) + 1 /\ result'[Len(result) + 1] = taken /\ Len(result) \in Nat
          /\ \A i \in 1 .. Len(result) : result'[i] = result[i]
      BY <1>1, <1>2, <1>3
    <2>2. {result'[i] : i \in 1 .. j - 1} = {result[i] : i \in 1 .. j - 1}
      BY <2>1
    <2>3. CASE j = Len(result) + 1
      <3>1. Ahead(taken) \subseteq before
        BY <1>2, <1>3
      <3>2. before = {result[i] : i \in 1 .. j - 1}
        BY <2>1, <2>3 DEF before, Elements
      <3> QED
        BY <2>1, <2>2, <2>3, <3>1, <3>2
    <2>4. CASE j # Len(result) + 1
      <3>1. j \in 1 .. Len(result)
        BY <2>1, <2>4
      <3> QED
        BY <1>2, <2>1, <2>2, <3>1
    <2> QED
      BY <2>3, <2>4
  <1>16. degree' = [n \in chosen |-> Cardinality(Ahead(n) \ Elements(result'))]
    <2>1. degree' = [n \in chosen |-> lower[n]]
      BY <1>1 DEF lower
    <2> QED
      BY <1>6, <1>8, <2>1
  <1>17. Elements(queue') \intersect Elements(result') = {}
    BY <1>2, <1>3, <1>6, <1>11, <1>13
  <1>18. /\ chosen' = chosen
        /\ (\A n \in chosen : Ahead(n) \subseteq Elements(result) <=> Ready(n, queue, result))'
        /\ (\A j \in 1 .. Len(result) : Ahead(result[j]) \subseteq {result[i] : i \in 1 .. j - 1})'
        /\ (degree = [n \in chosen |-> Cardinality(Ahead(n) \ Elements(result))])'
    BY <1>6, <1>7, <1>14, <1>15, <1>16 DEF Ready
  <1> QED
    BY <1>6, <1>13, <1>17, <1>18 DEF SortInv

LEMMA SortInit ==
  ASSUME chosen \subseteq Nodes, G!Init, job = "sort"
  PROVE  SortInv
  <1>1. /\ result = <<>> /\ degree = G!InDegree /\ queue \in G!Orders({n \in chosen : degree[n] = 0})
    BY DEF G!Init
  <1>2. \A n \in chosen : degree[n] = Cardinality(Ahead(n))
    BY <1>1, SameCount DEF G!InDegree, Ahead
  <1>3. degree = [n \in chosen |-> Cardinality(Ahead(n) \ {})]
    <2>1. \A n : Ahead(n) \ {} = Ahead(n)
      OBVIOUS
    <2> QED
      BY <1>1, <1>2, <2>1 DEF G!InDegree
  <1> DEFINE free == {n \in chosen : degree[n] = 0}
  <1>4. free = {n \in chosen : Ahead(n) \subseteq {}}
    <2>1. \A n : Cardinality(Ahead(n) \ {}) = 0 <=> Ahead(n) \subseteq {}
      <3> DEFINE none == {}
      <3> HIDE DEF none
      <3>1. \A n : Cardinality(Ahead(n) \ none) = 0 <=> Ahead(n) \subseteq none
        BY AheadCounted
      <3> QED
        BY <3>1 DEF none
    <2>2. \A n \in chosen : degree[n] = Cardinality(Ahead(n) \ {})
      BY <1>3
    <2> QED
      BY <2>1, <2>2
  <1>5. IsFiniteSet(free)
    <2>1. free \in SUBSET Nodes
      OBVIOUS
    <2> QED
      BY <2>1, SearchAssumption, FS_Subset
  <1>6. queue \in Seq(free) /\ Elements(queue) = free /\ NoneTwice(queue)
    BY <1>1, <1>5, OrdersAre
  <1>7. Elements(result) = {} /\ NoneTwice(result) /\ result \in Seq(chosen) /\ Len(result) = 0
    BY <1>1 DEF Elements, NoneTwice
  <1>8. queue \in Seq(chosen)
    BY <1>6
  <1> HIDE DEF free
  <1> QED
    BY <1>3, <1>4, <1>6, <1>7, <1>8 DEF SortInv, Ready

(* In a family of subsets of a finite set there is one that has no other in *)
(* it; so some index of a finite sequence is the last of its kind.          *)
LEMMA Smallest ==
  ASSUME NEW X, IsFiniteSet(X), NEW Family \in SUBSET SUBSET X, Family # {}
  PROVE  \E M \in Family : \A N \in Family : N \subseteq M => N = M
  <1>1. IsWellFoundedOn(StrictSubsetOrdering(X), SUBSET X)
    BY FS_StrictSubsetOrderingWellFounded, FS_FiniteSubsetsOfFinite
  <1>2. \E M \in Family : \A N \in Family : ~ (<<N, M>> \in StrictSubsetOrdering(X))
    BY <1>1, WFMin
  <1> QED
    BY <1>2 DEF StrictSubsetOrdering

LEMMA Greatest ==
  ASSUME NEW X, IsFiniteSet(X), X # {}, \A x \in X : x \in Nat
  PROVE  \E j \in X : \A k \in X : k <= j
  <1> DEFINE from(j) == {k \in X : k >= j}
             Family == {from(j) : j \in X}
  <1>1. Family \in SUBSET SUBSET X /\ Family # {}
    OBVIOUS
  <1>2. \A k \in X : from(k) \in Family
    OBVIOUS
  <1>3. \A M \in Family : \E j \in X : M = from(j)
    OBVIOUS
  <1>4. PICK M \in Family : \A N \in Family : N \subseteq M => N = M
    <2> HIDE DEF Family
    <2> QED
      BY <1>1, Smallest
  <1>5. PICK j \in X : M = from(j)
    BY <1>3
  <1>6. ASSUME NEW k \in X PROVE k <= j
    <2> SUFFICES ASSUME k > j PROVE FALSE
      OBVIOUS
    <2>1. from(k) \in Family
      BY <1>2
    <2>2. from(k) \subseteq from(j)
      <3> SUFFICES ASSUME NEW m \in X, m >= k PROVE m >= j
        OBVIOUS
      <3>1. j \in Nat /\ k \in Nat /\ m \in Nat
        OBVIOUS
      <3> QED
        BY <3>1
    <2>3. j \in from(j) /\ j \notin from(k)
      OBVIOUS
    <2> HIDE DEF from, Family
    <2> QED
      BY <1>4, <1>5, <2>1, <2>2, <2>3
  <1> QED
    BY <1>6

LEMMA LastOfKind ==
  ASSUME NEW n \in Nat, NEW I, I \subseteq 1 .. n, I # {}
  PROVE  \E j \in I : \A k \in I : k <= j
  <1>1. IsFiniteSet(1 .. n)
    <2>1. 1 \in Int /\ n \in Int
      OBVIOUS
    <2> QED
      BY <2>1, FS_Interval
  <1>2. IsFiniteSet(I)
    <2> DEFINE X == 1 .. n
    <2>1. IsFiniteSet(X) /\ I \in SUBSET X
      BY <1>1
    <2> HIDE DEF X
    <2> QED
      BY <2>1, FS_Subset
  <1>3. \A i \in I : i \in Nat
    OBVIOUS
  <1> QED
    BY <1>2, <1>3, Greatest

(* Where every node has one of the others before it, going back never ends, *)
(* so some of them form a cycle.                                            *)
LEMMA NoWayBack ==
  ASSUME NEW X, X \subseteq Nodes, X # {}, \A n \in X : G!Into(n) \intersect X # {}
  PROVE  \E M \in (SUBSET X) \ {{}} : \A n \in M : G!Out(n) \intersect M # {}
  <1> DEFINE Closed(M) == M # {} /\ \A n \in M : G!Into(n) \intersect M # {}
             Family == {M \in SUBSET X : Closed(M)}
  <1>1. IsFiniteSet(X)
    BY SearchAssumption, FS_Subset
  <1>2. Family \in SUBSET SUBSET X /\ Family # {}
    <2>1. X \in Family
      OBVIOUS
    <2> QED
      BY <2>1
  <1>3. PICK M \in Family : \A N \in Family : N \subseteq M => N = M
    <2> HIDE DEF Family
    <2> QED
      BY <1>1, <1>2, Smallest
  <1>4. ASSUME NEW n \in M, G!Out(n) \intersect M = {} PROVE FALSE
    <2>1. \A m \in M : n \notin G!Into(m)
      BY <1>3, <1>4 DEF G!Into, G!Out
    <2>2. \A m \in M \ {n} : G!Into(m) \intersect (M \ {n}) # {}
      BY <1>3, <2>1
    <2>3. M \ {n} # {}
      BY <1>3, <2>1
    <2>4. M \ {n} \in Family
      BY <1>3, <2>2, <2>3
    <2> QED
      BY <1>3, <2>4
  <1> QED
    BY <1>3, <1>4

LEMMA SortSafe ==
  ASSUME SortInv, chosen \subseteq Nodes
  PROVE  /\ G!IsInjective(result)
         /\ \A j \in DOMAIN result : G!Into(result[j]) \intersect chosen \subseteq {result[i] : i \in 1 .. j - 1}
         /\ queue = <<>> => (G!ToSet(result) # chosen <=> G!Cyclic)
  <1>1. result \in Seq(chosen) /\ DOMAIN result = 1 .. Len(result) /\ Len(result) \in Nat
    BY DEF SortInv
  <1>2. G!IsInjective(result)
    BY <1>1 DEF SortInv, NoneTwice, G!IsInjective
  <1>3. G!ToSet(result) = Elements(result) /\ Elements(result) \subseteq chosen
    BY <1>1 DEF G!ToSet, Elements
  <1>4. ASSUME queue = <<>>, Elements(result) # chosen PROVE G!Cyclic
    <2> DEFINE left == chosen \ Elements(result)
    <2>1. left \subseteq Nodes /\ left # {}
      BY <1>3, <1>4
    <2>2. Elements(queue) = {}
      BY <1>4 DEF Elements
    <2>3. \A n \in left : ~(Ahead(n) \subseteq Elements(result))
      BY <2>2 DEF SortInv, Ready
    <2>4. \A n \in left : G!Into(n) \intersect left # {}
      BY <2>3 DEF Ahead
    <2>5. PICK M \in (SUBSET left) \ {{}} : \A n \in M : G!Out(n) \intersect M # {}
      <3> HIDE DEF left
      <3> QED
        BY <2>1, <2>4, NoWayBack
    <2> QED
      BY <2>5 DEF G!Cyclic
  <1>5. ASSUME G!Cyclic, Elements(result) = chosen PROVE FALSE
    <2>1. PICK M \in (SUBSET chosen) \ {{}} : \A n \in M : G!Out(n) \intersect M # {}
      BY <1>5 DEF G!Cyclic
    <2> DEFINE I == {i \in 1 .. Len(result) : result[i] \in M}
    <2>2. I # {}
      <3>1. M # {} /\ M \subseteq Elements(result)
        <4>1. M # {}
          BY <2>1
        <4>2. M \subseteq chosen
          BY <2>1
        <4> QED
          BY <1>5, <4>1, <4>2
      <3>2. PICK m \in M : m \in Elements(result)
        BY <3>1
      <3> QED
        BY <3>2 DEF Elements
    <2>3. PICK j \in I : \A k \in I : k <= j
      <3>1. I \subseteq 1 .. Len(result)
        OBVIOUS
      <3> HIDE DEF I
      <3> QED
        BY <1>1, <2>2, <3>1, LastOfKind
    <2>4. PICK m \in G!Out(result[j]) : m \in M
      BY <2>1
    <2>5. PICK k \in 1 .. Len(result) : m = result[k]
      BY <1>5, <2>1, <2>4 DEF Elements
    <2>6. k <= j
      BY <2>3, <2>4, <2>5
    <2>7. result[j] \in Ahead(result[k])
      BY <2>1, <2>3, <2>4, <2>5 DEF Ahead, G!Out, G!Into
    <2>8. PICK i \in 1 .. k - 1 : result[i] = result[j]
      <3>1. Ahead(result[k]) \subseteq {result[i] : i \in 1 .. k - 1}
        BY <2>5 DEF SortInv
      <3> QED
        BY <2>7, <3>1
    <2> QED
      BY <1>1, <2>3, <2>5, <2>6, <2>8 DEF SortInv, NoneTwice
  <1>6. \A j \in DOMAIN result : G!Into(result[j]) \intersect chosen \subseteq {result[i] : i \in 1 .. j - 1}
    BY <1>1 DEF SortInv, Ahead
  <1> QED
    BY <1>2, <1>3, <1>4, <1>5, <1>6

------------------------------------------------------------------------------
(* The stack of calls                                                        *)
Colors == {"white", "gray", "black"}
Frames == [node : Nodes, level : Nat, todo : SUBSET Nodes, longest : Seq(Nodes)]

(* Indices, and which of them are in range.                                 *)
LEMMA Within ==
  ASSUME NEW l \in Nat
  PROVE  /\ \A i \in 1 .. l + 1 : i = l + 1 \/ i \in 1 .. l
         /\ \A i \in 1 .. l : i \in 1 .. l + 1 /\ i # l + 1
         /\ \A i \in 1 .. l - 1 : i \in 1 .. l /\ i + 1 \in 1 .. l /\ i # l
         /\ \A i \in 1 .. l : i = l \/ i \in 1 .. l - 1
         /\ \A i \in 1 .. l - 1 : i = l - 1 \/ i \in 1 .. l - 2
         /\ \A i \in 1 .. (l - 1) - 1 : i \in 1 .. l - 1 /\ i + 1 \in 1 .. l - 1 /\ i # l - 1
         /\ l + 1 \in 1 .. l + 1 /\ l + 1 \in Nat
         /\ l # 0 => l \in 1 .. l /\ 1 \in 1 .. l /\ (l = 1 \/ l > 1) /\ l - 1 \in Nat
         /\ l > 1 => l - 1 \in 1 .. l /\ l - 1 \in 1 .. l - 1 /\ 1 \in 1 .. l - 1
  BY SMTT(30)

LEMMA FollowIs ==
  ASSUME stack \in Seq(Frames), stack # <<>>, NEW d
  PROVE  /\ Len(stack) \in Nat \ {0} /\ G!Top = stack[Len(stack)] /\ G!Top \in Frames
         /\ G!Follow(d) \in Seq(Frames) /\ Len(G!Follow(d)) = Len(stack)
         /\ \A i \in 1 .. Len(stack) :
              /\ G!Follow(d)[i].node = stack[i].node /\ G!Follow(d)[i].level = stack[i].level
              /\ G!Follow(d)[i].longest = stack[i].longest
              /\ G!Follow(d)[i].todo = IF i = Len(stack) THEN stack[i].todo \ {d} ELSE stack[i].todo
  <1> DEFINE l == Len(stack)
             top == stack[l]
             after == [top EXCEPT !.todo = @ \ {d}]
  <1>1. l \in Nat \ {0} /\ top \in Frames
    OBVIOUS
  <1>2. after \in Frames /\ after.node = top.node /\ after.level = top.level /\ after.longest = top.longest
        /\ after.todo = top.todo \ {d}
    BY <1>1 DEF Frames
  <1>3. G!Follow(d) = [stack EXCEPT ![l] = after] /\ G!Top = top
    BY DEF G!Follow, G!Top, G!Last, G!ReplaceAt
  <1> HIDE DEF after
  <1>4. /\ G!Follow(d) \in Seq(Frames) /\ Len(G!Follow(d)) = l
        /\ \A i \in 1 .. l : G!Follow(d)[i] = IF i = l THEN after ELSE stack[i]
    BY <1>1, <1>2, <1>3
  <1> QED
    BY <1>1, <1>2, <1>3, <1>4

LEMMA PushIs ==
  ASSUME NEW calls \in Seq(Frames), NEW n \in Nodes, NEW level \in Nat, NEW todo \in SUBSET Nodes, G!Enter(calls, n, level, todo)
  PROVE  /\ stack' \in Seq(Frames) /\ Len(stack') = Len(calls) + 1 /\ Len(calls) \in Nat /\ stack' # <<>>
         /\ \A i \in 1 .. Len(calls) : stack'[i] = calls[i]
         /\ stack'[Len(calls) + 1].node = n /\ stack'[Len(calls) + 1].level = level
         /\ stack'[Len(calls) + 1].todo = todo /\ stack'[Len(calls) + 1].longest = <<>>
         /\ color' = [color EXCEPT ![n] = "gray"]
  <1>1. G!Frame(n, level, todo) \in Frames
    BY DEF Frames, G!Frame
  <1>2. stack' = Append(calls, G!Frame(n, level, todo))
    BY DEF G!Enter
  <1>3. /\ stack' \in Seq(Frames) /\ Len(stack') = Len(calls) + 1 /\ Len(calls) \in Nat
        /\ \A i \in 1 .. Len(calls) : stack'[i] = calls[i]
        /\ stack'[Len(calls) + 1] = G!Frame(n, level, todo)
    BY <1>1, <1>2
  <1> QED
    BY <1>3 DEF G!Frame, G!Enter

LEMMA PopIs ==
  ASSUME stack \in Seq(Frames), stack # <<>>, stack' = G!Front(stack)
  PROVE  /\ stack' \in Seq(Frames) /\ Len(stack') = Len(stack) - 1 /\ Len(stack) \in Nat \ {0}
         /\ \A i \in 1 .. Len(stack) - 1 : stack'[i] = stack[i]
  <1> DEFINE l == Len(stack)
             s == SubSeq(stack, 1, l - 1)
  <1>1. l \in Nat \ {0} /\ stack' = s
    BY DEF G!Front
  <1>2. /\ s \in Seq(Frames) /\ Len(s) = l - 1
        /\ \A i \in 1 .. l - 1 : s[i] = stack[i]
    <2>1. s \in Seq(Frames)
      BY <1>1
    <2>2. Len(s) = l - 1
      <3>1. CASE l = 1
        BY <1>1, <3>1
      <3>2. CASE l > 1
        BY <1>1, <3>2
      <3> HIDE DEF l, s
      <3>3. l = 1 \/ l > 1
        BY <1>1, Within
      <3> QED
        BY <3>1, <3>2, <3>3
    <2>3. \A i \in 1 .. l - 1 : s[i] = stack[i]
      BY <1>1
    <2> QED
      BY <2>1, <2>2, <2>3
  <1> HIDE DEF s
  <1> QED
    BY <1>1, <1>2

------------------------------------------------------------------------------
(* impact_analysis: a call has the level at which its node was listed, and   *)
(* what the root has not followed yet is all that is missing from its        *)
(* dependents.                                                               *)
ImpactInv ==
  /\ stack \in Seq(Frames) /\ color \in [Nodes -> Colors]
  /\ levels \in [DOMAIN levels -> 0 .. Depth] /\ DOMAIN levels \subseteq Nodes
  /\ \A n \in Nodes : color[n] # "white" <=> n \in DOMAIN levels
  /\ \A i \in 1 .. Len(stack) :
       /\ stack[i].node \in DOMAIN levels /\ levels[stack[i].node] = stack[i].level
       /\ stack[i].todo \subseteq G!Into(stack[i].node)
  /\ \A n \in DOMAIN levels : levels[n] = 0 \/ \E m \in G!Out(n) \intersect DOMAIN levels : levels[m] = levels[n] - 1
  /\ \A n, m \in chosen : n = m
  /\ \A n \in chosen :
       /\ stack # <<>> => stack[1].node = n /\ stack[1].level = 0 /\ G!Into(n) \subseteq stack[1].todo \union DOMAIN levels
       /\ stack = <<>> /\ DOMAIN levels # {} => G!Into(n) \subseteq DOMAIN levels

LEMMA ImpactStep ==
  ASSUME ImpactInv, chosen \subseteq Nodes, UNCHANGED <<edges, chosen>>, G!ImpactStep
  PROVE  ImpactInv'
  <1> USE DEF ImpactInv
  <1>0. /\ \A n : (G!Into(n))' = G!Into(n) /\ (G!Out(n))' = G!Out(n)
        /\ \A n : G!Into(n) \subseteq Nodes
        /\ chosen' = chosen
    BY DEF G!Into, G!Out
  <1>1. ASSUME stack = <<>>, levels = <<>>, NEW n \in chosen, G!Collect(<<>>, n, 0) PROVE ImpactInv'
    <2>1. DOMAIN levels = {}
      BY <1>1
    <2>2. G!Enter(<<>>, n, 0, G!Into(n)) /\ levels' = G!Assign(levels, n, 0)
      BY <1>1, <2>1, SearchAssumption DEF G!Collect
    <2>3. DOMAIN levels' = {n} /\ levels'[n] = 0
      BY <2>1, <2>2 DEF G!Assign
    <2>4. /\ stack' \in Seq(Frames) /\ Len(stack') = 1 /\ stack' # <<>>
          /\ stack'[1].node = n /\ stack'[1].level = 0 /\ stack'[1].todo = G!Into(n)
          /\ color' = [color EXCEPT ![n] = "gray"]
      <3> DEFINE none == <<>>
      <3>1. none \in Seq(Frames) /\ Len(none) = 0 /\ n \in Nodes /\ G!Into(n) \in SUBSET Nodes /\ G!Enter(none, n, 0, G!Into(n))
        BY <1>0, <2>2
      <3> HIDE DEF none, ImpactInv
      <3>2. /\ stack' \in Seq(Frames) /\ Len(stack') = Len(none) + 1 /\ stack' # <<>>
            /\ stack'[Len(none) + 1].node = n /\ stack'[Len(none) + 1].level = 0
            /\ stack'[Len(none) + 1].todo = G!Into(n) /\ color' = [color EXCEPT ![n] = "gray"]
        <4> DEFINE todo == G!Into(n)
        <4>1. todo \in SUBSET Nodes /\ 0 \in Nat /\ n \in Nodes /\ none \in Seq(Frames) /\ G!Enter(none, n, 0, todo)
          BY <3>1
        <4> HIDE DEF todo
        <4>2. /\ stack' \in Seq(Frames) /\ Len(stack') = Len(none) + 1 /\ stack' # <<>>
              /\ stack'[Len(none) + 1].node = n /\ stack'[Len(none) + 1].level = 0
              /\ stack'[Len(none) + 1].todo = todo /\ color' = [color EXCEPT ![n] = "gray"]
          BY <4>1, PushIs
        <4> QED
          BY <4>2 DEF todo
      <3> QED
        BY <3>1, <3>2
    <2>5. color' \in [Nodes -> Colors] /\ \A m \in Nodes : color'[m] # "white" <=> m = n
      BY <2>1, <2>4 DEF Colors
    <2>6. levels' \in [DOMAIN levels' -> 0 .. Depth] /\ DOMAIN levels' \subseteq Nodes
      BY <2>2, <2>3, SearchAssumption DEF G!Assign
    <2> QED
      BY <1>0, <2>3, <2>4, <2>5, <2>6
  <1>2. ASSUME stack # <<>>, NEW d \in G!Top.todo, G!Collect(G!Follow(d), d, G!Top.level + 1) PROVE ImpactInv'
    <2> DEFINE l == Len(stack)
               calls == G!Follow(d)
               level == stack[l].level + 1
    <2>1. /\ l \in Nat \ {0} /\ G!Top = stack[l] /\ stack[l] \in Frames
          /\ calls \in Seq(Frames) /\ Len(calls) = l
          /\ \A i \in 1 .. l :
              /\ calls[i].node = stack[i].node /\ calls[i].level = stack[i].level
              /\ calls[i].todo = IF i = l THEN stack[i].todo \ {d} ELSE stack[i].todo
      <3>1. stack \in Seq(Frames) /\ stack # <<>>
        BY <1>2
      <3> HIDE DEF ImpactInv
      <3> QED
        BY <3>1, FollowIs
    <2>2. d \in stack[l].todo /\ d \in Nodes /\ d \in G!Into(stack[l].node) /\ level \in Nat /\ levels[stack[l].node] = level - 1
          /\ stack[l].node \in DOMAIN levels
      <3>1. /\ stack[l].node \in DOMAIN levels /\ levels[stack[l].node] = stack[l].level
            /\ stack[l].todo \subseteq G!Into(stack[l].node)
        BY <2>1
      <3> HIDE DEF ImpactInv
      <3>2. stack[l].todo \subseteq Nodes /\ stack[l].level \in Nat
        BY <2>1 DEF Frames
      <3>3. d \in stack[l].todo
        BY <1>2, <2>1
      <3> QED
        BY <3>1, <3>2, <3>3
    <2> HIDE DEF calls, level
    <2>3. CASE level > Depth \/ color[d] # "white"
      <3>1. stack' = calls /\ UNCHANGED <<color, levels>>
        BY <1>2, <2>1, <2>3 DEF G!Collect, calls, level
      <3>2. \A n \in chosen : stack'[1].node = n /\ stack'[1].level = 0 /\ G!Into(n) \subseteq stack'[1].todo \union DOMAIN levels'
        <4> SUFFICES ASSUME NEW n \in chosen PROVE stack'[1].node = n /\ stack'[1].level = 0 /\ G!Into(n) \subseteq stack'[1].todo \union DOMAIN levels
          BY <3>1
        <4>1. stack[1].node = n /\ stack[1].level = 0 /\ G!Into(n) \subseteq stack[1].todo \union DOMAIN levels /\ 1 \in 1 .. l
          BY <1>2, <2>1
        <4>2. stack'[1].node = n /\ stack'[1].level = 0
          BY <2>1, <3>1, <4>1
        <4>3. CASE l = 1
          <5>1. level = 1
            BY <4>1, <4>3 DEF level
          <5>2. d \in DOMAIN levels
            BY <2>2, <2>3, <5>1, SearchAssumption
          <5>3. stack'[1].todo = stack[1].todo \ {d}
            BY <2>1, <3>1, <4>1, <4>3
          <5> QED
            BY <4>1, <4>2, <5>2, <5>3
        <4>4. CASE l # 1
          BY <2>1, <3>1, <4>1, <4>2, <4>4
        <4> QED
          BY <4>3, <4>4
      <3>3. stack' # <<>> /\ Len(stack') = l /\ stack' \in Seq(Frames)
        BY <2>1, <3>1
      <3>4. \A i \in 1 .. Len(stack') :
              /\ stack'[i].node \in DOMAIN levels' /\ levels'[stack'[i].node] = stack'[i].level
              /\ stack'[i].todo \subseteq G!Into(stack'[i].node)
        <4> SUFFICES ASSUME NEW i \in 1 .. l
                     PROVE  /\ stack'[i].node \in DOMAIN levels /\ levels[stack'[i].node] = stack'[i].level
                            /\ stack'[i].todo \subseteq G!Into(stack'[i].node)
          BY <3>1, <3>3
        <4>1. /\ stack[i].node \in DOMAIN levels /\ levels[stack[i].node] = stack[i].level
              /\ stack[i].todo \subseteq G!Into(stack[i].node)
          OBVIOUS
        <4> HIDE DEF ImpactInv
        <4>2. /\ stack'[i].node = stack[i].node /\ stack'[i].level = stack[i].level
              /\ stack'[i].todo \subseteq stack[i].todo
          BY <2>1, <3>1
        <4> QED
          BY <4>1, <4>2
      <3> QED
        BY <1>0, <3>1, <3>2, <3>3, <3>4
    <2>4. CASE ~(level > Depth \/ color[d] # "white")
      <3>1. G!Enter(calls, d, level, G!Into(d)) /\ levels' = G!Assign(levels, d, level)
        BY <1>2, <2>1, <2>4 DEF G!Collect, calls, level
      <3>2. /\ stack' \in Seq(Frames) /\ Len(stack') = l + 1 /\ stack' # <<>>
            /\ \A i \in 1 .. l : stack'[i] = calls[i]
            /\ stack'[l + 1].node = d /\ stack'[l + 1].level = level /\ stack'[l + 1].todo = G!Into(d)
            /\ color' = [color EXCEPT ![d] = "gray"]
        BY <1>0, <2>1, <2>2, <3>1, PushIs
      <3>3. /\ DOMAIN levels' = DOMAIN levels \union {d} /\ levels'[d] = level
            /\ \A n \in DOMAIN levels : n # d /\ levels'[n] = levels[n]
            /\ levels' \in [DOMAIN levels' -> 0 .. Depth]
        <4>1. d \notin DOMAIN levels
          BY <2>2, <2>4
        <4>2. level \in 0 .. Depth
          BY <2>2, <2>4, SearchAssumption
        <4> QED
          BY <3>1, <4>1, <4>2 DEF G!Assign
      <3>4. /\ color' \in [Nodes -> Colors] /\ \A n \in Nodes : color'[n] # "white" <=> n \in DOMAIN levels'
        BY <2>2, <3>2, <3>3 DEF Colors
      <3>5. \A i \in 1 .. Len(stack') :
              /\ stack'[i].node \in DOMAIN levels' /\ levels'[stack'[i].node] = stack'[i].level
              /\ stack'[i].todo \subseteq G!Into(stack'[i].node)
        <4> SUFFICES ASSUME NEW i \in 1 .. l + 1
                     PROVE  /\ stack'[i].node \in DOMAIN levels' /\ levels'[stack'[i].node] = stack'[i].level
                            /\ stack'[i].todo \subseteq G!Into(stack'[i].node)
          BY <3>2
        <4>1. CASE i = l + 1
          BY <3>2, <3>3, <4>1
        <4>2. CASE i # l + 1
          <5>1. i \in 1 .. l /\ stack'[i] = calls[i] /\ calls[i].node = stack[i].node /\ calls[i].level = stack[i].level
                /\ calls[i].todo \subseteq stack[i].todo
            <6> HIDE DEF ImpactInv
            <6>1. i \in 1 .. l
              BY <2>1, <4>2
            <6> QED
              BY <2>1, <3>2, <6>1
          <5>2. stack[i].node \in DOMAIN levels /\ levels[stack[i].node] = stack[i].level /\ stack[i].todo \subseteq G!Into(stack[i].node)
            BY <5>1
          <5> QED
            BY <3>3, <5>1, <5>2
        <4> QED
          BY <4>1, <4>2
      <3>6. \A n \in DOMAIN levels' : levels'[n] = 0 \/ \E m \in G!Out(n) \intersect DOMAIN levels' : levels'[m] = levels'[n] - 1
        <4> SUFFICES ASSUME NEW n \in DOMAIN levels', levels'[n] # 0
                     PROVE  \E m \in G!Out(n) \intersect DOMAIN levels' : levels'[m] = levels'[n] - 1
          OBVIOUS
        <4>1. CASE n = d
          <5>1. stack[l].node \in G!Out(d) /\ levels'[stack[l].node] = level - 1
            BY <2>1, <2>2, <3>3 DEF G!Into, G!Out, Frames
          <5> QED
            BY <2>2, <3>3, <4>1, <5>1
        <4>2. CASE n # d
          <5>1. PICK m \in G!Out(n) \intersect DOMAIN levels : levels[m] = levels[n] - 1
            BY <3>3, <4>2
          <5> QED
            BY <3>3, <4>2, <5>1
        <4> QED
          BY <4>1, <4>2
      <3>7. \A n \in chosen : stack'[1].node = n /\ stack'[1].level = 0 /\ G!Into(n) \subseteq stack'[1].todo \union DOMAIN levels'
        <4>1. /\ 1 \in 1 .. l /\ stack'[1] = calls[1] /\ calls[1].node = stack[1].node /\ calls[1].level = stack[1].level
              /\ stack[1].todo \subseteq calls[1].todo \union {d}
          <5> HIDE DEF ImpactInv
          <5>1. 1 \in 1 .. l
            BY <2>1
          <5> QED
            BY <2>1, <3>2, <5>1
        <4>2. \A n \in chosen : stack[1].node = n /\ stack[1].level = 0 /\ G!Into(n) \subseteq stack[1].todo \union DOMAIN levels
          BY <1>2
        <4> QED
          BY <3>3, <4>1, <4>2
      <3> QED
        BY <1>0, <2>2, <3>2, <3>3, <3>4, <3>5, <3>6, <3>7
    <2> QED
      BY <2>3, <2>4
  <1>3. ASSUME stack # <<>>, G!Top.todo = {}, stack' = G!Front(stack), UNCHANGED <<color, levels>> PROVE ImpactInv'
    <2>1. /\ stack' \in Seq(Frames) /\ Len(stack') = Len(stack) - 1 /\ Len(stack) \in Nat \ {0}
          /\ \A i \in 1 .. Len(stack) - 1 : stack'[i] = stack[i]
      BY <1>3, PopIs
    <2>2. stack[Len(stack)].todo = {}
      BY <1>3 DEF G!Top, G!Last
    <2>3. stack' = <<>> <=> Len(stack) = 1
      BY <2>1
    <2>4. /\ \A i \in 1 .. Len(stack') :
              /\ stack'[i].node \in DOMAIN levels /\ levels[stack'[i].node] = stack'[i].level
              /\ stack'[i].todo \subseteq G!Into(stack'[i].node)
      BY <2>1
    <2>5. ASSUME NEW n \in chosen
          PROVE  /\ stack' # <<>> => stack'[1].node = n /\ stack'[1].level = 0 /\ G!Into(n) \subseteq stack'[1].todo \union DOMAIN levels
                 /\ stack' = <<>> => G!Into(n) \subseteq DOMAIN levels
      BY <1>3, <2>1, <2>2, <2>3
    <2> QED
      BY <1>0, <1>3, <2>1, <2>4, <2>5
  <1> QED
    BY <1>1, <1>2, <1>3 DEF G!ImpactStep

------------------------------------------------------------------------------
(* get_critical_path: what a call has brought back is a path that ends at a  *)
(* dependent of its node and that passes no call under way.                  *)
Walk(p) ==
  /\ p \in Seq(chosen) /\ NoneTwice(p)
  /\ \A k \in 1 .. Len(p) - 1 : p[k + 1] \in G!Into(p[k])
  /\ \A n \in Elements(p) : color[n] # "white"

Carried(i, calls) ==
  /\ calls[i].node \in chosen /\ color[calls[i].node] # "white"
  /\ calls[i].todo \subseteq G!Into(calls[i].node) \intersect chosen
  /\ Walk(calls[i].longest)
  /\ calls[i].longest # <<>> => calls[i].longest[1] \in G!Into(calls[i].node)
  /\ \A j \in 1 .. Len(calls) : calls[j].node \notin Elements(calls[i].longest)

CriticalInv ==
  /\ stack \in Seq(Frames) /\ color \in [Nodes -> Colors] /\ Walk(chain)
  /\ \A i \in 1 .. Len(stack) : Carried(i, stack)
  /\ \A i, j \in 1 .. Len(stack) : stack[i].node = stack[j].node => i = j
  /\ \A i \in 1 .. Len(stack) - 1 : stack[i + 1].node \in G!Into(stack[i].node)

LEMMA WalkOn ==
  ASSUME NEW n \in chosen, color[n] # "white", NEW p, Walk(p), p # <<>> => p[1] \in G!Into(n), n \notin Elements(p)
  PROVE  /\ Walk(<<n>> \o p) /\ (<<n>> \o p)[1] = n /\ (<<n>> \o p) # <<>>
         /\ Elements(<<n>> \o p) = {n} \union Elements(p)
  <1> DEFINE q == <<n>> \o p
             l == Len(p)
  <1>1. p \in Seq(chosen) /\ l \in Nat
    BY DEF Walk
  <1>2. /\ q \in Seq(chosen) /\ Len(q) = l + 1 /\ q[1] = n
        /\ \A i \in 1 .. l : q[i + 1] = p[i]
    BY <1>1
  <1> HIDE DEF q
  <1>3. \A i \in 2 .. l + 1 : i - 1 \in 1 .. l /\ q[i] = p[i - 1]
    <2> SUFFICES ASSUME NEW i \in 2 .. l + 1 PROVE i - 1 \in 1 .. l /\ q[i] = p[i - 1]
      OBVIOUS
    <2>1. i - 1 \in 1 .. l /\ i = (i - 1) + 1
      BY <1>1
    <2> QED
      BY <1>2, <2>1
  <1>4. Elements(q) = {n} \union Elements(p)
    <2>1. ASSUME NEW x \in Elements(q) PROVE x \in {n} \union Elements(p)
      <3>1. PICK i \in 1 .. l + 1 : x = q[i]
        BY <1>2 DEF Elements
      <3>2. CASE i = 1
        BY <1>2, <3>1, <3>2
      <3>3. CASE i # 1
        BY <1>1, <1>3, <3>1, <3>3 DEF Elements
      <3> QED
        BY <3>2, <3>3
    <2>2. ASSUME NEW x \in Elements(p) PROVE x \in Elements(q)
      <3>1. PICK i \in 1 .. l : x = p[i]
        BY DEF Elements
      <3>2. i + 1 \in 1 .. l + 1 /\ q[i + 1] = x
        BY <1>1, <1>2, <3>1
      <3> QED
        BY <1>2, <3>2 DEF Elements
    <2>3. n \in Elements(q)
      BY <1>1, <1>2 DEF Elements
    <2> QED
      BY <2>1, <2>2, <2>3
  <1>5. NoneTwice(q)
    <2>1. \A i \in 1 .. l : p[i] # n
      BY DEF Elements
    <2>2. \A i, j \in 1 .. l : p[i] = p[j] => i = j
      BY DEF Walk, NoneTwice
    <2>3. ASSUME NEW i \in 1 .. l + 1, NEW j \in 1 .. l + 1, q[i] = q[j] PROVE i = j
      <3>1. CASE i = 1 \/ j = 1
        BY <1>1, <1>2, <1>3, <2>1, <2>3, <3>1
      <3>2. CASE i # 1 /\ j # 1
        <4>1. i - 1 \in 1 .. l /\ j - 1 \in 1 .. l /\ p[i - 1] = p[j - 1]
          BY <1>1, <1>3, <2>3, <3>2
        <4> QED
          BY <1>1, <2>2, <4>1
      <3> QED
        BY <3>1, <3>2
    <2> QED
      BY <1>2, <2>3 DEF NoneTwice
  <1>6. ASSUME NEW k \in 1 .. l PROVE q[k + 1] \in G!Into(q[k])
    <2>1. q[k + 1] = p[k]
      BY <1>2
    <2>2. CASE k = 1
      <3>1. p # <<>>
        BY <1>1, <2>2
      <3> QED
        BY <1>2, <2>1, <2>2, <3>1
    <2>3. CASE k # 1
      <3>1. k - 1 \in 1 .. l - 1 /\ (k - 1) + 1 = k /\ q[k] = p[k - 1]
        BY <1>1, <1>3, <2>3
      <3> QED
        BY <2>1, <3>1 DEF Walk
    <2> QED
      BY <2>2, <2>3
  <1>7. \A m \in Elements(q) : color[m] # "white"
    BY <1>4 DEF Walk
  <1>8. q # <<>>
    BY <1>1, <1>2
  <1>9. Walk(q)
    BY <1>1, <1>2, <1>5, <1>6, <1>7 DEF Walk
  <1> QED
    BY <1>2, <1>4, <1>8, <1>9 DEF q

LEMMA ReturnIs ==
  ASSUME stack \in Seq(Frames), NEW l, l = Len(stack), l > 1, NEW f \in Frames, stack' = Append(SubSeq(stack, 1, l - 2), f)
  PROVE  /\ stack' \in Seq(Frames) /\ Len(stack') = l - 1 /\ l \in Nat
         /\ \A i \in 1 .. l - 2 : stack'[i] = stack[i]
         /\ stack'[l - 1] = f
  <1> DEFINE s == SubSeq(stack, 1, l - 2)
  <1>1. l \in Nat
    OBVIOUS
  <1>2. s \in Seq(Frames) /\ \A i \in 1 .. l - 2 : s[i] = stack[i]
    BY <1>1
  <1>3. Len(s) = l - 2
    <2>1. CASE l = 2
      BY <1>1, <2>1
    <2>2. CASE l > 2
      BY <1>1, <2>2
    <2> QED
      BY <1>1, <2>1, <2>2
  <1>4. stack' = Append(s, f)
    OBVIOUS
  <1> HIDE DEF s
  <1>5. /\ stack' \in Seq(Frames) /\ Len(stack') = Len(s) + 1 /\ stack'[Len(s) + 1] = f
        /\ \A i \in 1 .. Len(s) : stack'[i] = s[i]
    BY <1>2, <1>4
  <1> QED
    BY <1>1, <1>2, <1>3, <1>5

(* What a frame has stays as it was when its edges are followed and other   *)
(* nodes are entered.                                                       *)
LEMMA WalkStays ==
  ASSUME NEW p, Walk(p), UNCHANGED <<edges, chosen>>, \A n \in chosen : color[n] # "white" => color'[n] # "white"
  PROVE  Walk(p)'
  <1>1. Elements(p) \subseteq chosen
    BY DEF Walk, Elements
  <1> QED
    BY <1>1 DEF Walk, G!Into

LEMMA CriticalStep ==
  ASSUME CriticalInv, chosen \subseteq Nodes, UNCHANGED <<edges, chosen>>, G!CriticalStep
  PROVE  CriticalInv'
  <1> DEFINE l == Len(stack)
  <1>i. /\ stack \in Seq(Frames) /\ color \in [Nodes -> Colors] /\ Walk(chain) /\ l \in Nat
        /\ \A i \in 1 .. l : Carried(i, stack)
        /\ \A i, j \in 1 .. l : stack[i].node = stack[j].node => i = j
        /\ \A i \in 1 .. l - 1 : stack[i + 1].node \in G!Into(stack[i].node)
    BY DEF CriticalInv
  <1>0. /\ \A n : (G!Into(n))' = G!Into(n)
        /\ \A n : G!Into(n) \subseteq Nodes
        /\ chosen' = chosen
    BY DEF G!Into
  <1>1. ASSUME UNCHANGED chain,
               NEW calls \in Seq(Frames), NEW d \in chosen, color[d] = "white",
               Len(calls) = l, l # 0 => d \in G!Into(stack[l].node),
               \A i \in 1 .. l : /\ calls[i].node = stack[i].node /\ calls[i].longest = stack[i].longest
                                 /\ calls[i].todo \subseteq stack[i].todo,
               G!Enter(calls, d, 0, G!Into(d) \intersect chosen)
        PROVE  CriticalInv'
    <2>1. /\ stack' \in Seq(Frames) /\ Len(stack') = l + 1
          /\ \A i \in 1 .. l : stack'[i] = calls[i]
          /\ stack'[l + 1].node = d /\ stack'[l + 1].todo = G!Into(d) \intersect chosen /\ stack'[l + 1].longest = <<>>
          /\ color' = [color EXCEPT ![d] = "gray"]
      <3> DEFINE todo == G!Into(d) \intersect chosen
      <3>1. todo \in SUBSET Nodes /\ d \in Nodes /\ 0 \in Nat /\ G!Enter(calls, d, 0, todo)
        BY <1>0, <1>1
      <3> HIDE DEF todo
      <3>2. /\ stack' \in Seq(Frames) /\ Len(stack') = Len(calls) + 1
            /\ \A i \in 1 .. Len(calls) : stack'[i] = calls[i]
            /\ stack'[Len(calls) + 1].node = d /\ stack'[Len(calls) + 1].todo = todo /\ stack'[Len(calls) + 1].longest = <<>>
            /\ color' = [color EXCEPT ![d] = "gray"]
        BY <1>1, <3>1, PushIs
      <3> QED
        BY <1>1, <3>2 DEF todo
    <2>2. color' \in [Nodes -> Colors] /\ color'[d] # "white" /\ \A n \in chosen : color[n] # "white" => color'[n] # "white"
      BY <1>i, <1>1, <2>1 DEF Colors
    <2>3. Walk(chain)'
      BY <1>i, <1>0, <1>1, <2>2, WalkStays
    <2>4. \A i \in 1 .. l : stack'[i].node = stack[i].node /\ stack'[i].longest = stack[i].longest
                             /\ stack'[i].todo \subseteq stack[i].todo /\ d # stack[i].node
      BY <1>i, <1>1, <2>1 DEF Carried
    <2>5. ASSUME NEW i \in 1 .. l + 1 PROVE Carried(i, stack)'
      <3>1. CASE i = l + 1
        <4>1. Walk(<<>>)' /\ Elements(<<>>) = {}
          BY DEF Walk, NoneTwice, Elements
        <4> QED
          BY <1>0, <2>1, <2>2, <3>1, <4>1 DEF Carried
      <3>2. CASE i # l + 1
        <4>1. i \in 1 .. l
          BY <1>i, <3>2
        <4>2. /\ stack[i].node \in chosen /\ color[stack[i].node] # "white"
              /\ stack[i].todo \subseteq G!Into(stack[i].node) \intersect chosen
              /\ Walk(stack[i].longest)
              /\ stack[i].longest # <<>> => stack[i].longest[1] \in G!Into(stack[i].node)
              /\ \A j \in 1 .. l : stack[j].node \notin Elements(stack[i].longest)
          BY <1>i, <4>1 DEF Carried
        <4>3. Walk(stack[i].longest)'
          BY <1>0, <2>2, <2>4, <4>1, <4>2, WalkStays
        <4>4. d \notin Elements(stack[i].longest)
          BY <1>1, <4>2 DEF Walk
        <4>5. ASSUME NEW j \in 1 .. l + 1 PROVE stack'[j].node \notin Elements(stack'[i].longest)
          BY <1>i, <2>1, <2>4, <4>1, <4>2, <4>4
        <4>6. stack'[i].node = stack[i].node /\ stack'[i].longest = stack[i].longest /\ stack'[i].todo \subseteq stack[i].todo
          BY <2>4, <4>1
        <4> QED
          BY <1>0, <2>1, <2>2, <4>2, <4>3, <4>5, <4>6 DEF Carried
      <3> QED
        BY <3>1, <3>2
    <2>6. \A i, j \in 1 .. l + 1 : stack'[i].node = stack'[j].node => i = j
      <3>1. l \in Nat /\ \A i, j \in 1 .. l : stack[i].node = stack[j].node => i = j
        BY <1>i
      <3>2. \A i \in 1 .. l : stack'[i].node = stack[i].node /\ stack'[i].node # d
        BY <2>4
      <3>3. \A i \in 1 .. l + 1 : i = l + 1 \/ i \in 1 .. l
        BY <3>1, Within
      <3> HIDE DEF l
      <3> QED
        BY <2>1, <3>1, <3>2, <3>3
    <2>7. ASSUME NEW i \in 1 .. l PROVE stack'[i + 1].node \in G!Into(stack'[i].node)
      <3>1. CASE i = l
        BY <1>1, <2>1, <2>4, <3>1
      <3>2. CASE i # l
        <4>1. i \in 1 .. l - 1 /\ i + 1 \in 1 .. l
          BY <1>i, <3>2
        <4> QED
          BY <1>i, <2>4, <4>1
      <3> QED
        BY <3>1, <3>2
    <2> QED
      BY <1>i, <1>0, <2>1, <2>2, <2>3, <2>5, <2>6, <2>7 DEF CriticalInv
  <1>2. ASSUME stack = <<>>, UNCHANGED chain, NEW n \in chosen, color[n] = "white", G!Enter(<<>>, n, 0, G!Into(n) \intersect chosen)
        PROVE  CriticalInv'
    <2> DEFINE none == <<>>
    <2>1. none \in Seq(Frames) /\ Len(none) = 0 /\ l = 0 /\ G!Enter(none, n, 0, G!Into(n) \intersect chosen)
      BY <1>2
    <2> HIDE DEF none, l
    <2>2. /\ Len(none) = l /\ (l # 0 => n \in G!Into(stack[l].node))
          /\ \A i \in 1 .. l : /\ none[i].node = stack[i].node /\ none[i].longest = stack[i].longest
                                /\ none[i].todo \subseteq stack[i].todo
      BY <2>1
    <2> QED
      BY <1>1, <1>2, <2>1, <2>2
  <1>3. ASSUME stack # <<>>, UNCHANGED chain, NEW d \in G!Top.todo
        PROVE  /\ color[d] = "white" /\ G!Enter(G!Follow(d), d, 0, G!Into(d) \intersect chosen) => CriticalInv'
               /\ color[d] # "white" /\ stack' = G!Follow(d) /\ UNCHANGED color => CriticalInv'
    <2> DEFINE calls == G!Follow(d)
    <2>1. /\ l \in Nat \ {0} /\ G!Top = stack[l]
          /\ calls \in Seq(Frames) /\ Len(calls) = l
          /\ \A i \in 1 .. l :
              /\ calls[i].node = stack[i].node /\ calls[i].longest = stack[i].longest
              /\ calls[i].todo = IF i = l THEN stack[i].todo \ {d} ELSE stack[i].todo
      <3>1. stack \in Seq(Frames) /\ stack # <<>>
        BY <1>i, <1>3
      <3> QED
        BY <3>1, FollowIs, ZenonT(40)
    <2>2. d \in chosen /\ d \in G!Into(stack[l].node)
      <3>1. d \in stack[l].todo /\ Carried(l, stack)
        BY <1>i, <1>3, <2>1
      <3> QED
        BY <3>1 DEF Carried
    <2>3. \A i \in 1 .. l : /\ calls[i].node = stack[i].node /\ calls[i].longest = stack[i].longest
                             /\ calls[i].todo \subseteq stack[i].todo
      BY <2>1
    <2> HIDE DEF calls, l
    <2>4. ASSUME color[d] = "white", G!Enter(calls, d, 0, G!Into(d) \intersect chosen) PROVE CriticalInv'
      BY <1>1, <1>3, <2>1, <2>2, <2>3, <2>4
    <2>5. ASSUME stack' = calls, UNCHANGED color PROVE CriticalInv'
      <3>1. Walk(chain)'
        BY <1>i, <1>0, <1>3, <2>5, WalkStays
      <3>2. ASSUME NEW i \in 1 .. l PROVE Carried(i, stack)'
        <4>1. /\ stack[i].node \in chosen /\ color[stack[i].node] # "white"
              /\ stack[i].todo \subseteq G!Into(stack[i].node) \intersect chosen
              /\ Walk(stack[i].longest)
              /\ stack[i].longest # <<>> => stack[i].longest[1] \in G!Into(stack[i].node)
              /\ \A j \in 1 .. l : stack[j].node \notin Elements(stack[i].longest)
          BY <1>i DEF Carried, l
        <4>2. stack'[i].node = stack[i].node /\ stack'[i].longest = stack[i].longest /\ stack'[i].todo \subseteq stack[i].todo
              /\ Len(stack') = l /\ \A j \in 1 .. l : stack'[j].node = stack[j].node
          BY <2>1, <2>3, <2>5
        <4>3. Walk(stack[i].longest)'
          BY <1>0, <2>5, <4>1, <4>2, WalkStays
        <4> QED
          BY <1>0, <2>5, <4>1, <4>2, <4>3 DEF Carried
      <3>3. /\ \A i, j \in 1 .. l : stack'[i].node = stack'[j].node => i = j
            /\ \A i \in 1 .. l - 1 : stack'[i + 1].node \in G!Into(stack'[i].node)
        <4>1. l \in Nat /\ \A i \in 1 .. l - 1 : i \in 1 .. l /\ i + 1 \in 1 .. l
          BY <2>1, Within
        <4>2. \A i \in 1 .. l : stack'[i].node = stack[i].node
          BY <2>3, <2>5
        <4>3. /\ \A i, j \in 1 .. l : stack[i].node = stack[j].node => i = j
              /\ \A i \in 1 .. l - 1 : stack[i + 1].node \in G!Into(stack[i].node)
          BY <1>i DEF l
        <4> QED
          BY <4>1, <4>2, <4>3
      <3> QED
        BY <1>i, <1>0, <2>1, <2>5, <3>1, <3>2, <3>3 DEF CriticalInv
    <2> QED
      BY <2>4, <2>5 DEF calls
  <1>4. ASSUME stack # <<>>, G!Top.todo = {}, G!WalkReturns, UNCHANGED color PROVE CriticalInv'
    <2> DEFINE top == stack[l]
               path == <<top.node>> \o top.longest
               caller == stack[l - 1]
    <2>1. l \in Nat \ {0} /\ G!Top = top
      BY <1>i, <1>4 DEF G!Top, G!Last
    <2>2. Carried(l, stack) /\ l \in 1 .. l
      BY <1>i, <2>1
    <2>3. Walk(path) /\ path[1] = top.node /\ path # <<>> /\ Elements(path) = {top.node} \union Elements(top.longest)
      <3> DEFINE n == top.node
                 p == top.longest
      <3>1. n \in chosen /\ color[n] # "white" /\ Walk(p) /\ (p # <<>> => p[1] \in G!Into(n)) /\ n \notin Elements(p)
        BY <2>2 DEF Carried
      <3> HIDE DEF n, p
      <3>2. Walk(<<n>> \o p) /\ (<<n>> \o p)[1] = n /\ (<<n>> \o p) # <<>> /\ Elements(<<n>> \o p) = {n} \union Elements(p)
        BY <3>1, WalkOn
      <3> QED
        BY <3>2 DEF n, p
    <2>4. CASE l = 1
      <3>1. stack' = <<>> /\ chain' = G!Longer(chain, path)
        BY <1>4, <2>1, <2>4 DEF G!WalkReturns
      <3> HIDE DEF path
      <3>2. Walk(chain')
        BY <1>i, <2>3, <3>1 DEF G!Longer
      <3>3. Walk(chain)'
        BY <1>0, <1>4, <3>2 DEF Walk
      <3>4. Len(stack') = 0 /\ stack' \in Seq(Frames)
        BY <3>1
      <3> QED
        BY <1>i, <1>4, <3>3, <3>4 DEF CriticalInv
    <2>5. CASE l # 1
      <3> DEFINE f == [caller EXCEPT !.longest = G!Longer(@, path)]
      <3>1. stack' = Append(SubSeq(stack, 1, l - 2), f) /\ UNCHANGED chain
        BY <1>4, <2>1, <2>5 DEF G!WalkReturns
      <3>2. l - 1 \in 1 .. l /\ caller \in Frames /\ l > 1
        <4>1. l > 1 /\ l - 1 \in 1 .. l
          <5> HIDE DEF l
          <5> QED
            BY <2>1, <2>5, Within
        <4> QED
          BY <1>i, <4>1
      <3>3. Walk(caller.longest) /\ Carried(l - 1, stack)
        BY <1>i, <3>2 DEF Carried
      <3>4. G!Longer(caller.longest, path) \in {caller.longest, path}
        BY DEF G!Longer
      <3>5. f \in Frames /\ f.node = caller.node /\ f.todo = caller.todo /\ f.longest \in {caller.longest, path}
        <4>1. caller.longest \in Seq(Nodes) /\ path \in Seq(Nodes)
          BY <2>3, <3>3 DEF Walk
        <4> HIDE DEF path, caller
        <4> QED
          BY <3>2, <3>4, <4>1 DEF Frames
      <3> HIDE DEF f
      <3>6. /\ stack' \in Seq(Frames) /\ Len(stack') = l - 1
            /\ \A i \in 1 .. l - 2 : stack'[i] = stack[i]
            /\ stack'[l - 1] = f
        BY <1>i, <3>1, <3>2, <3>5, ReturnIs
      <3>7. \A i \in 1 .. l - 1 : stack'[i].node = stack[i].node /\ stack'[i].todo = stack[i].todo
                                 /\ (stack'[i].longest = stack[i].longest \/ (i = l - 1 /\ stack'[i].longest = path))
        <4>1. \A i \in 1 .. l - 1 : i = l - 1 \/ i \in 1 .. l - 2
          <5> HIDE DEF l
          <5> QED
            BY <2>1, Within
        <4>2. caller = stack[l - 1] /\ f.longest \in {stack[l - 1].longest, path}
          BY <3>5
        <4>3. f.node = stack[l - 1].node /\ f.todo = stack[l - 1].todo
          BY <3>5
        <4> HIDE DEF path, caller, l
        <4>4. ASSUME NEW i \in 1 .. l - 1
              PROVE  /\ stack'[i].node = stack[i].node /\ stack'[i].todo = stack[i].todo
                     /\ stack'[i].longest = stack[i].longest \/ (i = l - 1 /\ stack'[i].longest = path)
          <5>1. CASE i = l - 1
            BY <3>6, <4>2, <4>3, <5>1
          <5>2. CASE i \in 1 .. l - 2
            BY <3>6, <5>2
          <5> QED
            BY <4>1, <5>1, <5>2
        <4> QED
          BY <4>4
      <3>8. Walk(chain)'
        BY <1>i, <1>0, <1>4, <3>1, WalkStays
      <3>9. ASSUME NEW i \in 1 .. l - 1 PROVE Carried(i, stack)'
        <4>1. i \in 1 .. l
          BY <2>1
        <4>2. /\ stack[i].node \in chosen /\ color[stack[i].node] # "white"
              /\ stack[i].todo \subseteq G!Into(stack[i].node) \intersect chosen
              /\ Walk(stack[i].longest)
              /\ stack[i].longest # <<>> => stack[i].longest[1] \in G!Into(stack[i].node)
              /\ \A j \in 1 .. l : stack[j].node \notin Elements(stack[i].longest)
          BY <1>i, <4>1 DEF Carried
        <4>3. ASSUME i = l - 1
              PROVE  path[1] \in G!Into(stack[i].node) /\ \A j \in 1 .. l - 1 : stack[j].node \notin Elements(path)
          <5>1. stack[(l - 1) + 1].node \in G!Into(stack[l - 1].node)
            BY <1>i, <3>2, <4>3
          <5>2. path[1] \in G!Into(stack[i].node)
            BY <2>1, <2>3, <4>3, <5>1
          <5>3. \A j \in 1 .. l - 1 : j \in 1 .. l /\ stack[j].node # top.node
            BY <1>i, <2>1
          <5>4. \A j \in 1 .. l : stack[j].node \notin Elements(top.longest)
            BY <2>2 DEF Carried
          <5> QED
            BY <2>3, <5>2, <5>3, <5>4
        <4> HIDE DEF path, top, caller
        <4>4. Walk(stack'[i].longest)
          BY <2>3, <3>7, <4>2
        <4>5. Walk(stack[i].longest)'
          BY <1>0, <1>4, <4>4 DEF Walk
        <4>6. \A j \in 1 .. l - 1 : stack'[j].node \notin Elements(stack'[i].longest)
          BY <2>1, <3>7, <4>2, <4>3
        <4>7. stack'[i].longest # <<>> => stack'[i].longest[1] \in G!Into(stack'[i].node)
          BY <3>7, <4>2, <4>3
        <4> QED
          BY <1>0, <1>4, <3>6, <3>7, <4>2, <4>5, <4>6, <4>7 DEF Carried
      <3>10. \A i, j \in 1 .. l - 1 : stack'[i].node = stack'[j].node => i = j
        BY <1>i, <3>7
      <3>11. \A i \in 1 .. (l - 1) - 1 : stack'[i + 1].node \in G!Into(stack'[i].node)
        BY <1>i, <3>7
      <3> QED
        BY <1>i, <1>0, <1>4, <3>6, <3>8, <3>9, <3>10, <3>11 DEF CriticalInv
    <2> QED
      BY <2>4, <2>5
  <1>5. CASE stack = <<>> /\ UNCHANGED chain /\ \E n \in {m \in chosen : color[m] = "white"} : G!Enter(<<>>, n, 0, G!Into(n) \intersect chosen)
    BY <1>2, <1>5
  <1>6. CASE /\ stack # <<>> /\ UNCHANGED chain
             /\ \E d \in G!Top.todo :
                  IF color[d] = "white" THEN G!Enter(G!Follow(d), d, 0, G!Into(d) \intersect chosen)
                  ELSE stack' = G!Follow(d) /\ UNCHANGED color
    BY <1>3, <1>6
  <1>7. CASE stack # <<>> /\ G!Top.todo = {} /\ G!WalkReturns /\ UNCHANGED color
    BY <1>4, <1>7
  <1> QED
    BY <1>5, <1>6, <1>7 DEF G!CriticalStep

------------------------------------------------------------------------------
(* detect_cycles: the paths that the parents give back to d.  That there are *)
(* such paths is part of the invariant.                                      *)
Paths(g, d) ==
  g = [m \in Nodes |-> IF m = d THEN <<d>> ELSE Append(IF m \in DOMAIN parent THEN g[parent[m]] ELSE <<d>>, m)]

LEMMA CycleIs ==
  ASSUME NEW d, NEW n, \E g : Paths(g, d)
  PROVE  \E g : Paths(g, d) /\ G!Cycle(n, d) = g[n]
  <1> DEFINE path == CHOOSE g : Paths(g, d)
  <1>1. Paths(path, d)
    OBVIOUS
  <1>2. G!Cycle(n, d) = path[n]
    BY DEF G!Cycle, Paths
  <1> QED
    BY <1>1, <1>2

LEMMA PathsAre ==
  ASSUME NEW g, NEW d, Paths(g, d)
  PROVE  \A m \in Nodes : g[m] = IF m = d THEN <<d>> ELSE Append(IF m \in DOMAIN parent THEN g[parent[m]] ELSE <<d>>, m)
  BY Zenon DEF Paths

(* A node found from another one that was entered before: the paths go on   *)
(* from those that were there.                                              *)
LEMMA PathsGrow ==
  ASSUME NEW d \in Nodes, NEW n \in Nodes, d # n, d \notin DOMAIN parent,
         \A m \in DOMAIN parent : parent[m] \in Nodes /\ parent[m] # d,
         parent' = G!Assign(parent, d, n),
         NEW e, \E g : Paths(g, e)
  PROVE  (\E g : Paths(g, e))'
  <1>1. PICK g : Paths(g, e)
    OBVIOUS
  <1> DEFINE there(m) == m \in DOMAIN parent
             value == IF d = e THEN <<e>> ELSE Append(g[n], d)
             h == [m \in Nodes |-> IF m = d THEN value ELSE g[m]]
  <1>2. /\ DOMAIN parent' = DOMAIN parent \union {d} /\ parent'[d] = n
        /\ \A m \in DOMAIN parent : parent'[m] = parent[m]
    BY DEF G!Assign
  <1>3. \A m \in Nodes : g[m] = IF m = e THEN <<e>> ELSE Append(IF m \in DOMAIN parent THEN g[parent[m]] ELSE <<e>>, m)
    BY <1>1 DEF Paths
  <1>4. ASSUME NEW m \in Nodes
        PROVE  h[m] = IF m = e THEN <<e>> ELSE Append(IF m \in DOMAIN parent' THEN h[parent'[m]] ELSE <<e>>, m)
    <2>1. CASE m = d
      BY <1>2, <2>1
    <2>2. CASE m # d
      <3>1. h[m] = g[m] /\ (m \in DOMAIN parent' <=> m \in DOMAIN parent)
        BY <1>2, <2>2
      <3>2. m \in DOMAIN parent => h[parent'[m]] = g[parent[m]]
        BY <1>2
      <3> HIDE DEF h
      <3>3. CASE m \in DOMAIN parent
        BY <1>3, <3>1, <3>2, <3>3
      <3>4. CASE m \notin DOMAIN parent
        BY <1>3, <3>1, <3>4
      <3> QED
        BY <3>3, <3>4
    <2> QED
      BY <2>1, <2>2
  <1>5. h = [m \in Nodes |-> IF m = e THEN <<e>> ELSE Append(IF m \in DOMAIN parent' THEN h[parent'[m]] ELSE <<e>>, m)]
    <2> DEFINE H(m) == IF m = e THEN <<e>> ELSE Append(IF m \in DOMAIN parent' THEN h[parent'[m]] ELSE <<e>>, m)
    <2>1. \A m \in Nodes : h[m] = H(m)
      BY <1>4
    <2>2. h = [m \in Nodes |-> h[m]]
      OBVIOUS
    <2> HIDE DEF h, H
    <2>3. h = [m \in Nodes |-> H(m)]
      BY <2>1, <2>2
    <2> QED
      BY <2>3 DEF H
  <1> QED
    BY <1>5 DEF Paths

(* Read from a node of the stack up to the top, they follow the calls.      *)
LEMMA PathRead ==
  ASSUME stack \in Seq(Frames),
         \A i \in 1 .. Len(stack) : stack[i].node \in chosen,
         \A i, j \in 1 .. Len(stack) : stack[i].node = stack[j].node => i = j,
         \A i \in 1 .. Len(stack) - 1 : stack[i + 1].node \in DOMAIN parent /\ parent[stack[i + 1].node] = stack[i].node,
         chosen \subseteq Nodes,
         NEW k \in 1 .. Len(stack), NEW g, Paths(g, stack[k].node)
  PROVE  /\ g[stack[Len(stack)].node] \in Seq(chosen) /\ Len(g[stack[Len(stack)].node]) = Len(stack) - k + 1
         /\ \A j \in 1 .. Len(stack) - k + 1 : g[stack[Len(stack)].node][j] = stack[k + j - 1].node
  <1> DEFINE l == Len(stack)
             d == stack[k].node
             Good(i) == LET p == g[stack[i].node]
                        IN p \in Seq(chosen) /\ Len(p) = i - k + 1 /\ \A j \in 1 .. i - k + 1 : p[j] = stack[k + j - 1].node
  <1>1. l \in Nat /\ k \in 1 .. l /\ k \in Nat
    OBVIOUS
  <1>2. \A m \in Nodes : g[m] = IF m = d THEN <<d>> ELSE Append(IF m \in DOMAIN parent THEN g[parent[m]] ELSE <<d>>, m)
    <2> HIDE DEF d, Good, l
    <2>1. Paths(g, d)
      BY DEF d
    <2> QED
      BY <2>1, PathsAre
  <1>3. Good(k)
    <2>1. g[d] = <<d>> /\ d \in chosen
      BY <1>2
    <2>2. k - k + 1 = 1 /\ k + 1 - 1 = k
      BY <1>1
    <2> QED
      BY <2>1, <2>2
  <1>4. ASSUME NEW i \in k .. l, i # k, Good(i - 1) PROVE Good(i)
    <2> DEFINE m == stack[i].node
               q == g[stack[i - 1].node]
    <2>1. i - 1 \in 1 .. l - 1 /\ (i - 1) + 1 = i /\ i \in 1 .. l /\ i \in Nat
      BY <1>1, <1>4
    <2>2. m \in DOMAIN parent /\ parent[m] = stack[i - 1].node /\ m \in chosen /\ m # d
      BY <1>4, <2>1
    <2>3. g[m] = Append(q, m)
      BY <1>2, <2>2
    <2>4. q \in Seq(chosen) /\ Len(q) = i - k /\ \A j \in 1 .. i - k : q[j] = stack[k + j - 1].node
      <3>1. (i - 1) - k + 1 = i - k
        BY <1>1, <2>1
      <3> QED
        BY <1>4, <3>1
    <2> HIDE DEF q
    <2>5. Append(q, m) \in Seq(chosen) /\ Len(Append(q, m)) = i - k + 1
      BY <2>2, <2>4
    <2>6. ASSUME NEW j \in 1 .. i - k + 1 PROVE Append(q, m)[j] = stack[k + j - 1].node
      <3>1. CASE j = i - k + 1
        <4>1. k + j - 1 = i
          BY <1>1, <2>1, <3>1
        <4> QED
          BY <2>2, <2>4, <3>1, <4>1
      <3>2. CASE j # i - k + 1
        <4>1. j \in 1 .. i - k
          BY <1>1, <2>1, <3>2
        <4> QED
          BY <2>2, <2>4, <4>1
      <3> QED
        BY <3>1, <3>2
    <2> HIDE DEF m
    <2>7. g[m] \in Seq(chosen) /\ Len(g[m]) = i - k + 1 /\ \A j \in 1 .. i - k + 1 : g[m][j] = stack[k + j - 1].node
      BY <2>3, <2>5, <2>6
    <2> QED
      BY <2>7 DEF m
  <1> HIDE DEF Good, l
  <1> DEFINE Bad == {b \in 1 .. l : l + 1 - b >= k /\ ~Good(l + 1 - b)}
  <1>5. Bad = {}
    <2> SUFFICES ASSUME Bad # {} PROVE FALSE
      OBVIOUS
    <2>1. PICK b \in Bad : \A c \in Bad : c <= b
      <3>1. Bad \subseteq 1 .. l
        OBVIOUS
      <3> HIDE DEF Bad
      <3> QED
        BY <1>1, <3>1, LastOfKind
    <2> DEFINE i == l + 1 - b
    <2>2. i \in k .. l /\ ~Good(i) /\ i # k
      BY <1>1, <1>3, <2>1
    <2>3. b + 1 \in 1 .. l /\ l + 1 - (b + 1) = i - 1 /\ i - 1 >= k /\ b + 1 > b
      BY <1>1, <2>1, <2>2
    <2>4. b + 1 \notin Bad
      <3> HIDE DEF Bad
      <3>1. b \in Nat
        BY <2>1 DEF Bad
      <3> QED
        BY <2>1, <2>3, <3>1
    <2>5. Good(i - 1)
      BY <2>3, <2>4
    <2> HIDE DEF i
    <2> QED
      BY <1>4, <2>2, <2>5
  <1>6. Good(l)
    <2>1. l - k + 1 \in 1 .. l + 1 /\ 1 \in 1 .. l /\ l + 1 - 1 = l /\ l >= k
      BY <1>1
    <2> QED
      BY <1>5, <2>1
  <1> QED
    BY <1>6 DEF Good, l

Black == {n \in chosen : color[n] = "black"}
IsCycle(c) ==
  /\ c \in Seq(chosen) /\ c # <<>> /\ NoneTwice(c)
  /\ \A k \in 1 .. Len(c) - 1 : c[k + 1] \in G!Out(c[k])
  /\ c[1] \in G!Out(c[Len(c)])

(* What is black is closed and has no cycle; a call that is under way has   *)
(* only edges to follow, to what is black, and to the next call.            *)
CallDone(i) ==
  \A m \in G!Out(stack[i].node) \intersect chosen :
    m \in stack[i].todo \/ m \in Black \/ (i < Len(stack) /\ m = stack[i + 1].node)
NoneMissed ==
  /\ \A X \in SUBSET Black : X # {} => \E n \in X : G!Out(n) \intersect X = {}
  /\ \A n \in Black : G!Out(n) \intersect chosen \subseteq Black
  /\ \A i \in 1 .. Len(stack) : CallDone(i)

Calling(i) == stack[i].node \in chosen /\ color[stack[i].node] = "gray" /\ stack[i].todo \subseteq G!Out(stack[i].node)
Linked(i) ==
  /\ stack[i + 1].node \in G!Out(stack[i].node)
  /\ stack[i + 1].node \in DOMAIN parent /\ parent[stack[i + 1].node] = stack[i].node
CyclesInv ==
  /\ stack \in Seq(Frames) /\ color \in [Nodes -> Colors]
  /\ \A i \in 1 .. Len(stack) : Calling(i)
  /\ \A i, j \in 1 .. Len(stack) : stack[i].node = stack[j].node => i = j
  /\ \A n \in Nodes : color[n] = "gray" => \E i \in 1 .. Len(stack) : stack[i].node = n
  /\ \A i \in 1 .. Len(stack) - 1 : Linked(i)
  /\ \A m \in DOMAIN parent : color[m] # "white" /\ parent[m] \in Nodes /\ color[parent[m]] # "white"
  /\ \A d \in Nodes : \E g : Paths(g, d)
  /\ \A c \in cycles : IsCycle(c)
  /\ cycles = {} => NoneMissed

(* An edge to a gray node: the path back to it is a cycle.                  *)
LEMMA CycleFound ==
  ASSUME CyclesInv, chosen \subseteq Nodes, stack # <<>>, NEW d \in G!Out(stack[Len(stack)].node), d \in chosen, color[d] = "gray"
  PROVE  IsCycle(G!Cycle(stack[Len(stack)].node, d))
  <1> DEFINE l == Len(stack)
             n == stack[l].node
  <1>1. /\ stack \in Seq(Frames) /\ l \in Nat /\ l # 0
        /\ \A i, j \in 1 .. l : stack[i].node = stack[j].node => i = j
        /\ d \in Nodes /\ \E g : Paths(g, d)
    BY DEF CyclesInv
  <1>2. PICK k \in 1 .. l : stack[k].node = d
    BY <1>1 DEF CyclesInv
  <1>3. PICK g : Paths(g, d) /\ G!Cycle(n, d) = g[n]
    <2> HIDE DEF n
    <2> QED
      BY <1>1, CycleIs
  <1>4. /\ \A i \in 1 .. l : stack[i].node \in chosen
        /\ \A i \in 1 .. l - 1 : stack[i + 1].node \in DOMAIN parent /\ parent[stack[i + 1].node] = stack[i].node
        /\ \A i \in 1 .. l - 1 : stack[i + 1].node \in G!Out(stack[i].node)
    BY DEF CyclesInv, Calling, Linked
  <1> DEFINE c == g[n]
  <1>5. /\ c \in Seq(chosen) /\ Len(c) = l - k + 1
        /\ \A j \in 1 .. l - k + 1 : c[j] = stack[k + j - 1].node
    <2>1. Paths(g, stack[k].node)
      BY <1>2, <1>3
    <2> QED
      BY <1>1, <1>4, <2>1, PathRead
  <1> HIDE DEF c, n
  <1>6. l - k + 1 \in Nat /\ l - k + 1 > 0 /\ k \in Nat /\ k + 1 - 1 = k /\ k + (l - k + 1) - 1 = l
    <2> HIDE DEF l
    <2> QED
      BY <1>1, <1>2
  <1>7. c[1] = d /\ c[Len(c)] = n /\ c # <<>>
    <2>1. 1 \in 1 .. l - k + 1 /\ l - k + 1 \in 1 .. l - k + 1
      BY <1>6
    <2>2. c[1] = stack[k + 1 - 1].node /\ c[l - k + 1] = stack[k + (l - k + 1) - 1].node
      BY <1>5, <2>1
    <2> HIDE DEF l
    <2> QED
      BY <1>2, <1>5, <1>6, <2>2 DEF n
  <1>8. NoneTwice(c)
    <2> SUFFICES ASSUME NEW i \in 1 .. l - k + 1, NEW j \in 1 .. l - k + 1, c[i] = c[j] PROVE i = j
      BY <1>5 DEF NoneTwice
    <2> HIDE DEF l
    <2>1. k + i - 1 \in 1 .. l /\ k + j - 1 \in 1 .. l
      BY <1>1, <1>2
    <2>2. stack[k + i - 1].node = stack[k + j - 1].node
      BY <1>5
    <2>3. k + i - 1 = k + j - 1
      BY <1>1, <2>1, <2>2
    <2> QED
      BY <1>6, <2>3
  <1>9. ASSUME NEW j \in 1 .. Len(c) - 1 PROVE c[j + 1] \in G!Out(c[j])
    <2> HIDE DEF l
    <2>1. j \in 1 .. l - k
      BY <1>1, <1>2, <1>5
    <2>2. j \in 1 .. l - k + 1 /\ j + 1 \in 1 .. l - k + 1 /\ k + (j + 1) - 1 = (k + j - 1) + 1 /\ k + j - 1 \in 1 .. l - 1
      BY <1>1, <1>2, <2>1
    <2>3. c[j] = stack[k + j - 1].node /\ c[j + 1] = stack[(k + j - 1) + 1].node
      BY <1>5, <2>2
    <2> QED
      BY <1>4, <2>2, <2>3
  <1>10. d \in G!Out(n)
    BY DEF n
  <1> QED
    BY <1>3, <1>5, <1>7, <1>8, <1>9, <1>10 DEF IsCycle, c, n

(* A call that returns: its node joins what is closed and has no cycle.     *)
LEMMA MissedNone ==
  ASSUME NoneMissed, NEW n \in chosen, n \notin Black, G!Out(n) \intersect chosen \subseteq Black
  PROVE  /\ \A X \in SUBSET (Black \union {n}) : X # {} => \E m \in X : G!Out(m) \intersect X = {}
         /\ \A m \in Black \union {n} : G!Out(m) \intersect chosen \subseteq Black
  <1>1. /\ \A X \in SUBSET Black : X # {} => \E m \in X : G!Out(m) \intersect X = {}
        /\ \A m \in Black : G!Out(m) \intersect chosen \subseteq Black
        /\ Black \subseteq chosen
    BY DEF NoneMissed, Black
  <1> HIDE DEF Black
  <1>2. ASSUME NEW X, X \subseteq Black \union {n}, X # {} PROVE \E m \in X : G!Out(m) \intersect X = {}
    <2>1. CASE X \ {n} = {}
      <3>1. X = {n}
        BY <1>2, <2>1
      <3>2. n \notin G!Out(n)
        OBVIOUS
      <3> QED
        BY <3>1, <3>2
    <2>2. CASE X \ {n} # {}
      <3>1. PICK m \in X \ {n} : G!Out(m) \intersect (X \ {n}) = {}
        <4>1. X \ {n} \in SUBSET Black
          BY <1>2
        <4> QED
          BY <1>1, <2>2, <4>1
      <3>2. m \in Black /\ n \notin G!Out(m)
        BY <1>1, <1>2, <3>1
      <3> QED
        BY <3>1, <3>2
    <2> QED
      BY <2>1, <2>2
  <1>3. \A m \in Black \union {n} : G!Out(m) \intersect chosen \subseteq Black
    BY <1>1
  <1> QED
    BY <1>2, <1>3

(* A node entered, from none or from the edge of a call.                    *)
LEMMA CycleEntered ==
  ASSUME CyclesInv, chosen \subseteq Nodes, UNCHANGED <<edges, chosen, cycles>>,
         NEW calls \in Seq(Frames), NEW d \in chosen, color[d] = "white", NEW l, l = Len(stack),
         Len(calls) = l, G!Enter(calls, d, 0, G!Out(d)),
         \A i \in 1 .. l : calls[i].node = stack[i].node
                           /\ calls[i].todo = IF i = l THEN stack[i].todo \ {d} ELSE stack[i].todo,
         \/ l = 0 /\ parent' = parent
         \/ l # 0 /\ d \in G!Out(stack[l].node) /\ parent' = G!Assign(parent, d, stack[l].node)
  PROVE  CyclesInv'
  <1>i. /\ stack \in Seq(Frames) /\ color \in [Nodes -> Colors] /\ l \in Nat
        /\ \A i \in 1 .. l : Calling(i)
        /\ \A i, j \in 1 .. l : stack[i].node = stack[j].node => i = j
        /\ \A n \in Nodes : color[n] = "gray" => \E i \in 1 .. l : stack[i].node = n
        /\ \A i \in 1 .. l - 1 : Linked(i)
        /\ \A m \in DOMAIN parent : color[m] # "white" /\ parent[m] \in Nodes /\ color[parent[m]] # "white"
        /\ \A e \in Nodes : \E g : Paths(g, e)
        /\ \A c \in cycles : IsCycle(c)
        /\ cycles = {} => NoneMissed
    BY DEF CyclesInv
  <1>0. /\ \A n : (G!Out(n))' = G!Out(n)
        /\ \A n : G!Out(n) \subseteq Nodes
        /\ chosen' = chosen /\ d \in Nodes
    BY DEF G!Out
  <1>1. /\ stack' \in Seq(Frames) /\ Len(stack') = l + 1
        /\ \A i \in 1 .. l : stack'[i] = calls[i]
        /\ stack'[l + 1].node = d /\ stack'[l + 1].todo = G!Out(d)
        /\ color' = [color EXCEPT ![d] = "gray"]
    <2> DEFINE todo == G!Out(d)
    <2>1. todo \in SUBSET Nodes /\ d \in Nodes /\ 0 \in Nat /\ G!Enter(calls, d, 0, todo)
      BY <1>0
    <2> HIDE DEF todo
    <2>2. /\ stack' \in Seq(Frames) /\ Len(stack') = Len(calls) + 1
          /\ \A i \in 1 .. Len(calls) : stack'[i] = calls[i]
          /\ stack'[Len(calls) + 1].node = d /\ stack'[Len(calls) + 1].todo = todo
          /\ color' = [color EXCEPT ![d] = "gray"]
      BY <2>1, PushIs
    <2> QED
      BY <2>2 DEF todo
  <1>2. /\ color' \in [Nodes -> Colors] /\ color'[d] = "gray"
        /\ \A n \in Nodes : n # d => color'[n] = color[n]
    BY <1>i, <1>0, <1>1 DEF Colors
  <1>3. \A i \in 1 .. l : /\ stack'[i].node = stack[i].node /\ stack[i].node # d
                          /\ stack'[i].todo = IF i = l THEN stack[i].todo \ {d} ELSE stack[i].todo
    <2> SUFFICES ASSUME NEW i \in 1 .. l
                 PROVE  /\ stack'[i].node = stack[i].node /\ stack[i].node # d
                        /\ stack'[i].todo = IF i = l THEN stack[i].todo \ {d} ELSE stack[i].todo
      OBVIOUS
    <2>1. Calling(i)
      BY <1>i
    <2>2. stack[i].node # d
      BY <2>1 DEF Calling
    <2>3. stack'[i] = calls[i]
      BY <1>1
    <2> QED
      BY <2>2, <2>3
  <1>4. l + 1 \in 1 .. l + 1 /\ \A i \in 1 .. l + 1 : i = l + 1 \/ i \in 1 .. l
    BY <1>i, Within
  <1>5. ASSUME NEW i \in 1 .. l + 1 PROVE Calling(i)'
    <2>1. CASE i = l + 1
      BY <1>0, <1>1, <1>2, <2>1 DEF Calling
    <2>2. CASE i \in 1 .. l
      <3>1. stack[i].node \in chosen /\ color[stack[i].node] = "gray" /\ stack[i].todo \subseteq G!Out(stack[i].node)
        BY <1>i, <2>2 DEF Calling
      <3>2. stack'[i].node = stack[i].node /\ stack[i].node # d /\ stack'[i].todo \subseteq stack[i].todo
        BY <1>3, <2>2
      <3>3. color'[stack[i].node] = "gray"
        BY <1>2, <3>1, <3>2
      <3> QED
        BY <1>0, <3>1, <3>2, <3>3 DEF Calling
    <2> QED
      BY <1>4, <2>1, <2>2
  <1>6. ASSUME NEW i \in 1 .. l + 1, NEW j \in 1 .. l + 1, stack'[i].node = stack'[j].node PROVE i = j
    <2>1. \A m, n \in 1 .. l : stack[m].node = stack[n].node => m = n
      BY <1>i
    <2>2. \A n \in 1 .. l : stack'[n].node = stack[n].node /\ stack'[n].node # d
      BY <1>3
    <2>3. stack'[l + 1].node = d
      BY <1>1
    <2>4. (i = l + 1 \/ i \in 1 .. l) /\ (j = l + 1 \/ j \in 1 .. l)
      BY <1>4
    <2> QED
      BY <1>6, <2>1, <2>2, <2>3, <2>4
  <1>7. ASSUME NEW n \in Nodes, color'[n] = "gray" PROVE \E i \in 1 .. l + 1 : stack'[i].node = n
    <2>1. CASE n = d
      BY <1>1, <1>4, <2>1
    <2>2. CASE n # d
      <3>1. PICK i \in 1 .. l : stack[i].node = n
        BY <1>i, <1>2, <1>7, <2>2
      <3>2. i \in 1 .. l + 1 /\ stack'[i].node = n
        <4>1. i \in 1 .. l + 1
          BY <1>i, Within
        <4> QED
          BY <1>3, <3>1, <4>1
      <3> QED
        BY <3>2
    <2> QED
      BY <2>1, <2>2
  <1>8. d \notin DOMAIN parent /\ \A m \in DOMAIN parent : parent[m] \in Nodes /\ parent[m] # d
    BY <1>i
  <1>9. l # 0 => /\ stack[l].node \in chosen /\ color[stack[l].node] = "gray" /\ stack[l].node # d
                 /\ DOMAIN parent' = DOMAIN parent \union {d} /\ parent'[d] = stack[l].node
                 /\ \A m \in DOMAIN parent : parent'[m] = parent[m]
    <2> SUFFICES ASSUME l # 0
                 PROVE  /\ stack[l].node \in chosen /\ color[stack[l].node] = "gray" /\ stack[l].node # d
                        /\ DOMAIN parent' = DOMAIN parent \union {d} /\ parent'[d] = stack[l].node
                        /\ \A m \in DOMAIN parent : parent'[m] = parent[m]
      OBVIOUS
    <2>1. l \in 1 .. l
      BY <1>i, Within
    <2>2. Calling(l)
      BY <1>i, <2>1
    <2>3. stack[l].node \in chosen /\ color[stack[l].node] = "gray" /\ stack[l].node # d
      BY <2>2 DEF Calling
    <2> QED
      BY <1>8, <2>3 DEF G!Assign
  <1>10. DOMAIN parent \subseteq DOMAIN parent' /\ \A m \in DOMAIN parent : parent'[m] = parent[m]
    BY <1>9
  <1>11. ASSUME NEW i \in 1 .. l PROVE Linked(i)'
    <2>1. CASE i = l
      <3>1. stack'[i].node = stack[l].node /\ stack'[i + 1].node = d /\ l # 0
        <4>1. stack'[i].node = stack[i].node /\ stack'[l + 1].node = d
          BY <1>1, <1>3
        <4>2. l # 0
          BY <2>1
        <4> QED
          BY <2>1, <4>1, <4>2
      <3> QED
        BY <1>0, <1>9, <3>1 DEF Linked
    <2>2. CASE i # l
      <3>1. i \in 1 .. l - 1 /\ i + 1 \in 1 .. l
        BY <1>i, <2>2
      <3>2. Linked(i) /\ stack'[i].node = stack[i].node /\ stack'[i + 1].node = stack[i + 1].node
        BY <1>i, <1>3, <3>1
      <3> QED
        BY <1>0, <1>10, <3>2 DEF Linked
    <2> QED
      BY <2>1, <2>2
  <1>12. ASSUME NEW m \in DOMAIN parent' PROVE color'[m] # "white" /\ parent'[m] \in Nodes /\ color'[parent'[m]] # "white"
    <2>1. CASE m \in DOMAIN parent
      <3>1. color[m] # "white" /\ parent[m] \in Nodes /\ color[parent[m]] # "white" /\ parent'[m] = parent[m]
        BY <1>i, <1>10, <2>1
      <3>2. color' = [color EXCEPT ![d] = "gray"]
        BY <1>1
      <3> QED
        BY <1>i, <3>1, <3>2
    <2>2. CASE m \notin DOMAIN parent
      <3>1. l # 0 /\ m = d
        BY <1>9, <2>2
      <3> QED
        BY <1>0, <1>2, <1>9, <3>1
    <2> QED
      BY <2>1, <2>2
  <1>13. ASSUME NEW e \in Nodes PROVE (\E g : Paths(g, e))'
    <2>1. \E g : Paths(g, e)
      BY <1>i
    <2>2. CASE l = 0
      BY <2>1, <2>2 DEF Paths
    <2>3. CASE l # 0
      <3> DEFINE n == stack[l].node
      <3>1. n \in Nodes /\ d # n /\ parent' = G!Assign(parent, d, n)
        BY <1>9, <2>3
      <3> HIDE DEF n
      <3> QED
        BY <1>0, <1>8, <2>1, <3>1, PathsGrow
    <2> QED
      BY <2>2, <2>3
  <1>14. \A c \in cycles' : IsCycle(c)'
    BY <1>i, <1>0 DEF IsCycle
  <1>15. ASSUME cycles' = {} PROVE NoneMissed'
    <2>1. NoneMissed
      BY <1>i, <1>15
    <2>2. Black' = Black
      BY <1>0, <1>2 DEF Black
    <2>3. ASSUME NEW i \in 1 .. l + 1 PROVE CallDone(i)'
      <3> SUFFICES ASSUME NEW m \in G!Out(stack'[i].node) \intersect chosen
                   PROVE  m \in stack'[i].todo \/ m \in Black \/ (i < l + 1 /\ m = stack'[i + 1].node)
        BY <1>0, <1>1, <2>2 DEF CallDone
      <3>1. CASE i = l + 1
        BY <1>1, <3>1
      <3>2. CASE i \in 1 .. l
        <4>1. stack'[i].node = stack[i].node
              /\ (stack'[i].todo = IF i = l THEN stack[i].todo \ {d} ELSE stack[i].todo) /\ i < l + 1
          <5>1. i < l + 1
            BY <1>i, <3>2
          <5> QED
            BY <1>3, <3>2, <5>1
        <4>2. m \in stack[i].todo \/ m \in Black \/ (i < l /\ m = stack[i + 1].node)
          BY <2>1, <3>2, <4>1 DEF NoneMissed, CallDone
        <4>3. i < l => stack'[i + 1].node = stack[i + 1].node
          <5> SUFFICES ASSUME i < l PROVE stack'[i + 1].node = stack[i + 1].node
            OBVIOUS
          <5>1. i + 1 \in 1 .. l
            BY <1>i, <3>2
          <5> QED
            BY <1>3, <5>1
        <4>4. i = l => stack'[i + 1].node = d
          BY <1>1
        <4> QED
          BY <4>1, <4>2, <4>3, <4>4
      <3> QED
        BY <1>4, <3>1, <3>2
    <2>4. /\ \A X \in SUBSET Black : X # {} => \E n \in X : G!Out(n) \intersect X = {}
          /\ \A n \in Black : G!Out(n) \intersect chosen \subseteq Black
      BY <2>1 DEF NoneMissed
    <2>5. /\ \A X \in SUBSET Black' : X # {} => \E n \in X : (G!Out(n))' \intersect X = {}
          /\ \A n \in Black' : (G!Out(n))' \intersect chosen' \subseteq Black'
      BY <1>0, <2>2, <2>4
    <2> QED
      BY <1>1, <2>3, <2>5 DEF NoneMissed
  <1>16. (l + 1) - 1 = l
    BY <1>i
  <1> QED
    BY <1>1, <1>2, <1>5, <1>6, <1>7, <1>11, <1>12, <1>13, <1>14, <1>15, <1>16 DEF CyclesInv

(* An edge followed without entering its node, which may close a cycle.     *)
LEMMA EdgeFollowed ==
  ASSUME CyclesInv, chosen \subseteq Nodes, UNCHANGED <<edges, chosen, color, parent>>,
         NEW l, l = Len(stack), l # 0, NEW d \in stack[l].todo, d \in chosen => color[d] # "white",
         stack' \in Seq(Frames), Len(stack') = l,
         \A i \in 1 .. l : stack'[i].node = stack[i].node
                           /\ stack'[i].todo = IF i = l THEN stack[i].todo \ {d} ELSE stack[i].todo,
         cycles' = IF d \in chosen /\ color[d] = "gray" THEN cycles \union {G!Cycle(stack[l].node, d)} ELSE cycles
  PROVE  CyclesInv'
  <1>i. /\ color \in [Nodes -> Colors] /\ l \in Nat
        /\ \A i \in 1 .. l : Calling(i)
        /\ \A i, j \in 1 .. l : stack[i].node = stack[j].node => i = j
        /\ \A n \in Nodes : color[n] = "gray" => \E i \in 1 .. l : stack[i].node = n
        /\ \A i \in 1 .. l - 1 : Linked(i)
        /\ \A m \in DOMAIN parent : color[m] # "white" /\ parent[m] \in Nodes /\ color[parent[m]] # "white"
        /\ \A e \in Nodes : \E g : Paths(g, e)
        /\ \A c \in cycles : IsCycle(c)
        /\ cycles = {} => NoneMissed
    BY DEF CyclesInv
  <1>0. /\ \A n : (G!Out(n))' = G!Out(n)
        /\ chosen' = chosen /\ color' = color /\ parent' = parent
    BY DEF G!Out
  <1>1. \A i \in 1 .. l : /\ stack'[i].node = stack[i].node
                          /\ stack'[i].todo = IF i = l THEN stack[i].todo \ {d} ELSE stack[i].todo
    OBVIOUS
  <1>2. ASSUME NEW i \in 1 .. l PROVE Calling(i)'
    <2>1. Calling(i) /\ stack'[i].node = stack[i].node /\ stack'[i].todo \subseteq stack[i].todo
      BY <1>i, <1>1
    <2> QED
      BY <1>0, <2>1 DEF Calling
  <1>3. ASSUME NEW i \in 1 .. l - 1 PROVE Linked(i)'
    <2>1. i \in 1 .. l /\ i + 1 \in 1 .. l
      BY <1>i, Within
    <2>2. Linked(i) /\ stack'[i].node = stack[i].node /\ stack'[i + 1].node = stack[i + 1].node
      BY <1>i, <1>1, <2>1
    <2> QED
      BY <1>0, <2>2 DEF Linked
  <1>4. \A e \in Nodes : (\E g : Paths(g, e))'
    BY <1>i, <1>0 DEF Paths
  <1>5. l \in 1 .. l /\ Calling(l)
    <2>1. l \in 1 .. l
      BY <1>i, Within
    <2> QED
      BY <1>i, <2>1
  <1>6. \A c \in cycles' : IsCycle(c)
    <2>1. CASE d \in chosen /\ color[d] = "gray"
      <3>1. d \in G!Out(stack[Len(stack)].node) /\ stack # <<>>
        <4>1. stack[l].todo \subseteq G!Out(stack[l].node)
          BY <1>5 DEF Calling
        <4> QED
          BY <4>1
      <3>2. IsCycle(G!Cycle(stack[Len(stack)].node, d))
        BY <2>1, <3>1, CycleFound
      <3>3. IsCycle(G!Cycle(stack[l].node, d))
        BY <3>2
      <3> QED
        BY <1>i, <2>1, <3>3
    <2>2. CASE ~(d \in chosen /\ color[d] = "gray")
      BY <1>i, <2>2
    <2> QED
      BY <2>1, <2>2
  <1>7. \A c \in cycles' : IsCycle(c)'
    BY <1>0, <1>6 DEF IsCycle
  <1>8. ASSUME cycles' = {} PROVE NoneMissed'
    <2>1. ~(d \in chosen /\ color[d] = "gray") /\ cycles = {}
      BY <1>8
    <2>2. NoneMissed
      BY <1>i, <2>1
    <2>3. d \in chosen => d \in Black
      <3>1. d \in chosen => color[d] \in Colors
        BY <1>i
      <3> QED
        BY <2>1, <3>1 DEF Black, Colors
    <2>4. Black' = Black
      BY <1>0 DEF Black
    <2>5. ASSUME NEW i \in 1 .. l PROVE CallDone(i)'
      <3> SUFFICES ASSUME NEW m \in G!Out(stack[i].node) \intersect chosen
                   PROVE  m \in stack'[i].todo \/ m \in Black \/ (i < l /\ m = stack'[i + 1].node)
        BY <1>0, <1>1, <2>4 DEF CallDone
      <3>1. m \in stack[i].todo \/ m \in Black \/ (i < l /\ m = stack[i + 1].node)
        BY <2>2 DEF NoneMissed, CallDone
      <3>2. i < l => stack'[i + 1].node = stack[i + 1].node
        <4> SUFFICES ASSUME i < l PROVE stack'[i + 1].node = stack[i + 1].node
          OBVIOUS
        <4>1. i + 1 \in 1 .. l
          BY <1>i
        <4> QED
          BY <1>1, <4>1
      <3> QED
        BY <1>1, <2>3, <3>1, <3>2
    <2>6. /\ \A X \in SUBSET Black : X # {} => \E n \in X : G!Out(n) \intersect X = {}
          /\ \A n \in Black : G!Out(n) \intersect chosen \subseteq Black
      BY <2>2 DEF NoneMissed
    <2>7. /\ \A X \in SUBSET Black' : X # {} => \E n \in X : (G!Out(n))' \intersect X = {}
          /\ \A n \in Black' : (G!Out(n))' \intersect chosen' \subseteq Black'
      BY <1>0, <2>4, <2>6
    <2> QED
      BY <2>5, <2>7 DEF NoneMissed
  <1>9. /\ \A i, j \in 1 .. l : stack'[i].node = stack'[j].node => i = j
        /\ \A n \in Nodes : color[n] = "gray" => \E i \in 1 .. l : stack'[i].node = n
    <2>1. /\ \A i, j \in 1 .. l : stack[i].node = stack[j].node => i = j
          /\ \A n \in Nodes : color[n] = "gray" => \E i \in 1 .. l : stack[i].node = n
      BY <1>i
    <2>2. \A i \in 1 .. l : stack'[i].node = stack[i].node
      BY <1>1
    <2>3. \A i, j \in 1 .. l : stack'[i].node = stack'[j].node => i = j
      BY <2>1, <2>2
    <2>4. ASSUME NEW n \in Nodes, color[n] = "gray" PROVE \E i \in 1 .. l : stack'[i].node = n
      <3>1. PICK i \in 1 .. l : stack[i].node = n
        BY <2>1, <2>4
      <3> QED
        BY <2>2, <3>1
    <2> QED
      BY <2>3, <2>4
  <1>10. \A m \in DOMAIN parent' : color'[m] # "white" /\ parent'[m] \in Nodes /\ color'[parent'[m]] # "white"
    BY <1>i, <1>0
  <1> QED
    BY <1>i, <1>0, <1>2, <1>3, <1>4, <1>7, <1>8, <1>9, <1>10 DEF CyclesInv

LEMMA CallReturned ==
  ASSUME CyclesInv, chosen \subseteq Nodes, UNCHANGED <<edges, chosen, parent, cycles>>,
         NEW l, l = Len(stack), l # 0, stack[l].todo = {},
         stack' \in Seq(Frames), Len(stack') = l - 1, \A i \in 1 .. l - 1 : stack'[i] = stack[i],
         color' = [color EXCEPT ![stack[l].node] = "black"]
  PROVE  CyclesInv'
  <1>i. /\ color \in [Nodes -> Colors] /\ l \in Nat
        /\ \A i \in 1 .. l : Calling(i)
        /\ \A i, j \in 1 .. l : stack[i].node = stack[j].node => i = j
        /\ \A n \in Nodes : color[n] = "gray" => \E i \in 1 .. l : stack[i].node = n
        /\ \A i \in 1 .. l - 1 : Linked(i)
        /\ \A m \in DOMAIN parent : color[m] # "white" /\ parent[m] \in Nodes /\ color[parent[m]] # "white"
        /\ \A e \in Nodes : \E g : Paths(g, e)
        /\ \A c \in cycles : IsCycle(c)
        /\ cycles = {} => NoneMissed
    BY DEF CyclesInv
  <1> DEFINE n == stack[l].node
  <1>0. /\ \A m : (G!Out(m))' = G!Out(m)
        /\ chosen' = chosen /\ parent' = parent /\ cycles' = cycles
    BY DEF G!Out
  <1>1. /\ l \in 1 .. l /\ l - 1 \in Nat
        /\ \A i \in 1 .. l - 1 : i \in 1 .. l /\ i + 1 \in 1 .. l /\ i # l
        /\ \A i \in 1 .. l : i = l \/ i \in 1 .. l - 1
        /\ \A i \in 1 .. (l - 1) - 1 : i \in 1 .. l - 1 /\ i + 1 \in 1 .. l - 1
    BY <1>i, Within
  <1>2. /\ n \in chosen /\ n \in Nodes /\ color[n] = "gray" /\ \A i \in 1 .. l - 1 : stack[i].node # n
    <2>1. Calling(l)
      BY <1>i, <1>1
    <2>2. n \in chosen /\ color[n] = "gray"
      BY <2>1 DEF Calling
    <2>3. \A i \in 1 .. l - 1 : stack[i].node # n
      BY <1>i, <1>1
    <2> QED
      BY <2>2, <2>3
  <1>3. color' \in [Nodes -> Colors] /\ color'[n] = "black" /\ \A m \in Nodes : m # n => color'[m] = color[m]
    BY <1>i, <1>2 DEF Colors
  <1>n. n = stack[l].node
    OBVIOUS
  <1> HIDE DEF n
  <1>4. ASSUME NEW i \in 1 .. l - 1 PROVE Calling(i)'
    <2>1. Calling(i) /\ stack'[i] = stack[i] /\ stack[i].node # n
      BY <1>i, <1>1, <1>2
    <2>2. stack[i].node \in chosen /\ color[stack[i].node] = "gray" /\ stack[i].todo \subseteq G!Out(stack[i].node)
      BY <2>1 DEF Calling
    <2>3. color'[stack[i].node] = "gray"
      BY <1>3, <2>1, <2>2
    <2> QED
      BY <1>0, <2>1, <2>2, <2>3 DEF Calling
  <1>5. ASSUME NEW i \in 1 .. (l - 1) - 1 PROVE Linked(i)'
    <2>1. i \in 1 .. l - 1 /\ i + 1 \in 1 .. l - 1
      BY <1>1
    <2>2. Linked(i) /\ stack'[i] = stack[i] /\ stack'[i + 1] = stack[i + 1]
      BY <1>i, <2>1
    <2> QED
      BY <1>0, <2>2 DEF Linked
  <1>6. \A e \in Nodes : (\E g : Paths(g, e))'
    BY <1>i, <1>0 DEF Paths
  <1>7. \A c \in cycles' : IsCycle(c)'
    BY <1>i, <1>0 DEF IsCycle
  <1>8. ASSUME NEW m \in DOMAIN parent' PROVE color'[m] # "white" /\ parent'[m] \in Nodes /\ color'[parent'[m]] # "white"
    <2>1. color[m] # "white" /\ parent[m] \in Nodes /\ color[parent[m]] # "white"
      BY <1>i, <1>0
    <2>2. color'[parent[m]] # "white"
      BY <1>3, <2>1
    <2>3. color'[m] # "white"
      BY <1>i, <1>2, <1>n, <2>1
    <2> QED
      BY <1>0, <2>1, <2>2, <2>3
  <1>9. ASSUME NEW i \in 1 .. l - 1, NEW j \in 1 .. l - 1, stack'[i].node = stack'[j].node PROVE i = j
    <2>1. i \in 1 .. l /\ j \in 1 .. l
      BY <1>1
    <2>2. stack[i].node = stack[j].node
      BY <1>9
    <2> QED
      BY <1>i, <2>1, <2>2
  <1>10. ASSUME NEW m \in Nodes, color'[m] = "gray" PROVE \E i \in 1 .. l - 1 : stack'[i].node = m
    <2>1. m # n /\ color[m] = "gray"
      BY <1>3, <1>10
    <2>2. PICK i \in 1 .. l : stack[i].node = m
      BY <1>i, <2>1
    <2>3. i \in 1 .. l - 1
      BY <1>1, <1>n, <2>1, <2>2
    <2> QED
      BY <2>2, <2>3
  <1>11. ASSUME cycles' = {} PROVE NoneMissed'
    <2>1. NoneMissed
      BY <1>i, <1>0, <1>11
    <2>2. Black' = Black \union {n} /\ n \notin Black
      <3>1. \A m \in chosen : color'[m] = IF m = n THEN "black" ELSE color[m]
        BY <1>3
      <3>2. color[n] # "black"
        BY <1>2
      <3> QED
        BY <1>0, <1>2, <3>1, <3>2 DEF Black
    <2>3. G!Out(n) \intersect chosen \subseteq Black
      <3>1. CallDone(l)
        BY <1>1, <2>1 DEF NoneMissed
      <3>2. ~(l < l)
        BY <1>i
      <3> QED
        BY <1>n, <3>1, <3>2 DEF CallDone
    <2>4. /\ \A X \in SUBSET (Black \union {n}) : X # {} => \E m \in X : G!Out(m) \intersect X = {}
          /\ \A m \in Black \union {n} : G!Out(m) \intersect chosen \subseteq Black
      BY <1>2, <2>1, <2>2, <2>3, MissedNone
    <2>5. /\ \A X \in SUBSET Black' : X # {} => \E m \in X : (G!Out(m))' \intersect X = {}
          /\ \A m \in Black' : (G!Out(m))' \intersect chosen' \subseteq Black'
      BY <1>0, <2>2, <2>4
    <2>6. ASSUME NEW i \in 1 .. l - 1 PROVE CallDone(i)'
      <3> SUFFICES ASSUME NEW m \in G!Out(stack[i].node) \intersect chosen
                   PROVE  m \in stack[i].todo \/ m \in Black \union {n} \/ (i < l - 1 /\ m = stack'[i + 1].node)
        <4>1. stack'[i] = stack[i]
          OBVIOUS
        <4> QED
          BY <1>0, <2>2, <4>1 DEF CallDone
      <3>1. m \in stack[i].todo \/ m \in Black \/ (i < l /\ m = stack[i + 1].node)
        <4>1. CallDone(i)
          BY <1>1, <2>1 DEF NoneMissed
        <4> QED
          BY <4>1 DEF CallDone
      <3>2. CASE i + 1 = l
        BY <1>n, <3>1, <3>2
      <3>3. CASE i + 1 # l
        <4>1. i < l - 1 /\ i + 1 \in 1 .. l - 1
          BY <1>i, <3>3
        <4> QED
          BY <3>1, <4>1
      <3> QED
        BY <3>2, <3>3
    <2> QED
      BY <2>5, <2>6 DEF NoneMissed
  <1> QED
    BY <1>3, <1>4, <1>5, <1>6, <1>7, <1>8, <1>9, <1>10, <1>11 DEF CyclesInv

LEMMA CyclesStep ==
  ASSUME CyclesInv, chosen \subseteq Nodes, UNCHANGED <<edges, chosen>>, G!CycleStep
  PROVE  CyclesInv'
  <1> DEFINE l == Len(stack)
  <1>i. stack \in Seq(Frames) /\ l \in Nat /\ color \in [Nodes -> Colors] /\ edges' = edges /\ chosen' = chosen
    BY DEF CyclesInv
  <1>o. \A n : G!Out(n) \subseteq Nodes
    BY DEF G!Out
  <1>1. CASE G!CycleRoot
    <2>1. PICK n \in {m \in chosen : color[m] = "white"} : G!Enter(<<>>, n, 0, G!Out(n))
      BY <1>1 DEF G!CycleRoot
    <2>2. stack = <<>> /\ UNCHANGED <<parent, cycles>>
      BY <1>1 DEF G!CycleRoot
    <2> DEFINE none == <<>>
    <2>3. none \in Seq(Frames) /\ Len(none) = 0 /\ l = 0 /\ G!Enter(none, n, 0, G!Out(n)) /\ n \in chosen /\ color[n] = "white"
      BY <2>1, <2>2
    <2>l. l = Len(stack)
      OBVIOUS
    <2> HIDE DEF none, l
    <2>4. \A i \in 1 .. l : none[i].node = stack[i].node
                           /\ none[i].todo = IF i = l THEN stack[i].todo \ {n} ELSE stack[i].todo
      BY <2>3
    <2> QED
      BY <1>i, <2>2, <2>3, <2>4, <2>l, CycleEntered
  <1>2. CASE G!CycleEdge
    <2>1. stack # <<>>
      BY <1>2 DEF G!CycleEdge
    <2>2. PICK d \in G!Top.todo :
            \/ /\ d \in chosen /\ color[d] = "white"
               /\ parent' = G!Assign(parent, d, G!Top.node) /\ G!Enter(G!Follow(d), d, 0, G!Out(d))
               /\ UNCHANGED cycles
            \/ /\ d \in chosen => color[d] # "white"
               /\ cycles' = IF d \in chosen /\ color[d] = "gray" THEN cycles \union {G!Cycle(G!Top.node, d)} ELSE cycles
               /\ stack' = G!Follow(d) /\ UNCHANGED <<color, parent>>
      BY <1>2 DEF G!CycleEdge, G!Closes
    <2> DEFINE calls == G!Follow(d)
    <2>3. /\ l \in Nat \ {0} /\ G!Top = stack[l]
          /\ calls \in Seq(Frames) /\ Len(calls) = l
          /\ \A i \in 1 .. l : calls[i].node = stack[i].node
                               /\ calls[i].todo = IF i = l THEN stack[i].todo \ {d} ELSE stack[i].todo
      <3>1. stack \in Seq(Frames) /\ stack # <<>>
        BY <1>i, <2>1
      <3> QED
        BY <3>1, FollowIs
    <2>4. d \in stack[l].todo /\ d \in G!Out(stack[l].node)
      <3>1. Calling(l)
        BY <2>3 DEF CyclesInv
      <3> QED
        BY <2>2, <2>3, <3>1 DEF Calling
    <2>l. l = Len(stack)
      OBVIOUS
    <2>c. calls = G!Follow(d)
      OBVIOUS
    <2> HIDE DEF calls, l
    <2>5. CASE /\ d \in chosen /\ color[d] = "white"
               /\ parent' = G!Assign(parent, d, G!Top.node) /\ G!Enter(G!Follow(d), d, 0, G!Out(d))
               /\ UNCHANGED cycles
      <3>1. /\ d \in chosen /\ color[d] = "white" /\ G!Enter(calls, d, 0, G!Out(d)) /\ UNCHANGED <<edges, chosen, cycles>>
            /\ l # 0 /\ d \in G!Out(stack[l].node) /\ parent' = G!Assign(parent, d, stack[l].node)
        BY <1>i, <2>3, <2>4, <2>5, <2>c
      <3> QED
        BY <2>3, <2>l, <3>1, CycleEntered
    <2>6. CASE /\ d \in chosen => color[d] # "white"
               /\ cycles' = IF d \in chosen /\ color[d] = "gray" THEN cycles \union {G!Cycle(G!Top.node, d)} ELSE cycles
               /\ stack' = G!Follow(d) /\ UNCHANGED <<color, parent>>
      <3>1. /\ UNCHANGED <<edges, chosen, color, parent>> /\ l # 0 /\ d \in stack[l].todo
            /\ d \in chosen => color[d] # "white"
            /\ stack' \in Seq(Frames) /\ Len(stack') = l
            /\ \A i \in 1 .. l : stack'[i].node = stack[i].node
                                 /\ stack'[i].todo = IF i = l THEN stack[i].todo \ {d} ELSE stack[i].todo
            /\ cycles' = IF d \in chosen /\ color[d] = "gray" THEN cycles \union {G!Cycle(stack[l].node, d)} ELSE cycles
        BY <1>i, <2>3, <2>4, <2>6, <2>c
      <3> QED
        BY <2>l, <3>1, EdgeFollowed
    <2> QED
      BY <2>2, <2>5, <2>6
  <1>3. CASE G!CycleReturn
    <2>1. /\ stack # <<>> /\ G!Top.todo = {} /\ stack' = G!Front(stack)
          /\ color' = [color EXCEPT ![G!Top.node] = "black"] /\ UNCHANGED <<parent, cycles>>
      BY <1>3 DEF G!CycleReturn
    <2>2. G!Top = stack[l]
      BY DEF G!Top, G!Last
    <2>3. stack' \in Seq(Frames) /\ Len(stack') = l - 1 /\ l # 0 /\ \A i \in 1 .. l - 1 : stack'[i] = stack[i]
      BY <1>i, <2>1, PopIs
    <2>l. l = Len(stack)
      OBVIOUS
    <2> HIDE DEF l
    <2> QED
      BY <1>i, <2>1, <2>2, <2>3, <2>l, CallReturned
  <1> QED
    BY <1>1, <1>2, <1>3 DEF G!CycleStep

LEMMA CyclesInit ==
  ASSUME G!Init
  PROVE  CyclesInv
  <1>1. /\ stack = <<>> /\ color = [n \in Nodes |-> "white"] /\ parent = <<>> /\ cycles = {}
    BY DEF G!Init
  <1>2. stack \in Seq(Frames) /\ Len(stack) = 0 /\ DOMAIN parent = {} /\ color \in [Nodes -> Colors] /\ Black = {}
    BY <1>1 DEF Colors, Black, G!Init
  <1>3. ASSUME NEW d \in Nodes PROVE \E g : Paths(g, d)
    <2> DEFINE g == [m \in Nodes |-> IF m = d THEN <<d>> ELSE Append(<<d>>, m)]
    <2>1. g = [m \in Nodes |-> IF m = d THEN <<d>> ELSE Append(IF m \in DOMAIN parent THEN g[parent[m]] ELSE <<d>>, m)]
      BY <1>2
    <2> HIDE DEF g
    <2>2. Paths(g, d)
      BY <2>1, Zenon DEF Paths
    <2> QED
      BY <2>2
  <1>4. NoneMissed
    BY <1>2 DEF NoneMissed
  <1>5. ASSUME NEW n \in Nodes PROVE color[n] # "gray"
    BY <1>1
  <1> QED
    BY <1>1, <1>2, <1>3, <1>4, <1>5 DEF CyclesInv

LEMMA ImpactInit ==
  ASSUME G!Init, job = "impact"
  PROVE  ImpactInv
  <1>1. /\ stack = <<>> /\ color = [n \in Nodes |-> "white"] /\ levels = <<>> /\ chosen \in SUBSET Nodes
        /\ G!Cardinality(chosen) = 1
    BY DEF G!Init
  <1>2. stack \in Seq(Frames) /\ Len(stack) = 0 /\ DOMAIN levels = {} /\ color \in [Nodes -> Colors]
    BY <1>1 DEF Colors
  <1>3. \A n, m \in chosen : n = m
    <2>1. IsFiniteSet(chosen) /\ Cardinality(chosen) = 1
      BY <1>1, SearchAssumption, FS_Subset, SameCount
    <2> QED
      BY <2>1, FS_Singleton
  <1>4. levels \in [DOMAIN levels -> 0 .. Depth]
    BY <1>1, <1>2
  <1>5. ASSUME NEW n \in Nodes PROVE color[n] = "white"
    BY <1>1
  <1> QED
    BY <1>1, <1>2, <1>3, <1>4, <1>5 DEF ImpactInv

LEMMA CriticalInit ==
  ASSUME G!Init
  PROVE  CriticalInv
  <1>1. stack = <<>> /\ color = [n \in Nodes |-> "white"] /\ chain = <<>>
    BY DEF G!Init
  <1>2. stack \in Seq(Frames) /\ Len(stack) = 0 /\ color \in [Nodes -> Colors]
    BY <1>1 DEF Colors
  <1>3. chain \in Seq(chosen) /\ Len(chain) = 0 /\ Elements(chain) = {}
    BY <1>1 DEF Elements
  <1>4. Walk(chain)
    BY <1>3 DEF Walk, NoneTwice
  <1> QED
    BY <1>2, <1>4 DEF CriticalInv

LEMMA CyclesSafe ==
  ASSUME CyclesInv, chosen \subseteq Nodes
  PROVE  /\ \A c \in cycles : /\ G!ToSet(c) \subseteq chosen /\ G!IsInjective(c)
                              /\ G!Path(c) /\ <<G!Last(c), Head(c)>> \in edges
         /\ G!Searched => (cycles # {} <=> G!Cyclic)
  <1>1. ASSUME NEW c \in cycles
        PROVE  /\ G!ToSet(c) \subseteq chosen /\ G!IsInjective(c)
               /\ G!Path(c) /\ <<G!Last(c), Head(c)>> \in edges
               /\ G!Cyclic
    <2>1. /\ c \in Seq(chosen) /\ c # <<>> /\ NoneTwice(c)
          /\ \A k \in 1 .. Len(c) - 1 : c[k + 1] \in G!Out(c[k])
          /\ c[1] \in G!Out(c[Len(c)])
      BY DEF CyclesInv, IsCycle
    <2>2. DOMAIN c = 1 .. Len(c) /\ Len(c) \in Nat \ {0} /\ Head(c) = c[1] /\ G!Last(c) = c[Len(c)]
      BY <2>1 DEF G!Last
    <2>3. G!ToSet(c) = Elements(c) /\ Elements(c) \subseteq chosen
      BY <2>1, <2>2 DEF G!ToSet, Elements
    <2>4. G!IsInjective(c)
      BY <2>1, <2>2 DEF NoneTwice, G!IsInjective
    <2>5. G!Path(c)
      BY <2>1 DEF G!Path, G!Out
    <2>6. <<G!Last(c), Head(c)>> \in edges
      BY <2>1, <2>2 DEF G!Out
    <2>7. \A n \in Elements(c) : G!Out(n) \intersect Elements(c) # {}
      <3> SUFFICES ASSUME NEW k \in 1 .. Len(c) PROVE G!Out(c[k]) \intersect Elements(c) # {}
        BY DEF Elements
      <3>1. CASE k = Len(c)
        <4>1. c[1] \in Elements(c)
          BY <2>2 DEF Elements
        <4> QED
          BY <2>1, <3>1, <4>1
      <3>2. CASE k # Len(c)
        <4>1. k \in 1 .. Len(c) - 1 /\ k + 1 \in 1 .. Len(c)
          <5> DEFINE last == Len(c)
          <5>1. last \in Nat \ {0} /\ k \in 1 .. last /\ k # last
            <6>1. last \in Nat \ {0}
              BY <2>2
            <6>2. k # last
              BY <3>2
            <6> QED
              BY <6>1, <6>2
          <5> HIDE DEF last
          <5>2. k \in 1 .. last - 1 /\ k + 1 \in 1 .. last
            BY <5>1
          <5> QED
            BY <5>2 DEF last
        <4>2. c[k + 1] \in Elements(c)
          BY <4>1 DEF Elements
        <4> QED
          BY <2>1, <4>1, <4>2
      <3> QED
        BY <3>1, <3>2
    <2>8. Elements(c) # {}
      <3>1. 1 \in 1 .. Len(c)
        BY <2>2
      <3> QED
        BY <3>1 DEF Elements
    <2>9. G!Cyclic
      <3>1. Elements(c) \in (SUBSET chosen) \ {{}}
        BY <2>3, <2>8
      <3> QED
        BY <2>7, <3>1 DEF G!Cyclic
    <2> QED
      BY <2>3, <2>4, <2>5, <2>6, <2>9
  <1>2. ASSUME G!Searched, cycles = {}, G!Cyclic PROVE FALSE
    <2>1. stack = <<>> /\ \A n \in chosen : color[n] # "white"
      BY <1>2 DEF G!Searched
    <2>2. \A n \in chosen : color[n] = "black"
      <3>1. Len(stack) = 0 /\ color \in [Nodes -> Colors]
        BY <2>1 DEF CyclesInv
      <3>2. \A n \in chosen : color[n] # "gray" /\ color[n] \in Colors
        <4>1. \A n \in Nodes : color[n] = "gray" => \E i \in 1 .. Len(stack) : stack[i].node = n
          BY DEF CyclesInv
        <4>2. 1 .. Len(stack) = {}
          BY <3>1
        <4>3. ASSUME NEW n \in chosen PROVE color[n] # "gray" /\ color[n] \in Colors
          <5>1. n \in Nodes /\ ~ \E i \in 1 .. Len(stack) : stack[i].node = n
            BY <4>2
          <5> QED
            BY <3>1, <4>1, <5>1
        <4> QED
          BY <4>3
      <3> QED
        BY <2>1, <3>2 DEF Colors
    <2>3. Black = chosen
      BY <2>2 DEF Black
    <2>4. PICK X \in (SUBSET chosen) \ {{}} : \A n \in X : G!Out(n) \intersect X # {}
      BY <1>2 DEF G!Cyclic
    <2>5. X \in SUBSET Black /\ X # {}
      BY <2>3, <2>4
    <2>6. NoneMissed
      BY <1>2 DEF CyclesInv
    <2> QED
      BY <2>4, <2>5, <2>6 DEF NoneMissed
  <1> QED
    BY <1>1, <1>2

LEMMA ImpactSafe ==
  ASSUME ImpactInv, chosen \subseteq Nodes
  PROVE  /\ \A n \in DOMAIN levels :
              levels[n] <= Depth /\ (levels[n] = 0 \/ \E m \in G!Out(n) \intersect DOMAIN levels : levels[m] = levels[n] - 1)
         /\ G!Searched => \A n \in chosen : G!Into(n) \subseteq DOMAIN levels
  <1>1. \A n \in DOMAIN levels : levels[n] <= Depth
    <2> DEFINE X == DOMAIN levels
    <2>1. levels \in [X -> 0 .. Depth]
      BY DEF ImpactInv
    <2> HIDE DEF X
    <2>2. \A n \in X : levels[n] <= Depth
      BY <2>1, SearchAssumption
    <2> QED
      BY <2>2 DEF X
  <1>2. ASSUME G!Searched, NEW n \in chosen PROVE G!Into(n) \subseteq DOMAIN levels
    <2>1. stack = <<>> /\ color[n] # "white"
      BY <1>2 DEF G!Searched
    <2>2. n \in DOMAIN levels
      BY <2>1 DEF ImpactInv
    <2> QED
      BY <2>1, <2>2 DEF ImpactInv
  <1> QED
    BY <1>1, <1>2 DEF ImpactInv

LEMMA CriticalSafe ==
  ASSUME CriticalInv
  PROVE  G!ToSet(chain) \subseteq chosen /\ G!IsInjective(chain) /\ G!Path(G!Reverse(chain))
  <1> DEFINE l == Len(chain)
             back == G!Reverse(chain)
  <1>1. /\ chain \in Seq(chosen) /\ DOMAIN chain = 1 .. l /\ l \in Nat /\ NoneTwice(chain)
        /\ \A k \in 1 .. l - 1 : chain[k + 1] \in G!Into(chain[k])
    BY DEF CriticalInv, Walk
  <1>2. back = [i \in 1 .. l |-> chain[l - i + 1]]
    BY DEF G!Reverse
  <1>3. Len(back) = l
    BY <1>1, <1>2
  <1> HIDE DEF l, back
  <1>4. ASSUME NEW i \in 1 .. l - 1 PROVE <<back[i], back[i + 1]>> \in edges
    <2>1. i \in 1 .. l /\ i + 1 \in 1 .. l /\ l - i \in 1 .. l - 1 /\ l - (i + 1) + 1 = l - i
      BY <1>1
    <2>2. back[i] = chain[(l - i) + 1] /\ back[i + 1] = chain[l - i]
      BY <1>2, <2>1
    <2>3. chain[(l - i) + 1] \in G!Into(chain[l - i])
      BY <1>1, <2>1
    <2> QED
      BY <2>2, <2>3 DEF G!Into
  <1>5. G!Path(back)
    BY <1>3, <1>4 DEF G!Path
  <1>6. G!ToSet(chain) \subseteq chosen
    BY <1>1 DEF G!ToSet
  <1>7. G!IsInjective(chain)
    BY <1>1 DEF NoneTwice, G!IsInjective, l
  <1> QED
    BY <1>5, <1>6, <1>7 DEF back

------------------------------------------------------------------------------
(* The search that runs keeps its invariant; the others have found nothing. *)
SearchInv ==
  /\ chosen \subseteq Nodes
  /\ (job = "cycles" /\ CyclesInv) \/ (job # "cycles" /\ cycles = {})
  /\ (job = "sort" /\ SortInv) \/ (job # "sort" /\ result = <<>>)
  /\ (job = "impact" /\ ImpactInv) \/ (job # "impact" /\ levels = <<>>)
  /\ (job = "critical" /\ CriticalInv) \/ (job # "critical" /\ chain = <<>>)

LEMMA SearchInit == G!Init => SearchInv
  <1> SUFFICES ASSUME G!Init PROVE SearchInv
    OBVIOUS
  <1>1. chosen \subseteq Nodes /\ cycles = {} /\ result = <<>> /\ levels = <<>> /\ chain = <<>>
    BY DEF G!Init
  <1> QED
    BY <1>1, CyclesInit, SortInit, ImpactInit, CriticalInit DEF SearchInv

LEMMA SearchStep == SearchInv /\ G!Next => SearchInv'
  <1> SUFFICES ASSUME SearchInv, G!Next PROVE SearchInv'
    OBVIOUS
  <1>1. UNCHANGED <<job, edges, chosen>> /\ chosen \subseteq Nodes
    BY DEF G!Next, SearchInv
  <1>2. CASE G!CycleStep
    <2>1. job = "cycles" /\ UNCHANGED <<result, levels, chain>>
      BY <1>2 DEF G!CycleStep, G!CycleRoot, G!CycleEdge, G!CycleReturn
    <2>2. CyclesInv'
      BY <1>1, <1>2, <2>1, CyclesStep DEF SearchInv
    <2> QED
      BY <1>1, <2>1, <2>2 DEF SearchInv
  <1>3. CASE G!SortStep
    <2>1. job = "sort" /\ UNCHANGED <<cycles, levels, chain>>
      BY <1>3 DEF G!SortStep
    <2>2. SortInv'
      BY <1>1, <1>3, <2>1, SortStep DEF SearchInv
    <2> QED
      BY <1>1, <2>1, <2>2 DEF SearchInv
  <1>4. CASE G!ImpactStep
    <2>1. job = "impact" /\ UNCHANGED <<cycles, result, chain>>
      BY <1>4 DEF G!ImpactStep
    <2>2. ImpactInv'
      BY <1>1, <1>4, <2>1, ImpactStep DEF SearchInv
    <2> QED
      BY <1>1, <2>1, <2>2 DEF SearchInv
  <1>5. CASE G!CriticalStep
    <2>1. job = "critical" /\ UNCHANGED <<cycles, result, levels>>
      BY <1>5 DEF G!CriticalStep
    <2>2. CriticalInv'
      BY <1>1, <1>5, <2>1, CriticalStep DEF SearchInv
    <2> QED
      BY <1>1, <2>1, <2>2 DEF SearchInv
  <1> QED
    BY <1>2, <1>3, <1>4, <1>5 DEF G!Next

LEMMA SearchStutter == SearchInv /\ UNCHANGED gVars => SearchInv'
  <1> SUFFICES ASSUME SearchInv, UNCHANGED gVars PROVE SearchInv'
    OBVIOUS
  <1>1. /\ job' = job /\ edges' = edges /\ chosen' = chosen /\ stack' = stack /\ color' = color /\ parent' = parent
        /\ cycles' = cycles /\ queue' = queue /\ degree' = degree /\ result' = result /\ levels' = levels /\ chain' = chain
    BY DEF gVars
  <1>2. CyclesInv => CyclesInv'
    <2>1. \A n : (G!Out(n))' = G!Out(n)
      BY <1>1 DEF G!Out
    <2>2. Black' = Black
      BY <1>1 DEF Black
    <2>3. NoneMissed => NoneMissed'
      BY <1>1, <2>1, <2>2 DEF NoneMissed, CallDone
    <2>4. \A d \in Nodes : (\E g : Paths(g, d)) => (\E g : Paths(g, d))'
      BY <1>1 DEF Paths
    <2>5. \A c \in cycles : IsCycle(c) => IsCycle(c)'
      BY <1>1, <2>1 DEF IsCycle
    <2>6. \A i : (Calling(i) => Calling(i)') /\ (Linked(i) => Linked(i)')
      BY <1>1, <2>1 DEF Calling, Linked
    <2> QED
      BY <1>1, <2>3, <2>4, <2>5, <2>6 DEF CyclesInv
  <1>3. SortInv => SortInv'
    BY <1>1 DEF SortInv, Ready, Ahead, G!Into
  <1>4. ImpactInv => ImpactInv'
    BY <1>1 DEF ImpactInv, G!Into, G!Out
  <1>5. CriticalInv => CriticalInv'
    BY <1>1 DEF CriticalInv, Carried, Walk, G!Into
  <1> QED
    BY <1>1, <1>2, <1>3, <1>4, <1>5 DEF SearchInv

LEMMA SearchSafe == SearchInv => G!SearchesRight
  <1> SUFFICES ASSUME SearchInv PROVE G!SearchesRight
    OBVIOUS
  <1>1. chosen \subseteq Nodes
    BY DEF SearchInv
  <1>2. /\ \A c \in cycles : /\ G!ToSet(c) \subseteq chosen /\ G!IsInjective(c)
                            /\ G!Path(c) /\ <<G!Last(c), Head(c)>> \in edges
        /\ job = "cycles" /\ G!Searched => (cycles # {} <=> G!Cyclic)
    <2>1. CASE job = "cycles"
      BY <1>1, <2>1, CyclesSafe DEF SearchInv
    <2>2. CASE job # "cycles"
      BY <2>2 DEF SearchInv
    <2> QED
      BY <2>1, <2>2
  <1>3. /\ G!IsInjective(result)
        /\ \A j \in DOMAIN result : G!Into(result[j]) \intersect chosen \subseteq {result[i] : i \in 1 .. j - 1}
        /\ job = "sort" /\ queue = <<>> => (G!ToSet(result) # chosen <=> G!Cyclic)
    <2>1. CASE job = "sort"
      BY <1>1, <2>1, SortSafe DEF SearchInv
    <2>2. CASE job # "sort"
      <3>1. DOMAIN result = {}
        BY <2>2 DEF SearchInv
      <3> QED
        BY <2>2, <3>1 DEF G!IsInjective
    <2> QED
      BY <2>1, <2>2
  <1>4. /\ \A n \in DOMAIN levels :
             levels[n] <= Depth /\ (levels[n] = 0 \/ \E m \in G!Out(n) \intersect DOMAIN levels : levels[m] = levels[n] - 1)
        /\ job = "impact" /\ G!Searched => \A n \in chosen : G!Into(n) \subseteq DOMAIN levels
    <2>1. CASE job = "impact"
      BY <1>1, <2>1, ImpactSafe DEF SearchInv
    <2>2. CASE job # "impact"
      <3>1. DOMAIN levels = {}
        BY <2>2 DEF SearchInv
      <3> QED
        BY <2>2, <3>1
    <2> QED
      BY <2>1, <2>2
  <1>5. G!ToSet(chain) \subseteq chosen /\ G!IsInjective(chain) /\ G!Path(G!Reverse(chain))
    <2>1. CASE job = "critical"
      BY <2>1, CriticalSafe DEF SearchInv
    <2>2. CASE job # "critical"
      <3>1. chain = <<>> /\ DOMAIN chain = {} /\ Len(chain) = 0
        BY <2>2 DEF SearchInv
      <3>2. G!Reverse(chain) = <<>>
        BY <3>1 DEF G!Reverse
      <3>3. G!Path(G!Reverse(chain))
        BY <3>2 DEF G!Path
      <3> QED
        BY <3>1, <3>3 DEF G!ToSet, G!IsInjective
    <2> QED
      BY <2>1, <2>2
  <1> QED
    BY <1>2, <1>3, <1>4, <1>5 DEF G!SearchesRight

------------------------------------------------------------------------------
(* Graph.build: what has been merged from the first n rows.                  *)
Own(id, n) == {r \in 1 .. n : rows[r].id = id}
Merged(new, id, n) ==
  /\ new \in [type : {"gap"}, text : Own(id, n), other : {0} \union Own(id, n), deps : SUBSET B!Tokens]
  /\ \A r \in Own(id, n) : rows[r].text <= rows[new.text].text /\ (rows[r].other => new.other \in 1 .. r)
  /\ new.deps = UNION {rows[r].deps : r \in Own(id, n)}

RowsRead == IF step = "rows" THEN at ELSE NRows
ModulesRead == IF step = "rows" THEN {} ELSE IF step = "modules" THEN {Modules[i] : i \in 1 .. at} ELSE B!Mods
RowsLinked == IF step \in {"rows", "modules"} THEN 0 ELSE IF step = "dependencies" THEN at ELSE NRows
Ends == DOMAIN nodes \union B!Mods \union Unparsed

BuildInv ==
  /\ rows \in [1 .. NRows -> B!Row] /\ at \in Nat
  /\ step \in {"rows", "modules", "dependencies", "files", "built"} /\ (step # "built" => at <= B!Items[step])
  /\ DOMAIN nodes = {rows[r].id : r \in 1 .. RowsRead} \union ModulesRead
  /\ \A id \in (DOMAIN nodes) \ B!Mods : Merged(nodes[id], id, RowsRead)
  /\ \A e \in linked : e[1] \in DOMAIN nodes /\ e[2] \in Ends
  /\ \A r \in 1 .. RowsLinked : \A t \in rows[r].deps :
       t.how = "exact" => {rows[r].id} \X (t.which \intersect DOMAIN nodes) \subseteq linked

(* The modules that were read are those of the list.                         *)
LEMMA ModulesAre == Modules \in Seq(B!Mods) /\ B!Mods = {Modules[i] : i \in 1 .. Len(Modules)}
  <1> DEFINE n == Cardinality(SourceFiles)
  <1>1. n \in Nat /\ \E f \in [1 .. n -> SourceFiles] : R!IsInjective(f)
    <2>1. n \in Nat /\ ExistsBijection(1 .. n, SourceFiles)
      BY GraphAssumption, FS_CardinalityType
    <2>2. PICK f : f \in Bijection(1 .. n, SourceFiles)
      BY <2>1 DEF ExistsBijection
    <2>3. f \in [1 .. n -> SourceFiles] /\ R!IsInjective(f)
      BY <2>2 DEF Bijection, Injection, IsInjective, R!IsInjective
    <2> QED
      BY <2>1, <2>3
  <1>2. Modules \in [1 .. n -> SourceFiles]
    <2>1. R!Cardinality(SourceFiles) = n
      BY DEF R!Cardinality, Cardinality
    <2> HIDE DEF n
    <2> QED
      BY <1>1, <2>1 DEF Modules, R!SetToSeq
  <1> HIDE DEF n
  <1>3. Len(Modules) = n /\ DOMAIN Modules = 1 .. n /\ Modules \in Seq(SourceFiles)
    BY <1>1, <1>2
  <1>4. B!Mods = {Modules[i] : i \in DOMAIN Modules}
    BY DEF B!Mods
  <1> QED
    BY <1>1, <1>2, <1>3, <1>4

(* A loop goes through its items one by one.                                *)
LEMMA TurnsAre ==
  ASSUME BuildInv, NEW loop \in {"rows", "modules", "dependencies", "files"}, B!Turn(loop)
  PROVE  /\ step = loop /\ step' = loop /\ at \in Nat /\ at' = at + 1 /\ at' \in Nat
         /\ at' <= B!Items[loop] /\ at + 1 \in 1 .. B!Items[loop] /\ at + 1 \in 1 .. at'
         /\ NRows \in Nat
         /\ B!Items["rows"] = NRows /\ B!Items["modules"] = Len(Modules)
         /\ B!Items["dependencies"] = NRows /\ B!Items["files"] = NRows
  <1>1. NRows \in Nat /\ Len(Modules) \in Nat
    BY ModulesAre, GraphAssumption
  <1>2. /\ B!Items["rows"] = NRows /\ B!Items["modules"] = Len(Modules)
        /\ B!Items["dependencies"] = NRows /\ B!Items["files"] = NRows
    BY DEF B!Items
  <1> QED
    BY <1>1, <1>2 DEF BuildInv, B!Turn

LEMMA RowsAre ==
  ASSUME rows \in [1 .. NRows -> B!Row], NEW r \in 1 .. NRows
  PROVE  rows[r].text \in Nat /\ rows[r].deps \subseteq B!Tokens /\ rows[r].other \in BOOLEAN
  <1>1. rows[r] \in B!Row
    OBVIOUS
  <1> DEFINE row == rows[r]
  <1> HIDE DEF row
  <1>2. row \in B!Row
    BY <1>1 DEF row
  <1>3. row.text \in Texts /\ row.other \in BOOLEAN /\ row.deps \in {{}} \union {{t} : t \in B!Tokens}
    BY <1>2 DEF B!Row
  <1>4. row.deps \subseteq B!Tokens
    BY <1>3
  <1> QED
    BY <1>3, <1>4, GraphAssumption DEF row

(* _merge_node keeps what the rows of an id say.                            *)
LEMMA MergeKeeps ==
  ASSUME rows \in [1 .. NRows -> B!Row], NEW n \in Nat, NRows \in Nat, n + 1 <= NRows,
         NEW old, Merged(old, rows[n + 1].id, n)
  PROVE  Merged(B!Merge(old, n + 1), rows[n + 1].id, n + 1)
  <1> DEFINE id == rows[n + 1].id
             before == Own(id, n)
             new == B!Merge(old, n + 1)
  <1>1. Own(id, n + 1) = before \union {n + 1} /\ before \subseteq 1 .. n /\ n + 1 \in 1 .. NRows
    BY DEF Own
  <1>2. rows[n + 1].text \in Nat /\ rows[n + 1].deps \in SUBSET B!Tokens /\ rows[n + 1].other \in BOOLEAN
    BY <1>1, RowsAre
  <1>3. \A r \in before : rows[r].text \in Nat /\ r \in Nat /\ r <= n
    <2> SUFFICES ASSUME NEW r \in before PROVE rows[r].text \in Nat /\ r \in Nat /\ r <= n
      OBVIOUS
    <2>1. r \in 1 .. NRows /\ r \in Nat /\ r <= n
      BY <1>1
    <2> QED
      BY <2>1, RowsAre
  <1>4. /\ old \in [type : {"gap"}, text : before, other : {0} \union before, deps : SUBSET B!Tokens]
        /\ \A r \in before : rows[r].text <= rows[old.text].text /\ (rows[r].other => old.other \in 1 .. r)
        /\ old.deps = UNION {rows[r].deps : r \in before}
        /\ old.text \in before /\ old.other \in {0} \union before
    BY DEF Merged
  <1>5. B!TextOf(old.text) = rows[old.text].text
    BY <1>3, <1>4, <1>1 DEF B!TextOf
  <1>6. /\ new = [old EXCEPT !.text = IF rows[n + 1].text > rows[old.text].text THEN n + 1 ELSE old.text,
                             !.other = IF old.other = 0 /\ rows[n + 1].other THEN n + 1 ELSE old.other,
                             !.deps = old.deps \union rows[n + 1].deps]
    BY <1>4, <1>5 DEF B!Merge
  <1> HIDE DEF new, before, id
  <1>7. /\ new.type = old.type
        /\ new.text = IF rows[n + 1].text > rows[old.text].text THEN n + 1 ELSE old.text
        /\ new.other = IF old.other = 0 /\ rows[n + 1].other THEN n + 1 ELSE old.other
        /\ new.deps = old.deps \union rows[n + 1].deps
    BY <1>4, <1>6
  <1>8. new \in [type : {"gap"}, text : Own(id, n + 1), other : {0} \union Own(id, n + 1), deps : SUBSET B!Tokens]
    BY <1>1, <1>2, <1>4, <1>6
  <1>9. \A r \in Own(id, n + 1) : rows[r].text <= rows[new.text].text
    <2> SUFFICES ASSUME NEW r \in Own(id, n + 1) PROVE rows[r].text <= rows[new.text].text
      OBVIOUS
    <2>1. rows[old.text].text \in Nat
      BY <1>3, <1>4
    <2>2. CASE r \in before
      <3>1. rows[r].text \in Nat /\ rows[r].text <= rows[old.text].text
        BY <1>3, <1>4, <2>2
      <3> QED
        BY <1>2, <1>7, <2>1, <3>1
    <2>3. CASE r = n + 1
      BY <1>2, <1>7, <2>1, <2>3
    <2> QED
      BY <1>1, <2>2, <2>3
  <1>10. \A r \in Own(id, n + 1) : rows[r].other => new.other \in 1 .. r
    <2> SUFFICES ASSUME NEW r \in Own(id, n + 1), rows[r].other PROVE new.other \in 1 .. r
      OBVIOUS
    <2>1. CASE r \in before
      <3>1. old.other \in 1 .. r /\ r \in Nat
        BY <1>3, <1>4, <2>1
      <3>2. new.other = old.other
        BY <1>7, <3>1
      <3> QED
        BY <3>1, <3>2
    <2>2. CASE r = n + 1
      <3>1. CASE old.other = 0
        BY <1>7, <2>2, <3>1
      <3>2. CASE old.other \in before
        <4>1. new.other = old.other \/ new.other = n + 1
          BY <1>7
        <4>2. old.other \in 1 .. n
          BY <1>1, <3>2
        <4> QED
          BY <2>2, <4>1, <4>2
      <3> QED
        BY <1>4, <3>1, <3>2
    <2> QED
      BY <1>1, <2>1, <2>2
  <1>11. new.deps = UNION {rows[r].deps : r \in Own(id, n + 1)}
    <2>1. UNION {rows[r].deps : r \in before \union {n + 1}} = (UNION {rows[r].deps : r \in before}) \union rows[n + 1].deps
      OBVIOUS
    <2> QED
      BY <1>1, <1>4, <1>7, <2>1
  <1> QED
    BY <1>8, <1>9, <1>10, <1>11 DEF Merged, new, id

(* The first row of an id is its node.                                      *)
LEMMA FreshIs ==
  ASSUME rows \in [1 .. NRows -> B!Row], NEW n \in Nat, NRows \in Nat, n + 1 <= NRows,
         Own(rows[n + 1].id, n) = {}
  PROVE  Merged(B!Fresh(n + 1), rows[n + 1].id, n + 1)
  <1> DEFINE id == rows[n + 1].id
             new == B!Fresh(n + 1)
  <1>1. Own(id, n + 1) = {n + 1} /\ n + 1 \in 1 .. NRows
    BY DEF Own
  <1>2. rows[n + 1].text \in Nat /\ rows[n + 1].deps \in SUBSET B!Tokens /\ rows[n + 1].other \in BOOLEAN
    BY <1>1, RowsAre
  <1>3. new = [type |-> "gap", text |-> n + 1, other |-> IF rows[n + 1].other THEN n + 1 ELSE 0, deps |-> rows[n + 1].deps]
    BY DEF B!Fresh
  <1> HIDE DEF new, id
  <1>4. new.deps = UNION {rows[r].deps : r \in Own(id, n + 1)}
    BY <1>1, <1>3
  <1>5. \A r \in Own(id, n + 1) : rows[r].text <= rows[new.text].text /\ (rows[r].other => new.other \in 1 .. r)
    BY <1>1, <1>2, <1>3
  <1>6. new \in [type : {"gap"}, text : Own(id, n + 1), other : {0} \union Own(id, n + 1), deps : SUBSET B!Tokens]
    <2>1. /\ n + 1 \in Own(id, n + 1) /\ (IF rows[n + 1].other THEN n + 1 ELSE 0) \in {0} \union Own(id, n + 1)
          /\ rows[n + 1].deps \in SUBSET B!Tokens
      BY <1>1, <1>2
    <2> QED
      BY <1>3, <2>1
  <1> QED
    BY <1>4, <1>5, <1>6 DEF Merged, new, id

LEMMA RowAdded == BuildInv /\ B!AddRow /\ UNCHANGED rows => BuildInv'
  <1> SUFFICES ASSUME BuildInv, B!AddRow, UNCHANGED rows PROVE BuildInv'
    OBVIOUS
  <1> DEFINE id == rows[at + 1].id
             new == IF id \in DOMAIN nodes THEN B!Merge(nodes[id], at + 1) ELSE B!Fresh(at + 1)
  <1>1. B!Turn("rows")
    BY DEF B!AddRow
  <1>2. /\ step = "rows" /\ step' = "rows" /\ at \in Nat /\ at' = at + 1 /\ at' \in Nat /\ NRows \in Nat
        /\ at' <= NRows /\ at + 1 \in 1 .. NRows /\ B!Items["rows"] = NRows
    BY <1>1, TurnsAre
  <1>3. linked' = linked /\ nodes' = [n \in (DOMAIN nodes) \union {id} |-> IF n = id THEN new ELSE nodes[n]]
    BY DEF B!AddRow, B!Set
  <1>4. /\ DOMAIN nodes = {rows[r].id : r \in 1 .. at} /\ rows \in [1 .. NRows -> B!Row]
        /\ \A m \in (DOMAIN nodes) \ B!Mods : Merged(nodes[m], m, at)
    BY <1>2 DEF BuildInv, RowsRead, ModulesRead
  <1>5. id \notin B!Mods => Merged(new, id, at + 1)
    <2>1. CASE id \in DOMAIN nodes
      BY <1>2, <1>4, <2>1, MergeKeeps
    <2>2. CASE id \notin DOMAIN nodes
      <3>1. Own(id, at) = {}
        BY <1>4, <2>2 DEF Own
      <3> QED
        BY <1>2, <1>4, <2>2, <3>1, FreshIs
    <2> QED
      BY <2>1, <2>2
  <1> HIDE DEF new
  <1>6. DOMAIN nodes' = {rows[r].id : r \in 1 .. at + 1}
    <2>1. 1 .. at + 1 = (1 .. at) \union {at + 1}
      BY <1>2
    <2> QED
      BY <1>3, <1>4, <2>1
  <1>7. \A m \in (DOMAIN nodes') \ B!Mods : Merged(nodes'[m], m, at + 1)
    <2> SUFFICES ASSUME NEW m \in (DOMAIN nodes') \ B!Mods PROVE Merged(nodes'[m], m, at + 1)
      OBVIOUS
    <2>1. CASE m = id
      BY <1>3, <1>5, <2>1
    <2>2. CASE m # id
      <3>1. m \in (DOMAIN nodes) \ B!Mods /\ nodes'[m] = nodes[m]
        BY <1>3, <2>2
      <3>2. Own(m, at + 1) = Own(m, at)
        BY <1>2, <2>2 DEF Own
      <3> QED
        BY <1>4, <3>1, <3>2 DEF Merged
    <2> QED
      BY <2>1, <2>2
  <1>8. \A m : Merged(nodes'[m], m, at + 1) => Merged(nodes[m], m, at)'
    BY <1>2 DEF Merged, Own
  <1>9. RowsRead' = at + 1 /\ ModulesRead' = {} /\ RowsLinked' = 0 /\ B!Mods' = B!Mods
    BY <1>2 DEF RowsRead, ModulesRead, RowsLinked, B!Mods, Modules
  <1>10. \A e \in linked' : e[1] \in DOMAIN nodes' /\ e[2] \in Ends'
    BY <1>3 DEF BuildInv, Ends, B!Mods, Modules
  <1> QED
    BY <1>2, <1>4, <1>6, <1>7, <1>8, <1>9, <1>10 DEF BuildInv, B!Items, B!Row

(* What is merged does not change with the rest of the graph.               *)
LEMMA MergedStays ==
  ASSUME NEW new, NEW id, NEW n, UNCHANGED rows
  PROVE  Merged(new, id, n) => Merged(new, id, n)'
  BY DEF Merged, Own

LEMMA ModuleAdded == BuildInv /\ B!AddModule /\ UNCHANGED rows => BuildInv'
  <1> SUFFICES ASSUME BuildInv, B!AddModule, UNCHANGED rows PROVE BuildInv'
    OBVIOUS
  <1> DEFINE m == Modules[at + 1]
             new == [type |-> "module", text |-> 0, other |-> 0, deps |-> {}]
  <1>1. B!Turn("modules")
    BY DEF B!AddModule
  <1>2. /\ step = "modules" /\ step' = "modules" /\ at \in Nat /\ at' = at + 1 /\ at' \in Nat /\ NRows \in Nat
        /\ at' <= Len(Modules) /\ at + 1 \in 1 .. Len(Modules) /\ B!Items["modules"] = Len(Modules)
    BY <1>1, TurnsAre
  <1>3. PICK imported \in B!SmallSets(B!Mods \union Unparsed) : linked' = linked \union ({m} \X imported)
    BY DEF B!AddModule
  <1>4. imported \subseteq B!Mods \union Unparsed
    BY <1>3 DEF B!SmallSets
  <1>5. nodes' = [n \in (DOMAIN nodes) \union {m} |-> IF n = m THEN new ELSE nodes[n]]
    BY DEF B!AddModule, B!Set
  <1>6. m \in B!Mods
    BY <1>2, ModulesAre
  <1>7. /\ DOMAIN nodes = {rows[r].id : r \in 1 .. NRows} \union {Modules[i] : i \in 1 .. at}
        /\ \A n \in (DOMAIN nodes) \ B!Mods : Merged(nodes[n], n, NRows)
        /\ \A e \in linked : e[1] \in DOMAIN nodes /\ e[2] \in Ends
    BY <1>2 DEF BuildInv, RowsRead, ModulesRead
  <1> HIDE DEF new
  <1>8. DOMAIN nodes' = {rows[r].id : r \in 1 .. NRows} \union {Modules[i] : i \in 1 .. at + 1}
    <2>1. 1 .. at + 1 = (1 .. at) \union {at + 1}
      BY <1>2
    <2> QED
      BY <1>5, <1>7, <2>1
  <1>9. \A n \in (DOMAIN nodes') \ B!Mods : Merged(nodes'[n], n, NRows)
    BY <1>5, <1>6, <1>7
  <1>10. RowsRead' = NRows /\ ModulesRead' = {Modules[i] : i \in 1 .. at + 1} /\ RowsLinked' = 0 /\ B!Mods' = B!Mods
    BY <1>2 DEF RowsRead, ModulesRead, RowsLinked, B!Mods, Modules
  <1>11. \A e \in linked' : e[1] \in DOMAIN nodes' /\ e[2] \in Ends'
    <2>1. Ends' = (DOMAIN nodes') \union B!Mods \union Unparsed
      BY <1>10 DEF Ends
    <2> QED
      BY <1>3, <1>4, <1>5, <1>6, <1>7, <2>1 DEF Ends
  <1>12. \A n \in (DOMAIN nodes') \ B!Mods : Merged(nodes[n], n, NRows)'
    BY <1>9, MergedStays
  <1>13. rows' \in [1 .. NRows -> B!Row'] /\ at' <= B!Items'["modules"]
    BY <1>2 DEF BuildInv, B!Items, B!Row, Modules
  <1>14. DOMAIN nodes' = {rows'[r].id : r \in 1 .. RowsRead'} \union ModulesRead'
    BY <1>8, <1>10
  <1> QED
    BY <1>2, <1>10, <1>11, <1>12, <1>13, <1>14 DEF BuildInv

(* _try_match_dependency finds a node.                                      *)
LEMMA MatchIs ==
  ASSUME NEW t \in B!Tokens
  PROVE  /\ B!Match(t) \subseteq (DOMAIN nodes) \union B!Mods
         /\ t.how = "exact" => t.which \intersect DOMAIN nodes \subseteq B!Match(t)
  <1>1. CASE t \in {B!Exact(n) : n \in Ids \union B!Mods}
    <2>1. PICK n : t = [how |-> "exact", which |-> {n}]
      BY <1>1 DEF B!Exact
    <2>2. B!Match(t) = IF {n} \subseteq DOMAIN nodes THEN {n} ELSE {}
      <3>1. t.how = "exact" /\ t.which = {n}
        BY <2>1
      <3> QED
        BY <3>1 DEF B!Match
    <2> QED
      BY <2>1, <2>2
  <1>2. CASE t \in {B!Part({}), B!Part(B!Mods)}
    <2>1. t.how = "part" /\ t.which \in {{}, B!Mods}
      BY <1>2 DEF B!Part
    <2>2. CASE t.which = {}
      BY <2>1, <2>2 DEF B!Match
    <2>3. CASE t.which = B!Mods /\ B!Mods # {}
      <3>1. 1 \in DOMAIN Modules /\ \A i \in DOMAIN Modules : Modules[i] \in B!Mods /\ i \in Nat /\ 1 <= i
        <4>1. Len(Modules) \in Nat /\ DOMAIN Modules = 1 .. Len(Modules) /\ \A i \in 1 .. Len(Modules) : Modules[i] \in B!Mods
          BY ModulesAre
        <4>2. Len(Modules) # 0
          BY <2>3, <4>1, ModulesAre
        <4> QED
          BY <4>1, <4>2
      <3> DEFINE First(i) == i \in DOMAIN Modules /\ Modules[i] \in B!Mods
                             /\ \A j \in DOMAIN Modules : Modules[j] \in B!Mods => i <= j
                 first == CHOOSE i : First(i)
      <3>2. First(first)
        BY <3>1
      <3>3. B!FirstOf(B!Mods) = Modules[first]
        BY DEF B!FirstOf
      <3>4. B!Match(t) = {B!FirstOf(B!Mods)}
        BY <2>1, <2>3 DEF B!Match
      <3> QED
        BY <2>1, <3>2, <3>3, <3>4
    <2> QED
      BY <2>1, <2>2, <2>3
  <1> QED
    BY <1>1, <1>2 DEF B!Tokens

(* Edges are added; the nodes are as they were.                             *)
LEMMA EdgesAdded ==
  ASSUME BuildInv, UNCHANGED <<rows, nodes>>, NEW loop \in {"dependencies", "files"}, B!Turn(loop),
         NEW id \in DOMAIN nodes, NEW found \in SUBSET Ends, linked' = linked \union ({id} \X found),
         loop = "dependencies" =>
           \A t \in rows[at + 1].deps : t.how = "exact" => {rows[at + 1].id} \X (t.which \intersect DOMAIN nodes) \subseteq linked'
  PROVE  BuildInv'
  <1>1. /\ step = loop /\ step' = loop /\ at \in Nat /\ at' = at + 1 /\ at' \in Nat /\ NRows \in Nat
        /\ at' <= NRows /\ at' <= B!Items[loop] /\ at + 1 \in 1 .. NRows
    BY TurnsAre
  <1>2. RowsRead' = RowsRead /\ ModulesRead' = ModulesRead /\ B!Mods' = B!Mods
    BY <1>1 DEF RowsRead, ModulesRead, B!Mods, Modules
  <1>3. \A n \in (DOMAIN nodes) \ B!Mods : Merged(nodes[n], n, RowsRead)'
    <2>1. \A n \in (DOMAIN nodes) \ B!Mods : Merged(nodes[n], n, RowsRead)
      BY DEF BuildInv
    <2> QED
      BY <1>2, <2>1 DEF Merged, Own
  <1>4. \A e \in linked' : e[1] \in DOMAIN nodes' /\ e[2] \in Ends'
    <2>1. Ends' = Ends
      BY <1>2 DEF Ends
    <2> QED
      BY <2>1 DEF BuildInv
  <1>5. \A r \in 1 .. RowsLinked' : \A t \in rows[r].deps :
          t.how = "exact" => {rows[r].id} \X (t.which \intersect DOMAIN nodes) \subseteq linked'
    <2>1. \A r \in 1 .. RowsLinked : \A t \in rows[r].deps :
            t.how = "exact" => {rows[r].id} \X (t.which \intersect DOMAIN nodes) \subseteq linked'
      BY DEF BuildInv
    <2>2. CASE loop = "dependencies"
      <3>1. RowsLinked = at /\ RowsLinked' = at + 1 /\ 1 .. at + 1 = (1 .. at) \union {at + 1}
        BY <1>1, <2>2 DEF RowsLinked
      <3> QED
        BY <2>1, <2>2, <3>1
    <2>3. CASE loop = "files"
      <3>1. RowsLinked = NRows /\ RowsLinked' = NRows
        BY <1>1, <2>3 DEF RowsLinked
      <3> QED
        BY <2>1, <3>1
    <2> QED
      BY <2>2, <2>3
  <1> QED
    BY <1>1, <1>2, <1>3, <1>4, <1>5 DEF BuildInv, B!Items, B!Row

LEMMA DependenciesLinked == BuildInv /\ B!LinkDependencies /\ UNCHANGED rows => BuildInv'
  <1> SUFFICES ASSUME BuildInv, B!LinkDependencies, UNCHANGED rows PROVE BuildInv'
    OBVIOUS
  <1> DEFINE row == rows[at + 1]
             found == UNION {B!Match(t) : t \in row.deps}
  <1>1. B!Turn("dependencies") /\ UNCHANGED nodes /\ linked' = linked \union ({row.id} \X found)
    BY DEF B!LinkDependencies
  <1>2. step = "dependencies" /\ at + 1 \in 1 .. NRows
    BY <1>1, TurnsAre
  <1>3. row.id \in DOMAIN nodes
    BY <1>2 DEF BuildInv, RowsRead
  <1>4. row.deps \subseteq B!Tokens
    BY <1>2, RowsAre DEF BuildInv
  <1> HIDE DEF row
  <1>5. found \in SUBSET Ends
    BY <1>4, MatchIs DEF Ends
  <1>6. \A t \in row.deps : t.how = "exact" => {row.id} \X (t.which \intersect DOMAIN nodes) \subseteq linked'
    <2> SUFFICES ASSUME NEW t \in row.deps, t.how = "exact" PROVE t.which \intersect DOMAIN nodes \subseteq found
      BY <1>1
    <2>1. t.which \intersect DOMAIN nodes \subseteq B!Match(t)
      BY <1>4, MatchIs
    <2> QED
      BY <2>1
  <1> HIDE DEF found
  <1> QED
    BY <1>1, <1>3, <1>5, <1>6, EdgesAdded DEF row

LEMMA FileLinked == BuildInv /\ B!LinkFile /\ UNCHANGED rows => BuildInv'
  <1> SUFFICES ASSUME BuildInv, B!LinkFile, UNCHANGED rows PROVE BuildInv'
    OBVIOUS
  <1>1. B!Turn("files") /\ UNCHANGED nodes
    BY DEF B!LinkFile
  <1>2. PICK file \in B!Tokens : linked' = linked \union ({rows[at + 1].id} \X B!Match(file))
    BY DEF B!LinkFile
  <1>3. step = "files" /\ at + 1 \in 1 .. NRows
    BY <1>1, TurnsAre
  <1>4. rows[at + 1].id \in DOMAIN nodes
    BY <1>3 DEF BuildInv, RowsRead
  <1>5. B!Match(file) \in SUBSET Ends
    BY MatchIs DEF Ends
  <1> QED
    BY <1>1, <1>2, <1>4, <1>5, EdgesAdded

LEMMA LoopEnded == BuildInv /\ B!NextLoop /\ UNCHANGED rows => BuildInv'
  <1> SUFFICES ASSUME BuildInv, B!NextLoop, UNCHANGED rows PROVE BuildInv'
    OBVIOUS
  <1>1. /\ step \in {"rows", "modules", "dependencies", "files"} /\ at = B!Items[step] /\ step' = B!After[step] /\ at' = 0
        /\ UNCHANGED <<nodes, linked>>
    BY DEF B!NextLoop, BuildInv
  <1>2. B!Mods' = B!Mods /\ B!Mods = {Modules[i] : i \in 1 .. Len(Modules)} /\ NRows \in Nat /\ Len(Modules) \in Nat
    BY ModulesAre, GraphAssumption DEF B!Mods, Modules
  <1>3. /\ RowsRead' = RowsRead /\ ModulesRead' = ModulesRead /\ RowsLinked' \in {0, RowsLinked}
        /\ step' \in {"modules", "dependencies", "files", "built"} /\ (step' # "built" => 0 <= B!Items[step'])
    <2>1. CASE step = "rows"
      <3>1. at = NRows /\ step' = "modules"
        BY <1>1, <2>1 DEF B!Items, B!After
      <3> QED
        BY <1>1, <1>2, <2>1, <3>1 DEF RowsRead, ModulesRead, RowsLinked, B!Items
    <2>2. CASE step = "modules"
      <3>1. at = Len(Modules) /\ step' = "dependencies"
        BY <1>1, <2>2 DEF B!Items, B!After
      <3> QED
        BY <1>1, <1>2, <2>2, <3>1 DEF RowsRead, ModulesRead, RowsLinked, B!Items
    <2>3. CASE step = "dependencies"
      <3>1. at = NRows /\ step' = "files"
        BY <1>1, <2>3 DEF B!Items, B!After
      <3> QED
        BY <1>1, <1>2, <2>3, <3>1 DEF RowsRead, ModulesRead, RowsLinked, B!Items
    <2>4. CASE step = "files"
      <3>1. at = NRows /\ step' = "built"
        BY <1>1, <2>4 DEF B!Items, B!After
      <3> QED
        BY <1>1, <1>2, <2>4, <3>1 DEF RowsRead, ModulesRead, RowsLinked, B!Items
    <2> QED
      BY <1>1, <2>1, <2>2, <2>3, <2>4
  <1>4. \A n \in (DOMAIN nodes) \ B!Mods : Merged(nodes[n], n, RowsRead)'
    <2>1. \A n \in (DOMAIN nodes) \ B!Mods : Merged(nodes[n], n, RowsRead)
      BY DEF BuildInv
    <2> QED
      BY <1>1, <1>3, <2>1 DEF Merged, Own
  <1>5. Ends' = Ends
    BY <1>1, <1>2 DEF Ends
  <1>6. \A r \in 1 .. RowsLinked' : \A t \in rows[r].deps :
          t.how = "exact" => {rows[r].id} \X (t.which \intersect DOMAIN nodes) \subseteq linked
    BY <1>3 DEF BuildInv
  <1> QED
    BY <1>1, <1>2, <1>3, <1>4, <1>5, <1>6 DEF BuildInv, B!Items, B!Row

LEMMA BuildInit == B!Init => BuildInv
  <1> SUFFICES ASSUME B!Init PROVE BuildInv
    OBVIOUS
  <1>1. rows \in [1 .. NRows -> B!Row] /\ step = "rows" /\ at = 0 /\ nodes = <<>> /\ DOMAIN nodes = {} /\ linked = {}
    BY DEF B!Init
  <1>2. RowsRead = 0 /\ ModulesRead = {} /\ RowsLinked = 0 /\ B!Items["rows"] = NRows /\ NRows \in Nat
    BY <1>1, GraphAssumption DEF RowsRead, ModulesRead, RowsLinked, B!Items
  <1> QED
    BY <1>1, <1>2 DEF BuildInv

LEMMA BuildStep == BuildInv /\ B!Next => BuildInv'
  BY RowAdded, ModuleAdded, DependenciesLinked, FileLinked, LoopEnded DEF B!Next

LEMMA BuildStutter == BuildInv /\ UNCHANGED bVars => BuildInv'
  <1> SUFFICES ASSUME BuildInv, UNCHANGED <<step, rows, at, nodes, linked>> PROVE BuildInv'
    BY DEF bVars
  <1>1. RowsRead' = RowsRead /\ ModulesRead' = ModulesRead /\ RowsLinked' = RowsLinked /\ Ends' = Ends /\ B!Mods' = B!Mods
    BY DEF RowsRead, ModulesRead, RowsLinked, Ends, B!Mods, Modules
  <1>2. \A id \in (DOMAIN nodes) \ B!Mods : Merged(nodes[id], id, RowsRead)'
    <2>1. \A id \in (DOMAIN nodes) \ B!Mods : Merged(nodes[id], id, RowsRead)
      BY DEF BuildInv
    <2> QED
      BY <1>1, <2>1 DEF Merged, Own
  <1>3. rows' \in [1 .. NRows -> B!Row'] /\ (step' # "built" => at' <= B!Items'[step'])
    BY DEF BuildInv, B!Items, B!Row, Modules
  <1> QED
    BY <1>1, <1>2, <1>3 DEF BuildInv

LEMMA BuildSafe == BuildInv => B!GraphWhole
  <1> SUFFICES ASSUME BuildInv, step = "built" PROVE B!GraphWhole
    BY DEF B!GraphWhole
  <1>1. RowsRead = NRows /\ ModulesRead = B!Mods /\ RowsLinked = NRows
    BY DEF RowsRead, ModulesRead, RowsLinked
  <1>2. DOMAIN nodes = {rows[r].id : r \in 1 .. NRows} \union B!Mods
    BY <1>1 DEF BuildInv
  <1>3. \A e \in linked : e[1] \in DOMAIN nodes /\ e[2] \in (DOMAIN nodes) \union Unparsed
    BY <1>2 DEF BuildInv, Ends
  <1>4. ASSUME NEW id \in (DOMAIN nodes) \ B!Mods
        PROVE  /\ \A r \in B!RowsOf(id) : rows[r].text <= B!TextOf(nodes[id].text)
               /\ \A r \in B!RowsOf(id) : rows[r].other => nodes[id].other \in 1 .. r
               /\ nodes[id].deps = UNION {rows[r].deps : r \in B!RowsOf(id)}
               /\ \A t \in nodes[id].deps : t.how = "exact" => {id} \X (t.which \intersect DOMAIN nodes) \subseteq linked
    <2> DEFINE new == nodes[id]
    <2>1. Merged(new, id, NRows) /\ B!RowsOf(id) = Own(id, NRows) /\ Own(id, NRows) \subseteq 1 .. NRows
      BY <1>1, <1>4 DEF BuildInv, B!RowsOf, Own
    <2> HIDE DEF new
    <2>2. /\ \A r \in Own(id, NRows) : rows[r].text <= rows[new.text].text /\ (rows[r].other => new.other \in 1 .. r)
          /\ new.deps = UNION {rows[r].deps : r \in Own(id, NRows)}
          /\ new.text \in Own(id, NRows)
      BY <2>1 DEF Merged
    <2>3. B!TextOf(new.text) = rows[new.text].text
      BY <2>1, <2>2 DEF B!TextOf
    <2>4. \A t \in new.deps : t.how = "exact" => {id} \X (t.which \intersect DOMAIN nodes) \subseteq linked
      <3> SUFFICES ASSUME NEW t \in new.deps, t.how = "exact" PROVE {id} \X (t.which \intersect DOMAIN nodes) \subseteq linked
        OBVIOUS
      <3>1. PICK r \in Own(id, NRows) : t \in rows[r].deps
        BY <2>2
      <3>2. r \in 1 .. NRows /\ rows[r].id = id
        BY <2>1 DEF Own
      <3> QED
        BY <1>1, <3>1, <3>2 DEF BuildInv
    <2> QED
      BY <2>1, <2>2, <2>3, <2>4 DEF new
  <1> QED
    BY <1>2, <1>3, <1>4 DEF B!GraphWhole

------------------------------------------------------------------------------
(* The graph that is built from any rows and modules is whole: a node for   *)
(* each row's id and each module, the longest text, the first value and all *)
(* dependencies of the rows of an id, and the edges that rows name          *)
(* (Graph.build).  On every graph of any size, with any choice of nodes and *)
(* any order in which a search takes nodes and edges: detect_cycles reports *)
(* cycles, and one if there is one; topological_sort puts each node behind  *)
(* all that lead to it, and lacks some exactly if there is a cycle;         *)
(* impact_analysis lists nodes at the length of a path to the root and      *)
(* misses no direct dependent; get_critical_path returns a path.            *)
THEOREM GraphIsRight == Spec => []GraphRight
  <1> DEFINE Inv == (part = "search" => SearchInv) /\ (part = "graph" => BuildInv)
  <1>1. Init => Inv
    BY SearchInit, BuildInit DEF Init
  <1>2. Inv /\ [Next]_<<part, gVars, rVars, bVars, tVars, cVars>> => Inv'
    <2> SUFFICES ASSUME Inv, [Next]_<<part, gVars, rVars, bVars, tVars, cVars>> PROVE Inv'
      OBVIOUS
    <2>1. ASSUME part' = "search" PROVE SearchInv'
      <3>1. CASE part = "search" /\ G!Next
        BY <3>1, SearchStep
      <3>2. CASE UNCHANGED <<part, gVars>>
        BY <2>1, <3>2, SearchStutter
      <3>3. (part = "search" /\ G!Next) \/ UNCHANGED <<part, gVars>>
        BY DEF Next
      <3> QED
        BY <3>1, <3>2, <3>3
    <2>2. ASSUME part' = "graph" PROVE BuildInv'
      <3>1. CASE part = "graph" /\ B!Next
        BY <3>1, BuildStep
      <3>2. CASE UNCHANGED <<part, bVars>>
        BY <2>2, <3>2, BuildStutter
      <3>3. (part = "graph" /\ B!Next) \/ UNCHANGED <<part, bVars>>
        BY DEF Next
      <3> QED
        BY <3>1, <3>2, <3>3
    <2> QED
      BY <2>1, <2>2
  <1>3. Inv => GraphRight
    BY SearchSafe, BuildSafe DEF GraphRight
  <1> QED
    BY <1>1, <1>2, <1>3, PTL DEF Spec
==============================================================================
