------------------------------- MODULE DataProofs -------------------------------
(***************************************************************************)
(* Proofs that what the codecs, the rows of the roadmap and the taxonomy   *)
(* make of their data is right, for streams, rows and taxonomies of any    *)
(* size: the invariant DataRight of MCAlgorithms.  Each of the three parts *)
(* has an inductive invariant of its own.  Most of it is induction over    *)
(* data, which is here induction over a set of numbers: those up to which  *)
(* something holds.                                                        *)
(***************************************************************************)
EXTENDS MCAlgorithms, Integers, Sequences, FiniteSetTheorems, SequenceTheorems,
        WellFoundedInduction, TLAPS

------------------------------------------------------------------------------
(* Induction and recursion along the numbers, from the well-foundedness of   *)
(* their order: what holds at 0 and is handed on holds up to any bound, and *)
(* a recursion has one solution.  With them, what flattening and joining    *)
(* sequences gives.                                                         *)
Below == {pair \in Nat \X Nat : pair[1] < pair[2]}

(* A set of numbers that is not empty has a least one.                      *)
LEMMA Least ==
  ASSUME NEW X \in SUBSET Nat, X # {}
  PROVE  \E n \in X : \A m \in X : n <= m
  <1>1. IsWellFoundedOn(Below, Nat)
    BY NatLessThanWellFounded DEF OpToRel, Below
  <1>2. PICK n \in X : \A m \in X : ~ (<<m, n>> \in Below)
    BY <1>1, WFMin
  <1>3. ASSUME NEW m \in X PROVE n <= m
    <2>1. m \in Nat /\ n \in Nat /\ ~ (<<m, n>> \in Below)
      BY <1>2
    <2>2. ~ (m < n)
      BY <2>1 DEF Below
    <2> QED
      BY <2>1, <2>2
  <1> QED
    BY <1>3

(* Induction, with the set of the numbers of which something holds.         *)
LEMMA Induction ==
  ASSUME NEW P, 0 \in P, \A n \in Nat : n \in P => n + 1 \in P
  PROVE  Nat \subseteq P
  <1> SUFFICES ASSUME Nat \ P # {} PROVE FALSE
    OBVIOUS
  <1>1. PICK n \in Nat \ P : \A m \in Nat \ P : n <= m
    BY Least
  <1>2. n - 1 \in Nat
    BY <1>1
  <1> QED
    BY <1>1, <1>2

(* Up to a bound. *)
LEMMA Bounded ==
  ASSUME NEW n \in Nat, NEW P, 0 \in P, \A k \in 0 .. n - 1 : k \in P => k + 1 \in P
  PROVE  0 .. n \subseteq P
  <1> DEFINE Q == {k \in Nat : k <= n => k \in P}
  <1>1. 0 \in Q
    OBVIOUS
  <1>2. \A k \in Nat : k \in Q => k + 1 \in Q
    OBVIOUS
  <1>3. Nat \subseteq Q
    <2> HIDE DEF Q
    <2> QED
      BY <1>1, <1>2, Induction
  <1> QED
    BY <1>3

(* A recursion along 0 .. n has a solution.                                 *)
Solves(f, n, base, move) == f[0] = base /\ \A k \in 0 .. n - 1 : f[k + 1] = move[k + 1][f[k]]

(* A recursion whose every step stays in a set has a solution.              *)
LEMMA Recursion ==
  ASSUME NEW n \in Nat, NEW S, NEW base \in S, NEW move \in [1 .. n -> [S -> S]]
  PROVE  \E f \in [0 .. n -> S] : Solves(f, n, base, move)
  <1> DEFINE P == {m \in 0 .. n : \E f \in [0 .. m -> S] : Solves(f, m, base, move)}
  <1>1. 0 \in P
    <2> DEFINE g == [k \in 0 .. 0 |-> base]
    <2>1. g \in [0 .. 0 -> S] /\ g[0] = base /\ 0 \in 0 .. n
      OBVIOUS
    <2>2. Solves(g, 0, base, move)
      BY <2>1 DEF Solves
    <2> HIDE DEF g
    <2> QED
      BY <2>1, <2>2
  <1>2. ASSUME NEW m \in 0 .. n - 1, m \in P PROVE m + 1 \in P
    <2>1. PICK f \in [0 .. m -> S] : Solves(f, m, base, move)
      BY <1>2
    <2>2. m + 1 \in 1 .. n /\ m \in Nat /\ m \in 0 .. m /\ move[m + 1] \in [S -> S] /\ f[m] \in S
      BY <2>1
    <2> DEFINE g == [k \in 0 .. m + 1 |-> IF k <= m THEN f[k] ELSE move[m + 1][f[m]]]
    <2>3. move[m + 1][f[m]] \in S
      BY <2>2
    <2>4. g \in [0 .. m + 1 -> S] /\ g[0] = base
      BY <2>1, <2>2, <2>3 DEF Solves
    <2>5. ASSUME NEW k \in 0 .. m PROVE g[k + 1] = move[k + 1][g[k]]
      <3>1. CASE k < m
        <4>1. k \in 0 .. m - 1 /\ k \in 0 .. m + 1 /\ k + 1 \in 0 .. m + 1 /\ k + 1 <= m
          BY <3>1, <2>2
        <4>2. g[k] = f[k] /\ g[k + 1] = f[k + 1]
          BY <4>1
        <4> QED
          BY <4>1, <4>2, <2>1 DEF Solves
      <3>2. CASE k = m
        <4>1. g[m + 1] = move[m + 1][f[m]] /\ g[m] = f[m]
          BY <2>2
        <4> QED
          BY <3>2, <4>1
      <3> QED
        BY <3>1, <3>2, <2>2
    <2> HIDE DEF g
    <2>6. Solves(g, m + 1, base, move)
      BY <2>2, <2>4, <2>5 DEF Solves
    <2> QED
      BY <2>2, <2>4, <2>6
  <1>3. n \in P
    <2> HIDE DEF P
    <2>1. 0 .. n \subseteq P
      BY <1>1, <1>2, Bounded
    <2> QED
      BY <2>1
  <1> QED
    BY <1>3

Flat(seqs) ==
  IF Len(seqs) = 0 THEN seqs ELSE
    LET flatten[i \in 1..Len(seqs)] ==
        IF i = 1 THEN seqs[i] ELSE flatten[i-1] \o seqs[i]
    IN flatten[Len(seqs)]

(* Two solutions of one recursion are equal.                                *)
LEMMA SameSolution ==
  ASSUME NEW n \in Nat, NEW f, NEW g, f[0] = g[0],
         \A k \in 0 .. n - 1 : f[k] = g[k] => f[k + 1] = g[k + 1]
  PROVE  \A k \in 0 .. n : f[k] = g[k]
  <1> DEFINE P == {k \in 0 .. n : f[k] = g[k]}
  <1>1. 0 \in P
    OBVIOUS
  <1>2. ASSUME NEW k \in 0 .. n - 1, k \in P PROVE k + 1 \in P
    BY <1>2
  <1>3. 0 .. n \subseteq P
    <2> HIDE DEF P
    <2> QED
      BY <1>1, <1>2, Bounded
  <1> QED
    BY <1>3

(* What flattening the first n, for each n, gives.                          *)
Sums(s, f) ==
  /\ f[0] = <<>> /\ \A k \in 0 .. Len(s) - 1 : f[k + 1] = f[k] \o s[k + 1]
  /\ Flat(s) = f[Len(s)]

(* Flattening sequences of a set is the last of the sums of their first     *)
(* ones.                                                                    *)
LEMMA FlatIs ==
  ASSUME NEW X, NEW s \in Seq(Seq(X))
  PROVE  \E f \in [0 .. Len(s) -> Seq(X)] : Sums(s, f)
  <1> DEFINE n == Len(s)
             Z == Seq(X)
             move == [k \in 1 .. n |-> [z \in Z |-> z \o s[k]]]
             E(h) == h = [i \in 1 .. Len(s) |-> IF i = 1 THEN s[i] ELSE h[i - 1] \o s[i]]
  <1>1. n \in Nat /\ Len(s) = n /\ <<>> \in Z
        /\ \A k \in 1 .. n : s[k] \in Z /\ <<>> \o s[k] = s[k] /\ \A z \in Z : z \o s[k] \in Z
    <2>1. \A k \in 1 .. n : s[k] \in Z
      OBVIOUS
    <2> QED
      BY <2>1
  <1> HIDE DEF n, Z
  <1>2. move \in [1 .. n -> [Z -> Z]]
    BY <1>1
  <1>3. PICK f \in [0 .. n -> Z] : Solves(f, n, <<>>, move)
    <2> HIDE DEF move
    <2> QED
      BY <1>1, <1>2, Recursion
  <1>4. ASSUME NEW k \in 0 .. n - 1 PROVE f[k + 1] = f[k] \o s[k + 1]
    <2>1. k + 1 \in 1 .. n /\ k \in 0 .. n
      BY <1>1
    <2>2. f[k] \in Z
      BY <2>1
    <2> QED
      BY <1>3, <2>1, <2>2 DEF Solves
  <1> HIDE DEF move
  <1>5. CASE n = 0
    <2>1. s = <<>>
      BY <1>1, <1>5
    <2> QED
      BY <1>1, <1>3, <1>5, <2>1 DEF Flat, Sums, Solves, Z
  <1>6. CASE n # 0
    <2> DEFINE g == [i \in 1 .. n |-> f[i]]
    <2>1. E(g)
      <3>1. ASSUME NEW i \in 1 .. n PROVE g[i] = IF i = 1 THEN s[i] ELSE g[i - 1] \o s[i]
        <4>1. PICK k \in 0 .. n - 1 : i = k + 1
          <5>1. i - 1 \in 0 .. n - 1 /\ i = (i - 1) + 1
            BY <1>1
          <5> QED
            BY <5>1
        <4>2. f[i] = f[k] \o s[i] /\ i - 1 = k
          <5>1. f[k + 1] = f[k] \o s[k + 1]
            BY <1>4
          <5> QED
            BY <4>1, <5>1
        <4>3. CASE i = 1
          <5>1. k = 0 /\ f[k] = <<>>
            BY <1>3, <4>1, <4>3 DEF Solves
          <5> QED
            BY <1>1, <4>2, <4>3, <5>1
        <4>4. CASE i # 1
          <5>1. k \in 1 .. n
            BY <4>1, <4>4, <1>1
          <5> QED
            BY <4>2, <4>4, <5>1
        <4> QED
          BY <4>3, <4>4
      <3> QED
        BY <1>1, <3>1
    <2> DEFINE h == CHOOSE h : E(h)
    <2>2. E(h)
      <3> HIDE DEF g, E
      <3> QED
        BY <2>1
    <2>3. Flat(s) = h[n]
      BY <1>1, <1>6 DEF Flat
    <2>4. \A i \in 1 .. n : h[i] = IF i = 1 THEN s[i] ELSE h[i - 1] \o s[i]
      BY <1>1, <2>2
    <2> HIDE DEF h
    <2> DEFINE P == {k \in 0 .. n : k = 0 \/ h[k] = f[k]}
    <2>5. 0 \in P
      BY <1>1
    <2>6. ASSUME NEW k \in 0 .. n - 1, k \in P PROVE k + 1 \in P
      <3>1. k + 1 \in 1 .. n /\ k + 1 \in 0 .. n /\ k + 1 - 1 = k /\ k \in 0 .. n
        BY <1>1
      <3>2. h[k + 1] = IF k + 1 = 1 THEN s[k + 1] ELSE h[k] \o s[k + 1]
        BY <2>4, <3>1
      <3>3. f[k + 1] = f[k] \o s[k + 1]
        BY <1>4
      <3>4. CASE k = 0
        <4>1. <<>> \o s[k + 1] = s[k + 1]
          BY <1>1, <3>1
        <4> QED
          BY <3>1, <3>2, <3>3, <3>4, <4>1, <1>3 DEF Solves
      <3>5. CASE k # 0
        <4>1. h[k] = f[k] /\ k + 1 # 1
          BY <2>6, <3>5, <3>1
        <4> QED
          BY <3>1, <3>2, <3>3, <4>1
      <3> QED
        BY <3>4, <3>5
    <2>7. h[n] = f[n]
      <3> HIDE DEF P, n
      <3>1. 0 .. n \subseteq P
        BY <1>1, <2>5, <2>6, Bounded
      <3> QED
        BY <1>1, <1>6, <3>1 DEF P
    <2> QED
      BY <1>1, <1>3, <1>4, <2>3, <2>7 DEF Sums, Solves, Z
  <1> QED
    BY <1>5, <1>6

(* Each of these sums is what flattening so many of the sequences gives.    *)
LEMMA FlatFirst ==
  ASSUME NEW X, NEW s \in Seq(Seq(X))
  PROVE  \E f \in [0 .. Len(s) -> Seq(X)] :
            Sums(s, f) /\ \A n \in 0 .. Len(s) : Flat([i \in 1 .. n |-> s[i]]) = f[n]
  <1>1. PICK f \in [0 .. Len(s) -> Seq(X)] : Sums(s, f)
    BY FlatIs
  <1>2. ASSUME NEW n \in 0 .. Len(s) PROVE Flat([i \in 1 .. n |-> s[i]]) = f[n]
    <2> DEFINE p == [i \in 1 .. n |-> s[i]]
    <2>1. n \in Nat /\ p \in Seq(Seq(X)) /\ Len(p) = n /\ \A k \in 0 .. n - 1 : p[k + 1] = s[k + 1]
          /\ k \in 0 .. Len(s) - 1
      OBVIOUS
    <2> HIDE DEF p
    <2>2. PICK g \in [0 .. n -> Seq(X)] : Sums(p, g)
      <3>1. \E g \in [0 .. Len(p) -> Seq(X)] : Sums(p, g)
        BY <2>1, FlatIs
      <3> QED
        BY <2>1, <3>1
    <2>3. g[0] = f[0] /\ \A k \in 0 .. n - 1 : g[k] = f[k] => g[k + 1] = f[k + 1]
      BY <1>1, <2>1, <2>2 DEF Sums
    <2>4. \A k \in 0 .. n : g[k] = f[k]
      <3>1. n \in Nat
        BY <2>1
      <3> QED
        BY ONLY <2>3, <3>1, SameSolution
    <2>5. Flat(p) = f[n]
      BY <2>1, <2>2, <2>4 DEF Sums
    <2> QED
      BY <2>5 DEF p
  <1> QED
    BY <1>1, <1>2

(* A sequence more adds its elements at the end.                            *)
LEMMA FlatAppend ==
  ASSUME NEW X, NEW s \in Seq(Seq(X)), NEW x \in Seq(X)
  PROVE  Flat(s) \in Seq(X) /\ Flat(Append(s, x)) = Flat(s) \o x /\ Flat(Append(s, x)) \in Seq(X)
  <1> DEFINE t == Append(s, x)
             n == Len(s)
  <1>1. n \in Nat /\ t \in Seq(Seq(X)) /\ Len(t) = n + 1 /\ t[n + 1] = x /\ s = [i \in 1 .. n |-> t[i]]
    OBVIOUS
  <1> HIDE DEF t, n
  <1>2. PICK f \in [0 .. Len(t) -> Seq(X)] : Sums(t, f)
        /\ \A m \in 0 .. Len(t) : Flat([i \in 1 .. m |-> t[i]]) = f[m]
    BY <1>1, FlatFirst
  <1>3. n \in 0 .. Len(t) /\ n + 1 \in 0 .. Len(t) /\ n \in 0 .. Len(t) - 1
    BY <1>1
  <1>4. Flat(s) = f[n]
    <2>1. Flat([i \in 1 .. n |-> t[i]]) = f[n]
      BY <1>2, <1>3
    <2> QED
      BY <1>1, <2>1
  <1>5. f[n + 1] = f[n] \o x /\ Flat(t) = f[n + 1]
    BY <1>1, <1>2, <1>3 DEF Sums
  <1>6. f[n] \in Seq(X) /\ f[n + 1] \in Seq(X)
    BY <1>2, <1>3
  <1> QED
    BY <1>4, <1>5, <1>6 DEF t

(* Nothing is the flattening of nothing.                                    *)
LEMMA FlatEmpty == Flat(<<>>) = <<>>
  BY DEF Flat

(* One sequence behind another, to be reasoned about by the facts below alone. *)
Cat(s, t) == s \o t

(* How long it is and which elements it has,                                *)
LEMMA CatIs ==
  ASSUME NEW S, NEW s \in Seq(S), NEW t \in Seq(S)
  PROVE  /\ Cat(s, t) \in Seq(S) /\ Len(Cat(s, t)) = Len(s) + Len(t)
         /\ \A i \in 1 .. Len(s) : Cat(s, t)[i] = s[i]
         /\ \A i \in 1 .. Len(t) : Cat(s, t)[Len(s) + i] = t[i]
  BY DEF Cat

(* that it does not matter which are put together first,                    *)
LEMMA CatAssoc ==
  ASSUME NEW S, NEW s \in Seq(S), NEW t \in Seq(S), NEW u \in Seq(S)
  PROVE  Cat(Cat(s, t), u) = Cat(s, Cat(t, u))
  BY DEF Cat

(* that nothing adds nothing,                                               *)
LEMMA CatEmpty ==
  ASSUME NEW S, NEW s \in Seq(S)
  PROVE  Cat(s, <<>>) = s /\ Cat(<<>>, s) = s
  BY DEF Cat

(* that what stands behind a known sequence is determined,                  *)
LEMMA CatCancel ==
  ASSUME NEW S, NEW s \in Seq(S), NEW t \in Seq(S), NEW u \in Seq(S)
  PROVE  Cat(s, t) = Cat(s, u) => t = u
  <1>1. /\ Len(Cat(s, t)) = Len(s) + Len(t) /\ Len(Cat(s, u)) = Len(s) + Len(u)
        /\ \A i \in 1 .. Len(t) : Cat(s, t)[Len(s) + i] = t[i]
        /\ \A i \in 1 .. Len(u) : Cat(s, u)[Len(s) + i] = u[i]
    <2>1. Len(Cat(s, t)) = Len(s) + Len(t) /\ \A i \in 1 .. Len(t) : Cat(s, t)[Len(s) + i] = t[i]
      BY CatIs
    <2>2. Len(Cat(s, u)) = Len(s) + Len(u) /\ \A i \in 1 .. Len(u) : Cat(s, u)[Len(s) + i] = u[i]
      BY CatIs
    <2> QED
      BY <2>1, <2>2
  <1> HAVE Cat(s, t) = Cat(s, u)
  <1>2. Len(t) = Len(u)
    <2>1. Len(s) \in Nat /\ Len(t) \in Nat /\ Len(u) \in Nat
      OBVIOUS
    <2> QED
      BY <1>1, <2>1
  <1>3. \A i \in 1 .. Len(t) : t[i] = u[i]
    BY <1>1, <1>2
  <1> QED
    BY <1>2, <1>3

(* and that a sequence is its parts put together.                           *)
LEMMA CatSplit ==
  ASSUME NEW S, NEW s \in Seq(S), NEW n \in 0 .. Len(s)
  PROVE  /\ SubSeq(s, 1, n) \in Seq(S) /\ SubSeq(s, n + 1, Len(s)) \in Seq(S)
         /\ Len(SubSeq(s, 1, n)) = n /\ Len(SubSeq(s, n + 1, Len(s))) = Len(s) - n
         /\ Cat(SubSeq(s, 1, n), SubSeq(s, n + 1, Len(s))) = s
  <1>1. SubSeq(s, 1, n) \in Seq(S) /\ Len(SubSeq(s, 1, n)) = n
    OBVIOUS
  <1>2. SubSeq(s, n + 1, Len(s)) \in Seq(S) /\ Len(SubSeq(s, n + 1, Len(s))) = Len(s) - n
    OBVIOUS
  <1>3. SubSeq(s, 1, n) \o SubSeq(s, n + 1, Len(s)) = SubSeq(s, 1, Len(s))
    <2>1. 1 \in 1 .. Len(s) + 1 /\ n \in 1 - 1 .. Len(s) /\ Len(s) \in n .. Len(s)
      OBVIOUS
    <2> QED
      BY <2>1, ConcatAdjacentSubSeq
  <1>4. SubSeq(s, 1, Len(s)) = s
    OBVIOUS
  <1> QED
    BY <1>1, <1>2, <1>3, <1>4 DEF Cat

------------------------------------------------------------------------------
(* The codecs.                                                              *)
(* The library's operators mean the same in an instance.                    *)
LEMMA CodecCount == ASSUME NEW X PROVE C!Cardinality(X) = Cardinality(X)
  BY DEF C!Cardinality, Cardinality

(* So does flattening.                                                      *)
LEMMA CodecFlat == ASSUME NEW s PROVE C!FlattenSeq(s) = Flat(s)
  BY DEF C!FlattenSeq, Flat

Tokens == {"data", C!NL, "a", "b", "c", "1", "2"}
OneLine(body) == \A i \in 1 .. Len(body) : body[i] # C!NL

(* A frame whose one line is data: is read as what stands behind it.        *)
LEMMA ParseOne ==
  ASSUME NEW text \in Seq(Tokens), NEW n \in Nat, n = Len(text), NEW q \in 1 .. n, text[1] = "data",
         \A i \in 2 .. q : text[i] # C!NL,
         q = n \/ (q = n - 1 /\ text[n] = C!NL)
  PROVE  C!ParseSseFrame(text) = SubSeq(text, 2, q)
  <1>1. DOMAIN text = 1 .. n /\ text[1] # C!NL
    BY DEF C!NL
  <1>2. C!Starts(text) = {1}
    <2>1. ASSUME NEW i \in 1 .. n, text[i - 1] = C!NL, i # 1 PROVE FALSE
      <3>1. i - 1 \in 1 .. q
        BY <2>1
      <3>2. i - 1 = 1 \/ i - 1 \in 2 .. q
        BY <3>1
      <3> QED
        BY <1>1, <2>1, <3>2
    <2>2. 1 \in 1 .. n
      OBVIOUS
    <2> QED
      BY <1>1, <2>1, <2>2 DEF C!Starts
  <1>3. C!Cardinality({1}) = 1
    BY CodecCount, FS_Singleton
  <1>4. C!Nth({1}, 1) = 1
    <2>1. {j \in {1} : j <= 1} = {1}
      OBVIOUS
    <2>2. \E i \in {1} : C!Cardinality({j \in {1} : j <= i}) = 1
      BY <1>3, <2>1
    <2>3. C!Nth({1}, 1) \in {1}
      BY <2>2 DEF C!Nth
    <2> QED
      BY <2>3
  <1>5. C!Line(text, 2) = SubSeq(text, 2, q)
    <2> DEFINE ends == {j \in 2 .. Len(text) : text[j] = C!NL}
    <2>1. CASE q = n
      <3>1. ends = {}
        BY <2>1
      <3> QED
        BY <2>1, <3>1 DEF C!Line
    <2>2. CASE q = n - 1 /\ text[n] = C!NL
      <3>1. ends = {n}
        BY <2>2
      <3>2. C!First({n}) = n
        BY DEF C!First
      <3>3. (IF ends = {} THEN Len(text) ELSE C!First(ends) - 1) = q
        BY <2>2, <3>1, <3>2
      <3> QED
        BY <3>3 DEF C!Line
    <2> QED
      BY <2>1, <2>2
  <1>6. C!FlattenSeq([k \in 1 .. 1 - 1 |-> <<C!NL>> \o C!Line(text, C!Nth({1}, k + 1) + 1)]) = <<>>
    <2>1. [k \in 1 .. 1 - 1 |-> <<C!NL>> \o C!Line(text, C!Nth({1}, k + 1) + 1)] = <<>>
      OBVIOUS
    <2> QED
      BY <2>1, CodecFlat, FlatEmpty
  <1>7. SubSeq(text, 2, q) \o <<>> = SubSeq(text, 2, q)
    OBVIOUS
  <1>8. C!ParseSseFrame(text) =
          C!Line(text, C!Nth({1}, 1) + 1) \o
          C!FlattenSeq([k \in 1 .. 1 - 1 |-> <<C!NL>> \o C!Line(text, C!Nth({1}, k + 1) + 1)])
    <2>1. 1 # 0
      OBVIOUS
    <2> QED
      BY <1>2, <1>3, <2>1, Zenon DEF C!ParseSseFrame
  <1>9. C!Nth({1}, 1) + 1 = 2
    BY <1>4
  <1> QED
    BY <1>5, <1>6, <1>7, <1>8, <1>9

(* What encode_stream writes for a line: data: before it, a blank line      *)
(* behind.                                                                  *)
LEMMA FrameIs ==
  ASSUME NEW body \in Seq(Tokens), OneLine(body)
  PROVE  LET f == C!Frame(body)
             n == Len(body)
         IN  /\ n \in Nat /\ f \in Seq(Tokens) /\ Len(f) = n + 3
             /\ f[1] = "data" /\ f[n + 2] = C!NL /\ f[n + 3] = C!NL
             /\ \A i \in 1 .. n : f[i + 1] = body[i]
             /\ \A i \in 1 .. n + 1 : f[i] # C!NL
  <1> DEFINE n == Len(body)
             f == C!Frame(body)
             h == <<"data">> \o body
  <1>1. /\ n \in Nat /\ h \in Seq(Tokens) /\ Len(h) = n + 1
        /\ h[1] = "data" /\ \A i \in 1 .. n : h[i + 1] = body[i]
    <2>1. <<"data">> \in Seq(Tokens)
      BY DEF Tokens
    <2> QED
      BY <2>1
  <1>2. f = h \o <<C!NL, C!NL>> /\ C!NL \in Tokens /\ C!NL # "data"
    <2>1. f = h \o <<C!NL, C!NL>>
      BY DEF C!Frame
    <2> QED
      BY <2>1 DEF C!NL, Tokens
  <1> HIDE DEF f, h
  <1>3. f \in Seq(Tokens) /\ Len(f) = n + 3
    BY <1>1, <1>2
  <1>4. (\A i \in 1 .. n + 1 : f[i] = h[i]) /\ f[n + 2] = C!NL /\ f[n + 3] = C!NL
    BY <1>1, <1>2
  <1>5. ASSUME NEW i \in 1 .. n + 1 PROVE f[i] # C!NL
    <2>1. CASE i = 1
      BY <1>1, <1>2, <1>4, <2>1
    <2>2. CASE i # 1
      <3>1. PICK j \in 1 .. n : i = j + 1
        <4>1. i - 1 \in 1 .. n /\ i = (i - 1) + 1
          BY <1>1, <2>2
        <4> QED
          BY <4>1
      <3>2. body[j] # C!NL
        BY DEF OneLine
      <3> QED
        BY <1>1, <1>4, <3>1, <3>2
    <2> QED
      BY <2>1, <2>2
  <1>6. f[1] = "data" /\ \A i \in 1 .. n : f[i + 1] = body[i]
    BY <1>1, <1>4
  <1> QED
    BY <1>1, <1>3, <1>4, <1>5, <1>6 DEF f

(* The first frame of what is buffered and on the wire.                     *)
LEMMA FirstFrame ==
  ASSUME NEW body \in Seq(Tokens), OneLine(body), NEW more \in Seq(Tokens),
         NEW b \in Seq(Tokens), NEW w \in Seq(Tokens), Cat(b, w) = Cat(C!Frame(body), more)
  PROVE  LET n == Len(body)
             m == Len(b)
         IN
         /\ m < n + 3 => C!Boundaries(b) = {}
         /\ m >= n + 3 => /\ C!Boundaries(b) # {} /\ C!First(C!Boundaries(b)) = n + 2
                          /\ C!ParseSseFrame(SubSeq(b, 1, n + 1)) = body
                          /\ Cat(SubSeq(b, n + 4, m), w) = more
         /\ m < n + 3 /\ m > 0 => C!ParseSseFrame(b) \in Seq(Tokens) /\ C!IsPrefix(C!ParseSseFrame(b), body)
  <1> DEFINE n == Len(body)
             m == Len(b)
             f == C!Frame(body)
             all == Cat(b, w)
  <1>0. n \in Nat /\ m \in Nat
    OBVIOUS
  <1> USE <1>0
  <1>00. Len(body) = n /\ Len(b) = m
    OBVIOUS
  <1>1. /\ f \in Seq(Tokens) /\ Len(f) = n + 3
        /\ f[1] = "data" /\ f[n + 2] = C!NL /\ f[n + 3] = C!NL
        /\ \A i \in 1 .. n : f[i + 1] = body[i]
        /\ \A i \in 1 .. n + 1 : f[i] # C!NL
    BY FrameIs
  <1> HIDE DEF f
  <1>11. f \in Seq(Tokens) /\ Len(f) = n + 3
    BY <1>1
  <1>2. all = Cat(f, more)
    BY DEF f
  <1>3. \A i \in 1 .. m : b[i] = all[i]
    BY CatIs
  <1>4. \A i \in 1 .. n + 3 : all[i] = f[i]
    <2>1. \A i \in 1 .. Len(f) : Cat(f, more)[i] = f[i]
      BY <1>11, CatIs
    <2> HIDE DEF all
    <2> QED
      BY <1>11, <1>2, <2>1
  <1> HIDE DEF n, m
  <1>5. \A i \in 1 .. m : i <= n + 3 => b[i] = f[i]
    <2> HIDE DEF all
    <2> QED
      BY <1>00, <1>3, <1>4
  <1>6. C!Boundaries(b) = {i \in 1 .. m - 1 : b[i] = C!NL /\ b[i + 1] = C!NL}
    BY <1>00 DEF C!Boundaries
  <1>7. ASSUME NEW i \in C!Boundaries(b) PROVE i \in Nat /\ i >= n + 2 /\ i + 1 <= m
    <2>1. i \in 1 .. m /\ b[i] = C!NL /\ i + 1 <= m
      BY <1>6
    <2>2. ~ (i \in 1 .. n + 1)
      BY <1>1, <1>5, <2>1
    <2> QED
      BY <2>1, <2>2
  <1>8. CASE m < n + 3
    <2>1. C!Boundaries(b) = {}
      BY <1>7, <1>8
    <2>2. ASSUME m > 0 PROVE C!ParseSseFrame(b) \in Seq(Tokens) /\ C!IsPrefix(C!ParseSseFrame(b), body)
      <3> DEFINE q == IF m = n + 2 THEN n + 1 ELSE m
      <3>1. q \in 1 .. m /\ q <= n + 1
        BY <1>8, <2>2
      <3>2. b[1] = "data"
        BY <1>1, <1>5, <2>2
      <3>3. \A i \in 2 .. q : b[i] # C!NL
        BY <1>1, <1>5, <3>1
      <3>4. q = m \/ (q = m - 1 /\ b[m] = C!NL)
        BY <1>1, <1>5, <1>8
      <3> HIDE DEF q
      <3>5. C!ParseSseFrame(b) = SubSeq(b, 2, q)
        BY <1>00, <3>1, <3>2, <3>3, <3>4, ParseOne
      <3> DEFINE p == SubSeq(b, 2, q)
      <3>6. p \in Seq(Tokens) /\ Len(p) = q - 1 /\ \A i \in 1 .. q - 1 : p[i] = b[i + 1]
        BY <1>00, <3>1
      <3> HIDE DEF p
      <3>7. \A i \in 1 .. q - 1 : p[i] = body[i]
        <4>1. ASSUME NEW i \in 1 .. q - 1 PROVE p[i] = body[i]
          <5>1. i \in 1 .. n /\ i + 1 \in 1 .. m /\ i + 1 <= n + 3
            BY <3>1
          <5> QED
            BY <1>1, <1>5, <3>6, <5>1
        <4> QED
          BY <4>1
      <3>8. q - 1 \in Nat /\ q - 1 <= Len(body)
        BY <1>00, <3>1
      <3>9. SubSeq(p, 1, Len(p)) = SubSeq(body, 1, Len(p))
        BY <3>6, <3>7, <3>8
      <3> QED
        BY <3>5, <3>6, <3>8, <3>9 DEF C!IsPrefix, p
    <2> QED
      BY <1>8, <2>1, <2>2 DEF n, m
  <1>9. CASE m >= n + 3
    <2>1. n + 2 \in 1 .. m - 1 /\ b[n + 2] = C!NL /\ b[n + 3] = C!NL /\ n + 2 + 1 = n + 3
      BY <1>1, <1>5, <1>9
    <2>2. n + 2 \in C!Boundaries(b)
      BY <1>6, <2>1
    <2>3. C!First(C!Boundaries(b)) = n + 2
      <3>1. \A k \in C!Boundaries(b) : k \in Nat /\ n + 2 <= k
        BY <1>7
      <3>2. \A k \in C!Boundaries(b) : (\A j \in C!Boundaries(b) : k <= j) => k = n + 2
        BY <2>2, <3>1
      <3> QED
        BY <2>2, <3>1, <3>2 DEF C!First
    <2>4. C!ParseSseFrame(SubSeq(b, 1, n + 1)) = body
      <3> DEFINE t == SubSeq(b, 1, n + 1)
      <3>1. t \in Seq(Tokens) /\ Len(t) = n + 1 /\ \A i \in 1 .. n + 1 : t[i] = b[i]
        BY <1>00, <1>9
      <3> HIDE DEF t
      <3>2. \A i \in 1 .. n + 1 : t[i] = f[i]
        BY <1>5, <1>9, <3>1
      <3>3. t[1] = "data" /\ \A i \in 2 .. n + 1 : t[i] # C!NL
        BY <1>1, <3>2
      <3>4. C!ParseSseFrame(t) = SubSeq(t, 2, n + 1)
        <4>1. n + 1 \in Nat /\ n + 1 \in 1 .. n + 1
          OBVIOUS
        <4> QED
          BY <3>1, <3>3, <4>1, ParseOne
      <3>5. \A i \in 1 .. n : t[i + 1] = body[i]
        BY <1>1, <3>2
      <3>6. SubSeq(t, 2, n + 1) = body
        BY <1>00, <3>1, <3>5
      <3> QED
        BY <3>4, <3>6 DEF t
    <2>5. Cat(SubSeq(b, n + 4, m), w) = more
      <3> DEFINE r == SubSeq(b, n + 4, m)
      <3>1. r \in Seq(Tokens) /\ Len(r) = m - n - 3 /\ \A i \in 1 .. m - n - 3 : r[i] = b[n + 3 + i]
        BY <1>00, <1>9
      <3>2. b = Cat(f, r)
        <4> DEFINE fr == Cat(f, r)
        <4> HIDE DEF r
        <4>1. fr \in Seq(Tokens) /\ Len(fr) = m /\ (\A i \in 1 .. n + 3 : fr[i] = f[i])
              /\ \A i \in 1 .. m - n - 3 : fr[n + 3 + i] = r[i]
          <5>1. /\ fr \in Seq(Tokens) /\ Len(fr) = Len(f) + Len(r) /\ \A i \in 1 .. Len(f) : fr[i] = f[i]
                /\ \A i \in 1 .. Len(r) : fr[Len(f) + i] = r[i]
            <6>1. f \in Seq(Tokens) /\ r \in Seq(Tokens)
              BY <1>11, <3>1
            <6>2. fr \in Seq(Tokens) /\ Len(fr) = Len(f) + Len(r) /\ \A i \in 1 .. Len(f) : fr[i] = f[i]
              BY <6>1, CatIs, Zenon
            <6>3. \A i \in 1 .. Len(r) : fr[Len(f) + i] = r[i]
              BY ONLY <6>1, CatIs
            <6> QED
              BY <6>2, <6>3
          <5> HIDE DEF fr
          <5>2. Len(f) = n + 3 /\ Len(r) = m - n - 3 /\ n \in Nat /\ m \in Nat /\ n + 3 + (m - n - 3) = m
            BY <1>11, <3>1, <1>9
          <5> QED
            BY ONLY <5>1, <5>2
        <4> HIDE DEF fr
        <4>2. ASSUME NEW i \in 1 .. m PROVE b[i] = fr[i]
          <5>1. CASE i <= n + 3
            BY <1>5, <4>1, <5>1
          <5>2. CASE i > n + 3
            <6>1. PICK j \in 1 .. m - n - 3 : i = n + 3 + j
              <7>1. i - (n + 3) \in 1 .. m - n - 3 /\ i = n + 3 + (i - (n + 3))
                BY <5>2
              <7> QED
                BY <7>1
            <6> QED
              BY <3>1, <4>1, <6>1
          <5>3. i <= n + 3 \/ i > n + 3
            OBVIOUS
          <5> QED
            BY <5>1, <5>2, <5>3
        <4>3. b = fr
          BY <1>00, <4>1, <4>2
        <4> QED
          BY <4>3 DEF fr
      <3> HIDE DEF r
      <3>3. Cat(f, Cat(r, w)) = Cat(f, more)
        <4>1. Cat(Cat(f, r), w) = Cat(f, Cat(r, w))
          BY <1>11, <3>1, CatAssoc
        <4> QED
          BY <1>2, <3>2, <4>1
      <3>4. Cat(r, w) \in Seq(Tokens)
        BY <3>1, CatIs
      <3>5. Cat(r, w) = more
        BY <1>11, <3>3, <3>4, CatCancel
      <3> QED
        BY <3>5 DEF r
    <2> QED
      BY <1>9, <2>2, <2>3, <2>4, <2>5 DEF n, m
  <1>10. m < n + 3 \/ m >= n + 3
    OBVIOUS
  <1> QED
    BY <1>8, <1>9, <1>10

(* A frame is three tokens longer than its text, whatever that is.          *)
LEMMA FrameType ==
  ASSUME NEW body \in Seq(Tokens)
  PROVE  C!Frame(body) \in Seq(Tokens) /\ Len(C!Frame(body)) = Len(body) + 3
  <1>1. <<"data">> \in Seq(Tokens) /\ Len(<<"data">>) = 1
    BY DEF Tokens
  <1>2. <<C!NL, C!NL>> \in Seq(Tokens) /\ Len(<<C!NL, C!NL>>) = 2
    BY DEF Tokens
  <1> DEFINE a == <<"data">> \o body
  <1>3. a \in Seq(Tokens) /\ Len(a) = 1 + Len(body)
    BY <1>1
  <1> HIDE DEF a
  <1>4. a \o <<C!NL, C!NL>> \in Seq(Tokens) /\ Len(a \o <<C!NL, C!NL>>) = Len(a) + 2
    BY <1>2, <1>3
  <1>5. Len(body) \in Nat
    OBVIOUS
  <1> QED
    BY <1>3, <1>4, <1>5 DEF C!Frame, a

(* What is written for one object more ends with its frame.                 *)
LEMMA WrittenIs ==
  ASSUME sent \in Seq(Seq(Tokens))
  PROVE  /\ C!Written(0) = <<>>
         /\ \A n \in 0 .. Len(sent) : C!Written(n) \in Seq(Tokens)
         /\ \A n \in 0 .. Len(sent) - 1 : C!Written(n + 1) = Cat(C!Written(n), C!Frame(sent[n + 1]))
  <1> DEFINE N == Len(sent)
             s == [i \in 1 .. N |-> C!Frame(sent[i])]
  <1>1. N \in Nat /\ \A i \in 1 .. N : C!Frame(sent[i]) \in Seq(Tokens)
    <2>1. ASSUME NEW i \in 1 .. N PROVE sent[i] \in Seq(Tokens)
      OBVIOUS
    <2> QED
      BY <2>1, FrameType
  <1>2. s \in Seq(Seq(Tokens)) /\ Len(s) = N /\ \A i \in 1 .. N : s[i] = C!Frame(sent[i])
    <2> HIDE DEF N
    <2> QED
      BY <1>1
  <1> HIDE DEF s, N
  <1>3. PICK f \in [0 .. Len(s) -> Seq(Tokens)] : Sums(s, f)
        /\ \A n \in 0 .. Len(s) : Flat([i \in 1 .. n |-> s[i]]) = f[n]
    BY <1>2, FlatFirst
  <1>4. ASSUME NEW n \in 0 .. N PROVE C!Written(n) = f[n]
    <2>1. [i \in 1 .. n |-> C!Frame(sent[i])] = [i \in 1 .. n |-> s[i]]
      BY <1>1, <1>2
    <2>2. Flat([i \in 1 .. n |-> s[i]]) = f[n]
      BY <1>2, <1>3
    <2> QED
      BY <2>1, <2>2, CodecFlat DEF C!Written
  <1>5. f[0] = <<>> /\ \A n \in 0 .. N - 1 : f[n + 1] = Cat(f[n], C!Frame(sent[n + 1]))
    <2>1. f[0] = <<>> /\ \A n \in 0 .. N - 1 : f[n + 1] = f[n] \o s[n + 1]
      BY <1>2, <1>3 DEF Sums
    <2>2. \A n \in 0 .. N - 1 : s[n + 1] = C!Frame(sent[n + 1])
      BY <1>1, <1>2
    <2> QED
      BY <2>1, <2>2 DEF Cat
  <1>6. \A n \in 0 .. N : f[n] \in Seq(Tokens)
    BY <1>2, <1>3
  <1>7. 0 \in 0 .. N /\ \A n \in 0 .. N - 1 : n \in 0 .. N /\ n + 1 \in 0 .. N
    BY <1>1
  <1> QED
    BY <1>4, <1>5, <1>6, <1>7 DEF N

(* What is written for more objects begins with what is written for fewer.  *)
LEMMA WrittenRest ==
  ASSUME sent \in Seq(Seq(Tokens)), NEW n \in 0 .. Len(sent), NEW m \in n .. Len(sent)
  PROVE  \E more \in Seq(Tokens) : C!Written(m) = Cat(C!Written(n), more)
  <1> DEFINE N == Len(sent)
             P == {k \in 0 .. N : k >= n => \E more \in Seq(Tokens) : C!Written(k) = Cat(C!Written(n), more)}
  <1>1. N \in Nat /\ n \in 0 .. N /\ m \in 0 .. N /\ m >= n
    OBVIOUS
  <1>2. /\ \A k \in 0 .. N : C!Written(k) \in Seq(Tokens)
        /\ \A k \in 0 .. N - 1 : C!Written(k + 1) = Cat(C!Written(k), C!Frame(sent[k + 1]))
    BY WrittenIs
  <1>3. \A k \in 0 .. N - 1 : C!Frame(sent[k + 1]) \in Seq(Tokens)
    <2>1. ASSUME NEW k \in 0 .. N - 1 PROVE sent[k + 1] \in Seq(Tokens)
      OBVIOUS
    <2> QED
      BY <2>1, FrameType
  <1>4. <<>> \in Seq(Tokens) /\ C!Written(n) = Cat(C!Written(n), <<>>)
    BY <1>1, <1>2, CatEmpty
  <1> HIDE DEF N
  <1>5. 0 \in P
    <2>1. 0 \in 0 .. N
      BY <1>1
    <2>2. CASE n = 0
      <3>1. \E more \in Seq(Tokens) : C!Written(0) = Cat(C!Written(n), more)
        BY <1>4, <2>2
      <3> QED
        BY <2>1, <3>1
    <2>3. CASE n # 0
      <3>1. ~ (0 >= n)
        BY <1>1, <2>3
      <3> QED
        BY <2>1, <3>1
    <2> QED
      BY <2>2, <2>3
  <1>6. ASSUME NEW k \in 0 .. N - 1, k \in P PROVE k + 1 \in P
    <2>1. k + 1 \in 0 .. N
      BY <1>1
    <2>2. CASE k + 1 = n
      BY <1>4, <2>1, <2>2
    <2>3. CASE k >= n
      <3>1. PICK more \in Seq(Tokens) : C!Written(k) = Cat(C!Written(n), more)
        BY <1>6, <2>3
      <3>2. C!Written(k + 1) = Cat(Cat(C!Written(n), more), C!Frame(sent[k + 1]))
        BY <1>2, <3>1
      <3>3. C!Written(k + 1) = Cat(C!Written(n), Cat(more, C!Frame(sent[k + 1])))
        BY <1>1, <1>2, <1>3, <3>2, CatAssoc
      <3>4. Cat(more, C!Frame(sent[k + 1])) \in Seq(Tokens)
        BY <1>3, CatIs
      <3> QED
        BY <2>1, <3>3, <3>4
    <2>4. CASE k + 1 < n
      BY <2>1, <2>4, <1>1
    <2> QED
      BY <2>2, <2>3, <2>4, <1>1
  <1>7. 0 .. N \subseteq P
    <2> HIDE DEF P
    <2> QED
      BY <1>1, <1>5, <1>6, Bounded
  <1> QED
    BY <1>1, <1>7

Where(k, b, w) == C!Written(Len(sent)) = Cat(C!Written(k), Cat(b, w))

(* As long as an object is left, what is buffered and on the wire begins    *)
(* with its frame,                                                          *)
LEMMA Ahead ==
  ASSUME sent \in Seq(Seq(Tokens)), NEW k \in 0 .. Len(sent) - 1, NEW b \in Seq(Tokens),
         NEW w \in Seq(Tokens), Where(k, b, w)
  PROVE  \E more \in Seq(Tokens) : /\ Cat(b, w) = Cat(C!Frame(sent[k + 1]), more)
                                   /\ C!Written(Len(sent)) = Cat(C!Written(k + 1), more)
  <1> DEFINE N == Len(sent)
             f == C!Frame(sent[k + 1])
  <1>1. k + 1 \in 0 .. N /\ N \in (k + 1) .. N /\ k \in 0 .. N /\ N \in Nat
    OBVIOUS
  <1>2. PICK more \in Seq(Tokens) : C!Written(N) = Cat(C!Written(k + 1), more)
    BY <1>1, WrittenRest
  <1>3. sent[k + 1] \in Seq(Tokens)
    OBVIOUS
  <1>4. f \in Seq(Tokens)
    BY <1>3, FrameType
  <1>5. C!Written(k) \in Seq(Tokens) /\ C!Written(k + 1) = Cat(C!Written(k), f)
    BY <1>1, WrittenIs
  <1> HIDE DEF f, N
  <1>6. C!Written(N) = Cat(C!Written(k), Cat(f, more))
    BY <1>2, <1>4, <1>5, CatAssoc
  <1>7. C!Written(N) = Cat(C!Written(k), Cat(b, w))
    BY DEF Where, N
  <1>8. Cat(f, more) \in Seq(Tokens) /\ Cat(b, w) \in Seq(Tokens)
    BY <1>4, CatIs
  <1>9. Cat(b, w) = Cat(f, more)
    BY <1>5, <1>6, <1>7, <1>8, CatCancel
  <1> QED
    BY <1>2, <1>9 DEF f, N

(* and when none is left, nothing is.                                       *)
LEMMA Over ==
  ASSUME sent \in Seq(Seq(Tokens)), NEW b \in Seq(Tokens), NEW w \in Seq(Tokens), Where(Len(sent), b, w)
  PROVE  b = <<>> /\ w = <<>>
  <1> DEFINE W == C!Written(Len(sent))
  <1>1. W \in Seq(Tokens)
    <2>1. Len(sent) \in 0 .. Len(sent)
      OBVIOUS
    <2> QED
      BY <2>1, WrittenIs
  <1>2. W = Cat(W, Cat(b, w))
    BY DEF Where
  <1> HIDE DEF W
  <1>3. Cat(b, w) \in Seq(Tokens) /\ Len(Cat(b, w)) = Len(b) + Len(w)
    BY CatIs
  <1>4. Len(W) = Len(W) + Len(Cat(b, w))
    <2>1. Len(Cat(W, Cat(b, w))) = Len(W) + Len(Cat(b, w))
      BY <1>1, <1>3, CatIs
    <2> QED
      BY <1>2, <2>1
  <1>5. Len(W) \in Nat /\ Len(b) \in Nat /\ Len(w) \in Nat
    BY <1>1
  <1>6. Len(b) = 0 /\ Len(w) = 0
    BY <1>3, <1>4, <1>5
  <1> QED
    BY <1>6

(* The next frame, when there is a boundary, and when there is none.         *)
LEMMA AtFrame ==
  ASSUME sent \in Seq(Seq(Tokens)), \A i \in 1 .. Len(sent) : OneLine(sent[i]),
         NEW k \in 0 .. Len(sent), NEW b \in Seq(Tokens), NEW w \in Seq(Tokens), Where(k, b, w)
  PROVE  /\ C!Boundaries(b) # {} =>
              LET i == C!First(C!Boundaries(b))
                  rest == SubSeq(b, i + 2, Len(b))
              IN /\ k + 1 \in 0 .. Len(sent) /\ C!ParseSseFrame(SubSeq(b, 1, i - 1)) = sent[k + 1]
                 /\ rest \in Seq(Tokens) /\ Where(k + 1, rest, w)
         /\ C!Boundaries(b) = {} /\ Len(b) > 0 =>
              /\ k + 1 \in 0 .. Len(sent)
              /\ C!ParseSseFrame(b) \in Seq(Tokens) /\ C!IsPrefix(C!ParseSseFrame(b), sent[k + 1])
         /\ C!Boundaries(b) = {} /\ k < Len(sent) => Len(b) < Len(C!Frame(sent[k + 1]))
  <1> DEFINE N == Len(sent)
             body == sent[k + 1]
             n == Len(body)
             m == Len(b)
  <1>1. N \in Nat /\ k \in Nat /\ m \in Nat
    OBVIOUS
  <1>2. CASE k = N
    <2>1. b = <<>>
      BY <1>2, Over
    <2>2. C!Boundaries(b) = {} /\ ~ (Len(b) > 0)
      BY <2>1 DEF C!Boundaries
    <2> QED
      BY <1>1, <1>2, <2>2
  <1>3. CASE k # N
    <2>1. k \in 0 .. N - 1 /\ k + 1 \in 0 .. N /\ k + 1 \in 1 .. N
      BY <1>1, <1>3
    <2>2. body \in Seq(Tokens) /\ OneLine(body) /\ n \in Nat
      BY <2>1
    <2>3. PICK more \in Seq(Tokens) : /\ Cat(b, w) = Cat(C!Frame(body), more)
                                      /\ C!Written(N) = Cat(C!Written(k + 1), more)
      BY <2>1, Ahead
    <2>4. Len(C!Frame(body)) = n + 3
      BY <2>2, FrameType
    <2> HIDE DEF n, body, m, N
    <2>5. /\ m < n + 3 => C!Boundaries(b) = {}
          /\ m >= n + 3 => /\ C!Boundaries(b) # {} /\ C!First(C!Boundaries(b)) = n + 2
                           /\ C!ParseSseFrame(SubSeq(b, 1, n + 1)) = body
                           /\ Cat(SubSeq(b, n + 4, m), w) = more
          /\ m < n + 3 /\ m > 0 => C!ParseSseFrame(b) \in Seq(Tokens) /\ C!IsPrefix(C!ParseSseFrame(b), body)
      BY <2>2, <2>3, FirstFrame DEF n, m
    <2>6. CASE m < n + 3
      BY <1>1, <2>1, <2>2, <2>4, <2>5, <2>6 DEF body, m, N
    <2>7. CASE m >= n + 3
      <3>1. C!First(C!Boundaries(b)) + 2 = n + 4 /\ C!First(C!Boundaries(b)) - 1 = n + 1
        BY <2>2, <2>5, <2>7
      <3>2. SubSeq(b, n + 4, m) \in Seq(Tokens)
        BY <1>1, <2>2, <2>7 DEF m
      <3>3. Where(k + 1, SubSeq(b, n + 4, m), w)
        BY <2>3, <2>5, <2>7 DEF Where, N
      <3> QED
        BY <2>1, <2>5, <2>7, <3>1, <3>2, <3>3 DEF body, m, N
    <2> QED
      BY <1>1, <2>2, <2>6, <2>7
  <1> QED
    BY <1>2, <1>3

SseAt(k) ==
  /\ Where(k, buffer, wire)
  /\ Len(got) >= k /\ \A i \in 1 .. k : got[i] = sent[i]
  /\ Len(got) > k => /\ ended /\ Len(got) = k + 1 /\ k + 1 \in 0 .. Len(sent)
                     /\ C!IsPrefix(got[k + 1], sent[k + 1])

SseTyped == /\ buffer \in Seq(Tokens) /\ wire \in Seq(Tokens) /\ got \in Seq(Seq(Tokens))
            /\ ended => C!Boundaries(buffer) = {}
Plain == \A i \in 1 .. Len(sent) : OneLine(sent[i])

(* Between two frames the number that arrived whole is the number given.     *)
LEMMA WholeIs ==
  ASSUME sent \in Seq(Seq(Tokens)), Plain, SseTyped, C!Boundaries(buffer) = {},
         NEW k \in 0 .. Len(sent), SseAt(k)
  PROVE  C!Whole = k
  <1> DEFINE N == Len(sent)
             L(n) == Len(C!Written(n))
             arrived == L(N) - Len(wire)
             complete == {n \in 0 .. N : L(n) <= arrived}
  <1>1. N \in Nat /\ k \in 0 .. N /\ N \in 0 .. N
    OBVIOUS
  <1>2. \A n \in 0 .. N : C!Written(n) \in Seq(Tokens) /\ L(n) \in Nat
    <2>1. \A n \in 0 .. N : C!Written(n) \in Seq(Tokens)
      BY WrittenIs
    <2> HIDE DEF N
    <2> QED
      BY <2>1
  <1>3. buffer \in Seq(Tokens) /\ wire \in Seq(Tokens) /\ Len(buffer) \in Nat /\ Len(wire) \in Nat
    BY DEF SseTyped
  <1>4. L(N) = L(k) + (Len(buffer) + Len(wire))
    <2>1. Cat(buffer, wire) \in Seq(Tokens) /\ Len(Cat(buffer, wire)) = Len(buffer) + Len(wire)
      BY <1>3, CatIs
    <2>2. C!Written(N) = Cat(C!Written(k), Cat(buffer, wire))
      BY DEF SseAt, Where
    <2>3. C!Written(k) \in Seq(Tokens)
      BY <1>1, <1>2
    <2> HIDE DEF N
    <2>4. Len(Cat(C!Written(k), Cat(buffer, wire))) = Len(C!Written(k)) + Len(Cat(buffer, wire))
      BY <2>1, <2>3, CatIs
    <2> QED
      BY <2>1, <2>2, <2>4
  <1>5. k \in complete
    BY <1>1, <1>2, <1>3, <1>4
  <1>6. ASSUME NEW n \in complete PROVE n <= k
    <2> SUFFICES ASSUME n > k PROVE FALSE
      BY <1>1
    <2>1. k \in 0 .. N - 1 /\ k + 1 \in 0 .. N /\ n \in (k + 1) .. N
      BY <1>1
    <2>2. Len(buffer) < Len(C!Frame(sent[k + 1]))
      <3>1. Where(k, buffer, wire) /\ \A i \in 1 .. Len(sent) : OneLine(sent[i])
        BY DEF SseAt, Plain
      <3>2. C!Boundaries(buffer) = {} /\ k < Len(sent) => Len(buffer) < Len(C!Frame(sent[k + 1]))
        BY ONLY <1>1, <1>3, <3>1, AtFrame, sent \in Seq(Seq(Tokens)) DEF N
      <3> QED
        BY <2>1, <3>2
    <2>3. sent[k + 1] \in Seq(Tokens)
      BY <2>1
    <2>4. C!Frame(sent[k + 1]) \in Seq(Tokens) /\ Len(C!Frame(sent[k + 1])) \in Nat
      <3>1. C!Frame(sent[k + 1]) \in Seq(Tokens)
        BY <2>3, FrameType
      <3> QED
        BY <3>1
    <2>5. L(k + 1) = L(k) + Len(C!Frame(sent[k + 1]))
      <3>1. C!Written(k + 1) = Cat(C!Written(k), C!Frame(sent[k + 1]))
        BY <2>1, WrittenIs
      <3>2. C!Written(k) \in Seq(Tokens)
        BY <1>2
      <3> QED
        BY <2>4, <3>1, <3>2, CatIs
    <2>6. L(n) >= L(k + 1)
      <3>1. PICK more \in Seq(Tokens) : C!Written(n) = Cat(C!Written(k + 1), more)
        BY <2>1, WrittenRest
      <3>2. C!Written(k + 1) \in Seq(Tokens) /\ L(k + 1) \in Nat /\ Len(more) \in Nat
        BY <1>2, <2>1
      <3>3. L(n) = L(k + 1) + Len(more)
        BY <3>1, <3>2, CatIs
      <3> QED
        BY <3>2, <3>3
    <2> DEFINE x == L(n)
               y == L(k)
               z == L(k + 1)
               f == Len(C!Frame(sent[k + 1]))
               bl == Len(buffer)
               wl == Len(wire)
               t == L(N)
    <2>7. x \in Nat /\ y \in Nat /\ z \in Nat /\ f \in Nat /\ bl \in Nat /\ wl \in Nat /\ t \in Nat
      BY <1>1, <1>2, <1>3, <2>1, <2>4
    <2>8. x <= t - wl /\ t = y + (bl + wl) /\ bl < f /\ z = y + f /\ x >= z
      BY <1>4, <2>2, <2>5, <2>6
    <2> HIDE DEF x, y, z, f, bl, wl, t
    <2> QED
      BY <2>7, <2>8
  <1>7. C!Whole = CHOOSE n \in complete : \A m \in complete : m <= n
    BY DEF C!Whole
  <1> HIDE DEF complete
  <1>8. complete \subseteq Nat
    BY DEF complete
  <1>9. \A n \in complete : (\A m \in complete : m <= n) => n = k
    BY <1>5, <1>6, <1>8
  <1> QED
    BY <1>5, <1>6, <1>7, <1>9

SseInv ==
  codec = "sse" => /\ sent \in Seq(Seq(Tokens)) /\ ended \in BOOLEAN
                   /\ Plain => SseTyped /\ \E k \in 0 .. Len(sent) : SseAt(k)

(* Where the reader is depends on nothing but what was sent, is buffered    *)
(* and on the wire.                                                         *)
LEMMA SameWhere ==
  sent' = sent /\ buffer' \in Seq(Tokens) => \A k : Where(k, buffer, wire)' <=> Where(k, buffer', wire')
  BY DEF Where, C!Written, C!Frame, C!NL

(* A stream of events begins with nothing read and nothing in the buffer.   *)
LEMMA SseInit == C!Init /\ codec = "sse" => SseInv
  <1> SUFFICES ASSUME C!Init, codec = "sse" PROVE SseInv
    OBVIOUS
  <1>1. /\ sent \in UNION {[1 .. n -> Bodies] : n \in 0 .. MaxItems} /\ wire = C!Written(Len(sent))
        /\ buffer = <<>> /\ got = <<>> /\ ended = FALSE
    BY DEF C!Init
  <1>2. Bodies \subseteq Seq(Tokens)
    BY DEF Bodies, Tokens, C!NL
  <1>3. sent \in Seq(Seq(Tokens))
    <2>1. PICK n \in 0 .. MaxItems : sent \in [1 .. n -> Bodies]
      BY <1>1
    <2>2. sent \in [1 .. n -> Seq(Tokens)] /\ n \in Nat
      BY <1>2, <2>1, DataAssumption
    <2> QED
      BY <2>2
  <1>4. wire \in Seq(Tokens) /\ C!Written(0) = <<>>
    <2>1. Len(sent) \in 0 .. Len(sent)
      BY <1>3
    <2> QED
      BY <1>1, <1>3, <2>1, WrittenIs
  <1>5. Where(0, buffer, wire)
    <2>1. <<>> \in Seq(Tokens)
      OBVIOUS
    <2>2. Cat(<<>>, Cat(<<>>, wire)) = wire
      BY <1>4, CatEmpty
    <2> QED
      BY <1>1, <1>4, <2>2 DEF Where
  <1>6. SseAt(0) /\ 0 \in 0 .. Len(sent)
    BY <1>1, <1>3, <1>5 DEF SseAt
  <1>7. SseTyped
    BY <1>1, <1>4 DEF SseTyped
  <1> QED
    BY <1>1, <1>3, <1>6, <1>7 DEF SseInv

(* A chunk moves; what is buffered and on the wire is the same together.     *)
LEMMA Arrives ==
  ASSUME NEW S, buffer \in Seq(S), wire \in Seq(S), C!Receive
  PROVE  buffer' \in Seq(S) /\ wire' \in Seq(S) /\ Cat(buffer', wire') = Cat(buffer, wire)
  <1>1. PICK n \in 1 .. Len(wire) : /\ buffer' = Cat(buffer, SubSeq(wire, 1, n))
                                    /\ wire' = SubSeq(wire, n + 1, Len(wire))
    BY DEF C!Receive, C!Buffered, Cat
  <1>2. n \in 0 .. Len(wire)
    OBVIOUS
  <1> DEFINE chunk == SubSeq(wire, 1, n)
  <1>3. chunk \in Seq(S) /\ wire' \in Seq(S) /\ Cat(chunk, wire') = wire
    BY <1>1, <1>2, CatSplit
  <1>4. buffer' = Cat(buffer, chunk)
    BY <1>1
  <1> HIDE DEF chunk
  <1>5. buffer' \in Seq(S)
    BY <1>3, <1>4, CatIs
  <1>6. Cat(Cat(buffer, chunk), wire') = Cat(buffer, Cat(chunk, wire'))
    BY <1>3, CatAssoc
  <1> QED
    BY <1>3, <1>4, <1>5, <1>6

(* Bytes that arrive, in whatever chunks, go behind those in the buffer.    *)
LEMMA SseReceive == SseInv /\ codec = "sse" /\ C!Receive => SseInv'
  <1> SUFFICES ASSUME SseInv, codec = "sse", C!Receive PROVE SseInv'
    OBVIOUS
  <1>1. /\ sent' = sent /\ codec' = codec /\ ended' = ended /\ got' = got /\ ended # TRUE
        /\ sent \in Seq(Seq(Tokens)) /\ ended \in BOOLEAN
    BY DEF SseInv, C!Receive
  <1>2. ASSUME Plain PROVE SseTyped' /\ \E k \in 0 .. Len(sent') : SseAt(k)'
    <2>1. SseTyped /\ \E k \in 0 .. Len(sent) : SseAt(k)
      BY <1>2 DEF SseInv
    <2>2. PICK k \in 0 .. Len(sent) : SseAt(k)
      BY <2>1
    <2>3. buffer \in Seq(Tokens) /\ wire \in Seq(Tokens) /\ got \in Seq(Seq(Tokens))
      BY <2>1 DEF SseTyped
    <2>7. buffer' \in Seq(Tokens) /\ wire' \in Seq(Tokens) /\ Cat(buffer', wire') = Cat(buffer, wire)
      BY <2>3, Arrives
    <2>8. Where(k, buffer', wire')
      BY <2>2, <2>7 DEF SseAt, Where
    <2>9. Where(k, buffer, wire)'
      BY <1>1, <2>7, <2>8, SameWhere
    <2>10. SseAt(k)'
      BY <1>1, <2>2, <2>9 DEF SseAt
    <2>11. SseTyped'
      BY <1>1, <2>3, <2>7 DEF SseTyped
    <2> QED
      BY <1>1, <2>10, <2>11
  <1>3. Plain' => Plain
    BY <1>1 DEF Plain
  <1> QED
    BY <1>1, <1>2, <1>3 DEF SseInv

(* A whole frame in front of the buffer is the next one that was sent.      *)
LEMMA SseTake == SseInv /\ C!TakeFrame => SseInv'
  <1> SUFFICES ASSUME SseInv, C!TakeFrame PROVE SseInv'
    OBVIOUS
  <1> DEFINE i == C!First(C!Boundaries(buffer))
             body == C!ParseSseFrame(SubSeq(buffer, 1, i - 1))
  <1>1. /\ codec = "sse" /\ sent' = sent /\ codec' = codec /\ ended' = ended /\ wire' = wire /\ ~ ended
        /\ C!Boundaries(buffer) # {}
        /\ got' = Append(got, body) /\ buffer' = SubSeq(buffer, i + 2, Len(buffer))
    BY DEF C!TakeFrame
  <1>2. sent \in Seq(Seq(Tokens)) /\ ended \in BOOLEAN
    BY <1>1 DEF SseInv
  <1>3. ASSUME Plain PROVE SseTyped' /\ \E k \in 0 .. Len(sent') : SseAt(k)'
    <2>1. SseTyped /\ \E k \in 0 .. Len(sent) : SseAt(k)
      BY <1>1, <1>3 DEF SseInv
    <2>2. PICK k \in 0 .. Len(sent) : SseAt(k)
      BY <2>1
    <2>3. buffer \in Seq(Tokens) /\ wire \in Seq(Tokens) /\ got \in Seq(Seq(Tokens))
      BY <2>1 DEF SseTyped
    <2>4. Where(k, buffer, wire) /\ \A n \in 1 .. Len(sent) : OneLine(sent[n])
      BY <1>3, <2>2 DEF SseAt, Plain
    <2>5. k + 1 \in 0 .. Len(sent) /\ body = sent[k + 1] /\ buffer' \in Seq(Tokens)
          /\ Where(k + 1, buffer', wire)
      BY <1>1, <1>2, <2>3, <2>4, AtFrame
    <2>6. Where(k + 1, buffer, wire)'
      <3>1. Where(k + 1, buffer', wire')
        BY <1>1, <2>5
      <3> QED
        BY <1>1, <2>5, <3>1, SameWhere
    <2>7. Len(got) = k /\ \A n \in 1 .. k : got[n] = sent[n]
      <3>1. Len(got) >= k /\ (Len(got) > k => ended) /\ \A n \in 1 .. k : got[n] = sent[n]
        BY <2>2 DEF SseAt
      <3>2. Len(got) \in Nat /\ k \in Nat
        BY <2>3
      <3> QED
        BY <1>1, <3>1, <3>2
    <2> HIDE DEF i, body
    <2>8. body \in Seq(Tokens)
      <3>1. k + 1 \in 1 .. Len(sent)
        BY <2>5
      <3> QED
        BY <1>2, <2>5, <3>1
    <2>9. got' \in Seq(Seq(Tokens)) /\ Len(got') = k + 1 /\ \A n \in 1 .. k + 1 : got'[n] = sent[n]
      BY <1>1, <2>3, <2>5, <2>7, <2>8
    <2>10. k + 1 \in Nat
      OBVIOUS
    <2>11. SseAt(k + 1)'
      BY <1>1, <2>6, <2>9, <2>10 DEF SseAt
    <2>12. SseTyped'
      BY <1>1, <2>3, <2>5, <2>9 DEF SseTyped
    <2> QED
      BY <1>1, <2>5, <2>11, <2>12
  <1>4. Plain' => Plain
    BY <1>1 DEF Plain
  <1> QED
    BY <1>1, <1>2, <1>3, <1>4 DEF SseInv

(* What is left when the stream ends is the last frame or nothing.          *)
LEMMA SseEnd == SseInv /\ C!End => SseInv'
  <1> SUFFICES ASSUME SseInv, C!End PROVE SseInv'
    OBVIOUS
  <1>1. /\ codec = "sse" /\ sent' = sent /\ codec' = codec /\ ended' = TRUE /\ wire' = wire /\ ~ ended
        /\ C!Boundaries(buffer) = {} /\ buffer' = buffer
        /\ got' = IF C!ToSet(buffer) \subseteq {C!NL} THEN got ELSE Append(got, C!ParseSseFrame(buffer))
    BY DEF C!End
  <1>2. sent \in Seq(Seq(Tokens)) /\ ended \in BOOLEAN
    BY <1>1 DEF SseInv
  <1>3. ASSUME Plain PROVE SseTyped' /\ \E k \in 0 .. Len(sent') : SseAt(k)'
    <2>1. SseTyped /\ \E k \in 0 .. Len(sent) : SseAt(k)
      BY <1>1, <1>3 DEF SseInv
    <2>2. PICK k \in 0 .. Len(sent) : SseAt(k)
      BY <2>1
    <2>3. buffer \in Seq(Tokens) /\ wire \in Seq(Tokens) /\ got \in Seq(Seq(Tokens))
      BY <2>1 DEF SseTyped
    <2>4. Where(k, buffer, wire) /\ \A n \in 1 .. Len(sent) : OneLine(sent[n])
      BY <1>3, <2>2 DEF SseAt, Plain
    <2>5. Where(k, buffer, wire)'
      <3>1. Where(k, buffer', wire')
        BY <1>1, <2>4
      <3> QED
        BY <1>1, <2>3, <3>1, SameWhere
    <2>6. Len(got) = k /\ \A n \in 1 .. k : got[n] = sent[n]
      <3>1. Len(got) >= k /\ (Len(got) > k => ended) /\ \A n \in 1 .. k : got[n] = sent[n]
        BY <2>2 DEF SseAt
      <3>2. Len(got) \in Nat /\ k \in Nat
        BY <2>3
      <3> QED
        BY <1>1, <3>1, <3>2
    <2>7. CASE got' = got
      <3>1. SseAt(k)'
        BY <1>1, <2>5, <2>6, <2>7 DEF SseAt
      <3>2. SseTyped'
        <4>1. C!Boundaries(buffer)' = {}
          BY <1>1 DEF C!Boundaries, C!NL
        <4> QED
          BY <1>1, <2>3, <2>7, <4>1 DEF SseTyped
      <3> QED
        BY <1>1, <3>1, <3>2
    <2>8. CASE got' # got
      <3>1. Len(buffer) > 0 /\ got' = Append(got, C!ParseSseFrame(buffer))
        <4>1. buffer = <<>> => C!ToSet(buffer) \subseteq {C!NL}
          BY DEF C!ToSet
        <4>2. Len(buffer) \in Nat /\ (Len(buffer) = 0 => buffer = <<>>)
          BY <2>3
        <4> QED
          BY <1>1, <2>8, <4>1, <4>2
      <3>2. k + 1 \in 0 .. Len(sent) /\ C!ParseSseFrame(buffer) \in Seq(Tokens)
            /\ C!IsPrefix(C!ParseSseFrame(buffer), sent[k + 1])
        BY <1>1, <1>2, <2>3, <2>4, <3>1, AtFrame
      <3>3. /\ got' \in Seq(Seq(Tokens)) /\ Len(got') = k + 1 /\ got'[k + 1] = C!ParseSseFrame(buffer)
            /\ \A n \in 1 .. k : got'[n] = sent[n]
        BY <2>3, <2>6, <3>1, <3>2
      <3>4. C!IsPrefix(got'[k + 1], sent'[k + 1])
        BY <1>1, <3>2, <3>3
      <3>5. (Len(got) >= k)' /\ (\A n \in 1 .. k : got[n] = sent[n])'
        BY <1>1, <3>3
      <3>6. SseAt(k)'
        BY <1>1, <2>5, <3>2, <3>3, <3>4, <3>5 DEF SseAt
      <3>7. SseTyped'
        <4>1. C!Boundaries(buffer)' = {}
          BY <1>1 DEF C!Boundaries, C!NL
        <4> QED
          BY <1>1, <2>3, <3>3, <4>1 DEF SseTyped
      <3> QED
        BY <1>1, <3>6, <3>7
    <2> QED
      BY <2>7, <2>8
  <1>4. Plain' => Plain
    BY <1>1 DEF Plain
  <1> QED
    BY <1>1, <1>2, <1>3, <1>4 DEF SseInv

(* What CodecsInv says of a stream of events.                               *)
LEMMA SseRight ==
  ASSUME SseInv, codec = "sse", C!Boundaries(buffer) = {}, \A n \in DOMAIN sent : C!NL \notin C!ToSet(sent[n])
  PROVE  /\ Len(got) >= C!Whole /\ SubSeq(got, 1, C!Whole) = SubSeq(sent, 1, C!Whole)
         /\ Len(got) > C!Whole => /\ ended /\ Len(got) = C!Whole + 1
                                  /\ C!IsPrefix(C!Last(got), sent[C!Whole + 1])
  <1>1. sent \in Seq(Seq(Tokens))
    BY DEF SseInv
  <1>2. Plain
    <2>1. ASSUME NEW n \in 1 .. Len(sent), NEW i \in 1 .. Len(sent[n]) PROVE sent[n][i] # C!NL
      <3>1. n \in DOMAIN sent /\ sent[n] \in Seq(Tokens) /\ i \in DOMAIN sent[n]
        BY <1>1
      <3> QED
        BY <3>1 DEF C!ToSet
    <2> QED
      BY <2>1 DEF Plain, OneLine
  <1>3. SseTyped
    BY <1>2 DEF SseInv
  <1>4. PICK k \in 0 .. Len(sent) : SseAt(k)
    BY <1>2 DEF SseInv
  <1>5. C!Whole = k
    BY <1>1, <1>2, <1>3, <1>4, WholeIs
  <1>6. got \in Seq(Seq(Tokens)) /\ k \in Nat /\ Len(got) \in Nat
    BY <1>3 DEF SseTyped
  <1>7. Len(got) >= k /\ \A i \in 1 .. k : got[i] = sent[i]
    BY <1>4 DEF SseAt
  <1>8. SubSeq(got, 1, k) = SubSeq(sent, 1, k)
    BY <1>1, <1>6, <1>7
  <1>9. Len(got) > k => ended /\ Len(got) = k + 1 /\ C!IsPrefix(got[k + 1], sent[k + 1])
    BY <1>4 DEF SseAt
  <1>10. Len(got) = k + 1 => C!Last(got) = got[k + 1]
    BY DEF C!Last
  <1> QED
    BY <1>5, <1>7, <1>8, <1>9, <1>10

Shifts(s, len) == s \in [0 .. 8 -> Nat] /\ s[0] = len /\ \A k \in 0 .. 7 : s[k + 1] = s[k] \div 256
Spelt(b, len, n) == \A i \in 1 .. n : b[i] = C!Shifted(len)[n - i] % 256
Reads(r, b, n) == r[0] = 0 /\ \A k \in 0 .. n - 1 : r[k + 1] = 256 * r[k] + b[k + 1]

(* The length divided by 256 once more each time.                           *)
LEMMA ShiftedIs ==
  ASSUME NEW len \in Nat
  PROVE  Shifts(C!Shifted(len), len)
  <1> DEFINE move == [k \in 1 .. 8 |-> [x \in Nat |-> x \div 256]]
             E(h) == h = [k \in 0 .. 8 |-> IF k = 0 THEN len ELSE h[k - 1] \div 256]
             s == CHOOSE h : E(h)
  <1>1. \A x \in Nat : x \div 256 \in Nat
    OBVIOUS
  <1>2. move \in [1 .. 8 -> [Nat -> Nat]] /\ \A k \in 1 .. 8 : \A x \in Nat : move[k][x] = x \div 256
    BY <1>1
  <1> HIDE DEF move
  <1>3. PICK f \in [0 .. 8 -> Nat] : Solves(f, 8, len, move)
    <2>1. 8 \in Nat
      OBVIOUS
    <2> QED
      BY <1>2, <2>1, Recursion
  <1>4. f[0] = len /\ \A k \in 0 .. 7 : f[k + 1] = f[k] \div 256
    <2>1. f[0] = len /\ \A k \in 0 .. 8 - 1 : f[k + 1] = move[k + 1][f[k]]
      BY <1>3 DEF Solves
    <2>2. ASSUME NEW k \in 0 .. 7 PROVE f[k + 1] = f[k] \div 256
      <3>1. k + 1 \in 1 .. 8 /\ k \in 0 .. 8 - 1 /\ f[k] \in Nat
        OBVIOUS
      <3>2. f[k + 1] = move[k + 1][f[k]]
        BY <2>1, <3>1
      <3>3. move[k + 1][f[k]] = f[k] \div 256
        BY <1>2, <3>1
      <3> QED
        BY <3>2, <3>3
    <2> QED
      BY <2>1, <2>2
  <1>5. E(f)
    <2>1. ASSUME NEW k \in 0 .. 8 PROVE f[k] = IF k = 0 THEN len ELSE f[k - 1] \div 256
      <3>1. CASE k = 0
        BY <1>4, <3>1
      <3>2. CASE k # 0
        <4>1. k - 1 \in 0 .. 7 /\ (k - 1) + 1 = k
          BY <3>2
        <4> QED
          BY <1>4, <3>2, <4>1
      <3> QED
        BY <3>1, <3>2
    <2> QED
      BY <2>1
  <1>6. E(s)
    <2> HIDE DEF E
    <2> QED
      BY <1>5
  <1> HIDE DEF s
  <1>7. s[0] = len /\ \A k \in 0 .. 7 : s[k + 1] = s[k] \div 256
    <2>1. s[0] = len
      BY <1>6
    <2>2. ASSUME NEW k \in 0 .. 7 PROVE s[k + 1] = s[k] \div 256
      <3>1. k + 1 \in 0 .. 8 /\ k + 1 # 0 /\ (k + 1) - 1 = k
        OBVIOUS
      <3> QED
        BY <1>6, <3>1
    <2> QED
      BY <2>1, <2>2
  <1>8. \A k \in 0 .. 8 : s[k] = f[k]
    <2>1. 8 \in Nat /\ s[0] = f[0] /\ \A k \in 0 .. 8 - 1 : s[k] = f[k] => s[k + 1] = f[k + 1]
      BY <1>4, <1>7
    <2> QED
      BY ONLY <2>1, SameSolution
  <1>9. s \in [0 .. 8 -> Nat]
    <2>1. s = [k \in 0 .. 8 |-> s[k]]
      <3>1. DOMAIN [k \in 0 .. 8 |-> IF k = 0 THEN len ELSE s[k - 1] \div 256] = 0 .. 8
        OBVIOUS
      <3> QED
        BY <1>6, <3>1
    <2>2. \A k \in 0 .. 8 : s[k] \in Nat
      BY <1>8
    <2> QED
      BY <2>1, <2>2
  <1>10. C!Shifted(len) = s
    BY DEF C!Shifted, s
  <1> QED
    BY <1>7, <1>9, <1>10 DEF Shifts

(* Bytes that are read from the left.                                       *)
LEMMA NumberIs ==
  ASSUME NEW n \in Nat, NEW b \in Seq(Nat), Len(b) = n
  PROVE  \E r \in [0 .. n -> Nat] : Reads(r, b, n) /\ C!Number(b) = r[n]
  <1> DEFINE move == [k \in 1 .. n |-> [x \in Nat |-> 256 * x + b[k]]]
             E(h) == h = [k \in 0 .. Len(b) |-> IF k = 0 THEN 0 ELSE 256 * h[k - 1] + b[k]]
             s == CHOOSE h : E(h)
  <1>1. \A k \in 1 .. n : b[k] \in Nat /\ \A x \in Nat : 256 * x + b[k] \in Nat
    <2>1. \A k \in 1 .. n : b[k] \in Nat
      OBVIOUS
    <2> QED
      BY <2>1
  <1>2. move \in [1 .. n -> [Nat -> Nat]] /\ \A k \in 1 .. n : \A x \in Nat : move[k][x] = 256 * x + b[k]
    BY <1>1
  <1> HIDE DEF move
  <1>3. PICK f \in [0 .. n -> Nat] : Solves(f, n, 0, move)
    <2>1. 0 \in Nat
      OBVIOUS
    <2> QED
      BY <1>2, <2>1, Recursion
  <1>4. f[0] = 0 /\ \A k \in 0 .. n - 1 : f[k + 1] = 256 * f[k] + b[k + 1]
    <2>1. f[0] = 0 /\ \A k \in 0 .. n - 1 : f[k + 1] = move[k + 1][f[k]]
      BY <1>3 DEF Solves
    <2>2. ASSUME NEW k \in 0 .. n - 1 PROVE f[k + 1] = 256 * f[k] + b[k + 1]
      <3>1. k + 1 \in 1 .. n /\ f[k] \in Nat
        OBVIOUS
      <3> QED
        BY <1>2, <2>1, <3>1
    <2> QED
      BY <2>1, <2>2
  <1>5. E(f)
    <2>1. ASSUME NEW k \in 0 .. n PROVE f[k] = IF k = 0 THEN 0 ELSE 256 * f[k - 1] + b[k]
      <3>1. CASE k = 0
        BY <1>4, <3>1
      <3>2. CASE k # 0
        <4>1. k - 1 \in 0 .. n - 1 /\ (k - 1) + 1 = k
          BY <3>2
        <4> QED
          BY <1>4, <3>2, <4>1
      <3> QED
        BY <3>1, <3>2
    <2> QED
      BY <2>1
  <1>6. E(s)
    <2> HIDE DEF E
    <2> QED
      BY <1>5
  <1> HIDE DEF s
  <1>7. s[0] = 0 /\ \A k \in 0 .. n - 1 : s[k + 1] = 256 * s[k] + b[k + 1]
    <2>1. s[0] = 0
      BY <1>6
    <2>2. ASSUME NEW k \in 0 .. n - 1 PROVE s[k + 1] = 256 * s[k] + b[k + 1]
      <3>1. k + 1 \in 0 .. Len(b) /\ k + 1 # 0 /\ (k + 1) - 1 = k
        OBVIOUS
      <3> QED
        BY <1>6, <3>1
    <2> QED
      BY <2>1, <2>2
  <1>8. \A k \in 0 .. n : s[k] = f[k]
    <2>1. n \in Nat /\ s[0] = f[0] /\ \A k \in 0 .. n - 1 : s[k] = f[k] => s[k + 1] = f[k + 1]
      BY <1>4, <1>7
    <2> QED
      BY ONLY <2>1, SameSolution
  <1>9. C!Number(b) = s[Len(b)]
    BY DEF C!Number, s
  <1>10. C!Number(b) = f[n]
    BY <1>8, <1>9
  <1>11. Reads(f, b, n)
    BY <1>4 DEF Reads
  <1> QED
    BY <1>10, <1>11

(* The length that is written in so many bytes is the one that is read.      *)
LEMMA NumberBack ==
  ASSUME NEW len \in Nat, NEW n \in 0 .. 8, C!Shifted(len)[n] = 0,
         NEW b \in Seq(Nat), Len(b) = n, Spelt(b, len, n)
  PROVE  C!Number(b) = len
  <1> DEFINE s == C!Shifted(len)
  <1>1. s \in [0 .. 8 -> Nat] /\ s[0] = len /\ \A k \in 0 .. 7 : s[k + 1] = s[k] \div 256
    <2>1. Shifts(C!Shifted(len), len)
      BY ShiftedIs, Zenon
    <2> HIDE DEF s
    <2>2. Shifts(s, len)
      BY <2>1 DEF s
    <2> QED
      BY <2>2 DEF Shifts
  <1>2. s[n] = 0 /\ \A i \in 1 .. n : b[i] = s[n - i] % 256
    BY DEF Spelt
  <1> HIDE DEF s
  <1>00. n \in Nat
    OBVIOUS
  <1>30. PICK r \in [0 .. n -> Nat] : Reads(r, b, n) /\ C!Number(b) = r[n]
    BY <1>00, NumberIs
  <1>3. r[0] = 0 /\ (\A k \in 0 .. n - 1 : r[k + 1] = 256 * r[k] + b[k + 1]) /\ C!Number(b) = r[n]
    BY <1>30 DEF Reads
  <1>4. \A x \in Nat : 256 * (x \div 256) + (x % 256) = x
    OBVIOUS
  <1> DEFINE P == {k \in 0 .. n : r[k] = s[n - k]}
  <1>5. 0 \in P
    BY <1>2, <1>3
  <1>6. ASSUME NEW k \in 0 .. n - 1, k \in P PROVE k + 1 \in P
    <2>1. n - (k + 1) \in 0 .. 7 /\ (n - (k + 1)) + 1 = n - k /\ k + 1 \in 1 .. n /\ k + 1 \in 0 .. n
      OBVIOUS
    <2> DEFINE j == n - (k + 1)
               x == s[j]
    <2>2. j \in 0 .. 7 /\ x \in Nat
      <3>1. j \in 0 .. 7 /\ j \in 0 .. 8
        BY <2>1
      <3> HIDE DEF j
      <3> QED
        BY <1>1, <3>1
    <2>3. s[n - k] = x \div 256 /\ b[k + 1] = x % 256
      <3>1. s[j + 1] = s[j] \div 256
        <4> HIDE DEF j
        <4> QED
          BY <1>1, <2>2
      <3>2. b[k + 1] = s[n - (k + 1)] % 256
        BY <1>2, <2>1
      <3> QED
        BY <2>1, <3>1, <3>2
    <2>4. r[k + 1] = 256 * r[k] + b[k + 1] /\ r[k] = s[n - k]
      BY <1>3, <1>6
    <2> HIDE DEF j, x
    <2>5. r[k + 1] = x
      <3>1. 256 * (x \div 256) + (x % 256) = x
        BY <1>4, <2>2
      <3> QED
        BY <2>3, <2>4, <3>1
    <2> QED
      BY <2>1, <2>5 DEF x, j
  <1>7. 0 .. n \subseteq P
    <2> HIDE DEF P
    <2>1. n \in Nat
      OBVIOUS
    <2> QED
      BY <1>5, <1>6, <2>1, Bounded
  <1>8. n \in P /\ n - n = 0
    BY <1>7
  <1> QED
    BY <1>1, <1>3, <1>8

HeaderShape(h, len, mask) ==
  LET bit == IF mask THEN 128 ELSE 0
      s == C!Shifted(len)
  IN  /\ h \in Seq(Nat)
      /\ \/ len <= 125 /\ Len(h) = 2 /\ h[2] = bit + len
         \/ /\ Len(h) = 4 /\ h[2] = bit + 126 /\ s[2] = 0
            /\ \A i \in 1 .. 2 : h[i + 2] = s[2 - i] % 256
         \/ /\ Len(h) = 10 /\ h[2] = bit + 127 /\ s[8] = 0
            /\ \A i \in 1 .. 8 : h[i + 2] = s[8 - i] % 256

(* The mask bit is above the seven bits of the short length.                *)
LEMMA SevenBits ==
  ASSUME NEW bit \in {0, 128}, NEW x \in 0 .. 127
  PROVE  (bit + x) % 128 = x
  <1>1. CASE bit = 0
    BY <1>1
  <1>2. CASE bit = 128
    BY <1>2
  <1> QED
    BY <1>1, <1>2

(* What a header is, byte by byte, and what any part of it is read as.       *)
LEMMA HeaderIs ==
  ASSUME NEW len \in Nat, C!Shifted(len)[8] = 0, NEW mask \in BOOLEAN
  PROVE  HeaderShape(C!Header(len, mask), len, mask)
  <1> DEFINE h == C!Header(len, mask)
             bit == IF mask THEN 128 ELSE 0
             s == C!Shifted(len)
             bytes(n) == [i \in 1 .. n |-> s[n - i] % 256]
  <1>1. s \in [0 .. 8 -> Nat] /\ s[0] = len /\ \A k \in 0 .. 7 : s[k + 1] = s[k] \div 256
    <2>1. Shifts(C!Shifted(len), len)
      BY ShiftedIs, Zenon
    <2> HIDE DEF s
    <2>2. Shifts(s, len)
      BY <2>1 DEF s
    <2> QED
      BY <2>2 DEF Shifts
  <1>2. h = << 130 >> \o CASE len <= 125 -> <<bit + len>>
                         [] len > 125 /\ len <= 65535 -> <<bit + 126>> \o bytes(2)
                         [] OTHER -> <<bit + 127>> \o bytes(8)
    BY DEF C!Header
  <1>3. bit \in {0, 128} /\ s[8] = 0
    OBVIOUS
  <1> HIDE DEF h, bit, s, bytes
  <1>4. CASE len <= 125
    <2>1. h = << 130 >> \o <<bit + len>>
      <3>1. ~ (len > 125 /\ len <= 65535)
        BY <1>4
      <3> QED
        BY <1>2, <1>4, <3>1
    <2>2. bit + len \in Nat
      BY <1>3
    <2> DEFINE x == bit + len
    <2> HIDE DEF x
    <2>3. h \in Seq(Nat) /\ Len(h) = 2 /\ h[2] = x
      BY <2>1, <2>2 DEF x
    <2> QED
      BY <1>4, <2>3 DEF h, bit, x, HeaderShape
  <1>5. ASSUME NEW n \in 0 .. 8, NEW x \in Nat, h = << 130 >> \o (<<x>> \o bytes(n))
        PROVE  h \in Seq(Nat) /\ Len(h) = n + 2 /\ h[2] = x /\ \A i \in 1 .. n : h[i + 2] = s[n - i] % 256
    <2>1. bytes(n) \in Seq(Nat) /\ Len(bytes(n)) = n /\ \A i \in 1 .. n : bytes(n)[i] = s[n - i] % 256
      <3> USE DEF bytes
      <3>1. ASSUME NEW i \in 1 .. n PROVE s[n - i] % 256 \in Nat
        <4>1. n - i \in 0 .. 8
          OBVIOUS
        <4>2. s[n - i] \in Nat
          BY <1>1, <4>1
        <4> QED
          BY <4>2
      <3> QED
        BY <3>1
    <2> DEFINE t == bytes(n)
    <2>2. t \in Seq(Nat) /\ Len(t) = n /\ n \in Nat
      BY <2>1
    <2> HIDE DEF t
    <2> DEFINE u == <<x>> \o t
    <2>3. u \in Seq(Nat) /\ Len(u) = n + 1 /\ u[1] = x /\ \A i \in 1 .. n : u[i + 1] = t[i]
      BY <2>2
    <2> HIDE DEF u
    <2>4. h = << 130 >> \o u
      BY <1>5 DEF u, t
    <2>5. h \in Seq(Nat) /\ Len(h) = n + 2 /\ h[2] = u[1] /\ \A i \in 1 .. n : h[i + 2] = u[i + 1]
      BY <2>2, <2>3, <2>4
    <2> QED
      BY <2>1, <2>3, <2>5 DEF t
  <1>6. CASE len > 125 /\ len <= 65535
    <2>1. h = << 130 >> \o (<<bit + 126>> \o bytes(2))
      <3>1. ~ (len <= 125)
        BY <1>6
      <3> QED
        BY <1>2, <1>6, <3>1
    <2>2. bit + 126 \in Nat /\ 2 \in 0 .. 8
      BY <1>3
    <2>3. h \in Seq(Nat) /\ Len(h) = 2 + 2 /\ h[2] = bit + 126 /\ \A i \in 1 .. 2 : h[i + 2] = s[2 - i] % 256
      BY <1>5, <2>1, <2>2
    <2>4. s[2] = 0
      <3>1. s[1] = s[0] \div 256 /\ s[2] = s[1] \div 256
        <4>1. 0 \in 0 .. 7 /\ 1 \in 0 .. 7
          OBVIOUS
        <4> QED
          BY <1>1, <4>1
      <3>2. s[1] \in Nat /\ s[1] < 256
        BY <1>1, <1>6, <3>1
      <3> QED
        BY <3>1, <3>2
    <2> QED
      BY <2>3, <2>4 DEF h, bit, s, HeaderShape
  <1>7. CASE ~ (len <= 125) /\ ~ (len > 125 /\ len <= 65535)
    <2>1. h = << 130 >> \o (<<bit + 127>> \o bytes(8))
      BY <1>2, <1>7
    <2>2. bit + 127 \in Nat /\ 8 \in 0 .. 8
      BY <1>3
    <2>3. h \in Seq(Nat) /\ Len(h) = 8 + 2 /\ h[2] = bit + 127 /\ \A i \in 1 .. 8 : h[i + 2] = s[8 - i] % 256
      BY <1>5, <2>1, <2>2
    <2> QED
      BY <1>3, <2>3 DEF h, bit, s, HeaderShape
  <1> QED
    BY <1>4, <1>6, <1>7

Read(len, mask, n) == <<"header", mask, n, len>>

(* What stands behind the first two elements of a sequence.                 *)
LEMMA BehindTwo ==
  ASSUME NEW b \in Seq(Nat), NEW n \in Nat, Len(b) = n + 2
  PROVE  /\ SubSeq(b, 3, n + 2) \in Seq(Nat) /\ Len(SubSeq(b, 3, n + 2)) = n
         /\ \A i \in 1 .. n : SubSeq(b, 3, n + 2)[i] = b[i + 2]
  <1>1. \A i \in 3 .. n + 2 : b[i] \in Nat
    OBVIOUS
  <1> QED
    BY <1>1, SubSeqProperties

(* A part of a header is refused or gives its length, and the whole gives   *)
(* it.                                                                      *)
LEMMA HeaderBack ==
  ASSUME NEW len \in Nat, C!Shifted(len)[8] = 0, NEW mask \in BOOLEAN,
         NEW b \in Seq(Nat), NEW w \in Seq(Nat), Cat(b, w) = C!Header(len, mask)
  PROVE  /\ C!ParseHeader(b) \in {C!Raised, Read(len, mask, Len(b))}
         /\ w = <<>> => b # <<>> /\ C!ParseHeader(b) = Read(len, mask, Len(b))
  <1> DEFINE h == C!Header(len, mask)
             bit == IF mask THEN 128 ELSE 0
             s == C!Shifted(len)
             small == b[2] % 128
             size == CASE small = 126 -> 4 [] small = 127 -> 10 [] OTHER -> 2
             m == Len(b)
  <1>1. /\ h \in Seq(Nat)
        /\ \/ len <= 125 /\ Len(h) = 2 /\ h[2] = bit + len
           \/ /\ Len(h) = 4 /\ h[2] = bit + 126 /\ s[2] = 0
              /\ \A i \in 1 .. 2 : h[i + 2] = s[2 - i] % 256
           \/ /\ Len(h) = 10 /\ h[2] = bit + 127 /\ s[8] = 0
              /\ \A i \in 1 .. 8 : h[i + 2] = s[8 - i] % 256
    BY HeaderIs DEF HeaderShape
  <1>2. C!ParseHeader(b) = IF m < 2 \/ m < size THEN C!Raised
                           ELSE <<"header", b[2] >= 128, size, IF size = 2 THEN small ELSE C!Number(SubSeq(b, 3, size))>>
    BY DEF C!ParseHeader
  <1>3. m \in Nat /\ Len(w) \in Nat /\ m + Len(w) = Len(h) /\ \A i \in 1 .. m : b[i] = h[i]
    <2>1. Len(Cat(b, w)) = Len(b) + Len(w) /\ \A i \in 1 .. Len(b) : Cat(b, w)[i] = b[i]
      BY CatIs
    <2> QED
      BY <2>1
  <1>30. m \in Nat /\ Len(w) \in Nat /\ m + Len(w) = Len(h)
    BY <1>3
  <1>4. bit \in {0, 128} /\ (mask <=> bit >= 128)
    OBVIOUS
  <1>5. Len(h) \in {2, 4, 10}
    BY <1>1
  <1>6. CASE m < 2
    <2>1. C!ParseHeader(b) = C!Raised
      BY <1>2, <1>6
    <2>2. Len(w) # 0
      <3> DEFINE hl == Len(h)
                 lw == Len(w)
      <3>1. m \in Nat /\ lw \in Nat /\ m + lw = hl /\ hl \in {2, 4, 10}
        BY <1>30, <1>5
      <3> HIDE DEF m, hl, lw
      <3>2. lw # 0
        BY <1>6, <3>1
      <3> QED
        BY <3>2 DEF lw
    <2> QED
      BY <2>1, <2>2
  <1>7. CASE m >= 2
    <2>1. b[2] = h[2]
      BY <1>3, <1>7
    <2>2. size = Len(h) /\ (b[2] >= 128 <=> mask) /\ (Len(h) = 2 => small = len)
      <3> HIDE DEF h, bit, s
      <3>1. CASE len <= 125 /\ Len(h) = 2 /\ h[2] = bit + len
        <4>1. small = len
          <5>1. len \in 0 .. 127
            BY <3>1
          <5>2. (bit + len) % 128 = len
            BY <1>4, <5>1, SevenBits
          <5> QED
            BY <2>1, <3>1, <5>2
        <4> HIDE DEF small
        <4> QED
          BY <1>4, <2>1, <3>1, <4>1
      <3>2. CASE Len(h) = 4 /\ h[2] = bit + 126
        <4>1. small = 126
          <5> DEFINE x == 126
          <5>1. x \in 0 .. 127
            OBVIOUS
          <5> HIDE DEF x
          <5>2. (bit + x) % 128 = x
            BY <1>4, <5>1, SevenBits
          <5> USE DEF x
          <5> QED
            BY <2>1, <3>2, <5>2
        <4> HIDE DEF small
        <4> QED
          BY <1>4, <2>1, <3>2, <4>1
      <3>3. CASE Len(h) = 10 /\ h[2] = bit + 127
        <4>1. small = 127
          <5> DEFINE x == 127
          <5>1. x \in 0 .. 127
            OBVIOUS
          <5> HIDE DEF x
          <5>2. (bit + x) % 128 = x
            BY <1>4, <5>1, SevenBits
          <5> USE DEF x
          <5> QED
            BY <2>1, <3>3, <5>2
        <4> HIDE DEF small
        <4> QED
          BY <1>4, <2>1, <3>3, <4>1
      <3> QED
        BY <1>1, <3>1, <3>2, <3>3
    <2>3. CASE m < Len(h)
      <3>1. C!ParseHeader(b) = C!Raised
        BY <1>2, <2>2, <2>3
      <3>2. Len(w) # 0
        <4> HIDE DEF m, h
        <4> QED
          BY <1>30, <1>5, <2>3
      <3> QED
        BY <3>1, <3>2
    <2>4. CASE ~ (m < Len(h))
      <3>1. m = Len(h)
        BY <1>3, <1>5, <2>4
      <3>2. (IF size = 2 THEN small ELSE C!Number(SubSeq(b, 3, size))) = len
        <4> HIDE DEF h, bit, s, small, size
        <4>1. CASE Len(h) = 2
          BY <2>2, <4>1
        <4>2. ASSUME NEW n \in 0 .. 8, Len(h) = n + 2, s[n] = 0, \A i \in 1 .. n : h[i + 2] = s[n - i] % 256
              PROVE  C!Number(SubSeq(b, 3, Len(h))) = len
          <5> DEFINE t == SubSeq(b, 3, Len(h))
          <5>1. t \in Seq(Nat) /\ Len(t) = n /\ \A i \in 1 .. n : t[i] = b[i + 2]
            <6>1. b \in Seq(Nat) /\ n \in Nat /\ Len(b) = n + 2 /\ Len(h) = n + 2
              BY <3>1, <4>2 DEF m
            <6>2. t = SubSeq(b, 3, n + 2)
              BY <6>1
            <6> HIDE DEF t
            <6> QED
              BY <6>1, <6>2, BehindTwo
          <5> HIDE DEF t
          <5>2. \A i \in 1 .. n : i + 2 \in 1 .. m
            BY <3>1, <4>2
          <5>3. \A i \in 1 .. n : t[i] = s[n - i] % 256
            <6>1. ASSUME NEW i \in 1 .. n PROVE t[i] = s[n - i] % 256
              <7>1. h[i + 2] = s[n - i] % 256
                BY <4>2
              <7>2. t[i] = b[i + 2] /\ b[i + 2] = h[i + 2]
                BY <1>3, <5>1, <5>2
              <7> QED
                BY <7>1, <7>2
            <6> QED
              BY <6>1
          <5>4. C!Number(t) = len
            <6>1. C!Shifted(len)[n] = 0 /\ Spelt(t, len, n)
              BY <4>2, <5>3 DEF s, Spelt
            <6>2. t \in Seq(Nat) /\ Len(t) = n
              BY <5>1
            <6> QED
              BY <6>1, <6>2, NumberBack
          <5> QED
            BY <5>4 DEF t
        <4>3. CASE Len(h) = 4 /\ s[2] = 0 /\ \A i \in 1 .. 2 : h[i + 2] = s[2 - i] % 256
          <5>1. 2 \in 0 .. 8 /\ Len(h) = 2 + 2
            BY <4>3
          <5>2. C!Number(SubSeq(b, 3, Len(h))) = len
            BY <4>2, <4>3, <5>1
          <5> QED
            BY <2>2, <4>3, <5>2
        <4>4. CASE Len(h) = 10 /\ s[8] = 0 /\ \A i \in 1 .. 8 : h[i + 2] = s[8 - i] % 256
          <5>1. 8 \in 0 .. 8 /\ Len(h) = 8 + 2
            BY <4>4
          <5>2. C!Number(SubSeq(b, 3, Len(h))) = len
            BY <4>2, <4>4, <5>1
          <5> QED
            BY <2>2, <4>4, <5>2
        <4> QED
          BY <1>1, <4>1, <4>3, <4>4
      <3>3. (b[2] >= 128) = mask /\ size = m /\ ~ (m < 2 \/ m < size) /\ b # <<>>
        <4> HIDE DEF h, size
        <4>1. b[2] \in Nat
          BY <1>7
        <4>2. (b[2] >= 128) \in BOOLEAN
          BY <4>1
        <4>3. size = m
          BY <2>2, <3>1
        <4> QED
          BY <1>3, <1>7, <2>2, <4>2, <4>3
      <3>4. C!ParseHeader(b) = <<"header", mask, m, len>>
        <4> HIDE DEF size, small, m
        <4>1. C!ParseHeader(b) =
              <<"header", b[2] >= 128, size, IF size = 2 THEN small ELSE C!Number(SubSeq(b, 3, size))>>
          BY <1>2, <3>3
        <4> QED
          BY <3>2, <3>3, <4>1
      <3> QED
        BY <3>3, <3>4 DEF Read
    <2> QED
      BY <2>3, <2>4
  <1> QED
    BY <1>3, <1>6, <1>7

HeaderInv ==
  codec = "header" =>
    /\ sent \in Lengths /\ setting \in BOOLEAN /\ buffer \in Seq(Nat) /\ wire \in Seq(Nat)
    /\ Cat(buffer, wire) = C!Header(sent, setting)
    /\ got = IF buffer = <<>> THEN <<>> ELSE C!ParseHeader(buffer)

(* A header begins unread.                                                  *)
LEMMA HeaderInit == C!Init /\ codec = "header" => HeaderInv
  <1> SUFFICES ASSUME C!Init, codec = "header" PROVE HeaderInv
    OBVIOUS
  <1>1. sent \in Lengths /\ setting \in BOOLEAN /\ wire = C!Header(sent, setting) /\ buffer = <<>>
        /\ got = <<>>
    BY DEF C!Init
  <1>2. sent \in Nat /\ C!Shifted(sent)[8] = 0
    BY <1>1, DataAssumption
  <1>3. wire \in Seq(Nat)
    <2>1. HeaderShape(C!Header(sent, setting), sent, setting)
      BY <1>1, <1>2, HeaderIs
    <2> QED
      BY <1>1, <2>1 DEF HeaderShape
  <1>4. Cat(buffer, wire) = wire /\ buffer \in Seq(Nat)
    BY <1>1, <1>3, CatEmpty
  <1> QED
    BY <1>1, <1>3, <1>4 DEF HeaderInv

(* It is read as it was written.                                            *)
LEMMA HeaderReceive == HeaderInv /\ codec = "header" /\ C!Receive => HeaderInv'
  <1> SUFFICES ASSUME HeaderInv, codec = "header", C!Receive PROVE HeaderInv'
    OBVIOUS
  <1>1. /\ sent' = sent /\ setting' = setting /\ sent \in Lengths /\ setting \in BOOLEAN
        /\ got' = C!ParseHeader(buffer')
    BY DEF C!Receive, HeaderInv
  <1>2. buffer \in Seq(Nat) /\ wire \in Seq(Nat) /\ Cat(buffer, wire) = C!Header(sent, setting)
    BY DEF HeaderInv
  <1>3. buffer' \in Seq(Nat) /\ wire' \in Seq(Nat) /\ Cat(buffer', wire') = Cat(buffer, wire)
    BY <1>2, Arrives
  <1>4. buffer' # <<>>
    <2>1. PICK n \in 1 .. Len(wire) : buffer' = Cat(buffer, SubSeq(wire, 1, n))
      BY DEF C!Receive, C!Buffered, Cat
    <2>2. SubSeq(wire, 1, n) \in Seq(Nat) /\ Len(SubSeq(wire, 1, n)) = n
      <3>1. n \in 0 .. Len(wire)
        OBVIOUS
      <3> QED
        BY <1>2, <3>1, CatSplit
    <2>3. Len(buffer') = Len(buffer) + n
      BY <1>2, <2>1, <2>2, CatIs
    <2>4. Len(buffer) \in Nat
      BY <1>2
    <2> QED
      BY <2>3, <2>4
  <1>5. C!Header(sent, setting)' = C!Header(sent, setting)
    BY <1>1 DEF C!Header, C!Shifted
  <1>6. (C!ParseHeader(buffer))' = C!ParseHeader(buffer')
    BY DEF C!ParseHeader, C!Number, C!Raised
  <1>7. Cat(buffer, wire)' = Cat(buffer', wire')
    BY DEF Cat
  <1> QED
    BY <1>1, <1>2, <1>3, <1>4, <1>5, <1>6, <1>7 DEF HeaderInv

(* So the length that is read is the length that was written.               *)
LEMMA HeaderRight ==
  ASSUME HeaderInv, codec = "header"
  PROVE  /\ got \in {<<>>, C!Raised, <<"header", setting, Len(buffer), sent>>}
         /\ wire = <<>> => got \notin {<<>>, C!Raised}
  <1>1. /\ sent \in Lengths /\ setting \in BOOLEAN /\ buffer \in Seq(Nat) /\ wire \in Seq(Nat)
        /\ Cat(buffer, wire) = C!Header(sent, setting)
        /\ got = IF buffer = <<>> THEN <<>> ELSE C!ParseHeader(buffer)
    BY DEF HeaderInv
  <1>2. sent \in Nat /\ C!Shifted(sent)[8] = 0
    BY <1>1, DataAssumption
  <1>3. /\ C!ParseHeader(buffer) \in {C!Raised, Read(sent, setting, Len(buffer))}
        /\ wire = <<>> => buffer # <<>> /\ C!ParseHeader(buffer) = Read(sent, setting, Len(buffer))
    BY <1>1, <1>2, HeaderBack
  <1>4. Read(sent, setting, Len(buffer)) = <<"header", setting, Len(buffer), sent>>
    BY DEF Read
  <1>5. Read(sent, setting, Len(buffer)) \notin {<<>>, C!Raised}
    BY DEF Read, C!Raised
  <1> QED
    BY <1>1, <1>3, <1>4, <1>5

Byte == SUBSET {1, 2}

(* Masking with a key twice gives the payload back.                         *)
LEMMA MaskTwice ==
  ASSUME NEW p \in Seq(Byte), NEW key \in Seq(Byte)
  PROVE  /\ C!Masked(p, key) \in Seq(Byte)
         /\ C!Masked(C!Masked(p, key), key) = p
  <1>1. CASE Len(key) # 4
    BY <1>1 DEF C!Masked
  <1>2. CASE Len(key) = 4
    <2> DEFINE n == Len(p)
               k(i) == key[((i - 1) % 4) + 1]
               q == [i \in DOMAIN p |-> (p[i] \ k(i)) \union (k(i) \ p[i])]
    <2>1. C!Masked(p, key) = q
      BY <1>2 DEF C!Masked
    <2>2. n \in Nat /\ DOMAIN p = 1 .. n /\ \A i \in 1 .. n : p[i] \in Byte
      OBVIOUS
    <2>3. \A i \in 1 .. n : k(i) \in Byte
      <3>1. ASSUME NEW i \in 1 .. n PROVE k(i) \in Byte
        <4>1. ((i - 1) % 4) + 1 \in 1 .. 4
          OBVIOUS
        <4>2. \A j \in 1 .. 4 : key[j] \in Byte
          <5>1. \A j \in 1 .. Len(key) : key[j] \in Byte
            OBVIOUS
          <5> QED
            BY <1>2, <5>1
        <4> QED
          BY <4>1, <4>2
      <3> QED
        BY <3>1
    <2> HIDE DEF n, k
    <2>4. DOMAIN q = 1 .. n /\ \A i \in 1 .. n : q[i] = (p[i] \ k(i)) \union (k(i) \ p[i])
      BY <2>2
    <2>5. \A i \in 1 .. n : q[i] \in Byte
      BY <2>2, <2>3, <2>4 DEF Byte
    <2>6. q \in Seq(Byte)
      <3>1. q = [i \in 1 .. n |-> q[i]]
        BY <2>2, <2>4
      <3> HIDE DEF q
      <3>2. q \in [1 .. n -> Byte] /\ n \in Nat
        BY <2>2, <2>5, <3>1
      <3> QED
        BY <3>2
    <2> DEFINE r == [i \in DOMAIN q |-> (q[i] \ k(i)) \union (k(i) \ q[i])]
    <2>7. C!Masked(q, key) = r
      BY <1>2 DEF C!Masked, k
    <2> HIDE DEF q
    <2>8. DOMAIN r = 1 .. n /\ \A i \in 1 .. n : r[i] = p[i]
      <3>1. ASSUME NEW i \in 1 .. n PROVE (q[i] \ k(i)) \union (k(i) \ q[i]) = p[i]
        <4>1. q[i] = (p[i] \ k(i)) \union (k(i) \ p[i])
          BY <2>4
        <4> QED
          BY <4>1
      <3> QED
        BY <2>4, <3>1
    <2>9. r = [i \in 1 .. n |-> r[i]] /\ p = [i \in 1 .. n |-> p[i]]
      BY <2>2, <2>4
    <2>10. r = p
      <3> HIDE DEF r
      <3> QED
        BY <2>8, <2>9
    <2> QED
      BY <2>1, <2>6, <2>7, <2>10
  <1> QED
    BY <1>1, <1>2

MaskInv ==
  codec = "mask" =>
    /\ sent \in Seq(Byte) /\ setting \in Seq(Byte) /\ buffer \in Seq(Byte) /\ wire \in Seq(Byte)
    /\ Cat(buffer, wire) = C!Masked(sent, setting)
    /\ wire = <<>> /\ buffer # <<>> => got = sent

(* A payload begins unread.                                                 *)
LEMMA MaskInit == C!Init /\ codec = "mask" => MaskInv
  <1> SUFFICES ASSUME C!Init, codec = "mask" PROVE MaskInv
    OBVIOUS
  <1>1. sent \in Payloads /\ setting \in Keys /\ wire = C!Masked(sent, setting) /\ buffer = <<>>
    BY DEF C!Init
  <1>2. sent \in Seq(Byte)
    <2>1. {1} \in Byte /\ {2} \in Byte /\ {1, 2} \in Byte /\ {} \in Byte
      BY DEF Byte
    <2>2. <<>> \in Seq(Byte) /\ <<{1}, {2}, {1, 2}, {}, {2}>> \in Seq(Byte)
      BY <2>1
    <2> QED
      BY <1>1, <2>2 DEF Payloads
  <1>3. setting \in Seq(Byte)
    <2>1. {1} \in Byte /\ {2} \in Byte /\ {1, 2} \in Byte /\ {} \in Byte
      BY DEF Byte
    <2>2. <<>> \in Seq(Byte) /\ <<{1}, {2}, {1, 2}, {}>> \in Seq(Byte)
      BY <2>1
    <2> QED
      BY <1>1, <2>2 DEF Keys
  <1>4. wire \in Seq(Byte)
    BY <1>1, <1>2, <1>3, MaskTwice
  <1>5. Cat(buffer, wire) = wire /\ buffer \in Seq(Byte)
    BY <1>1, <1>4, CatEmpty
  <1> QED
    BY <1>1, <1>2, <1>3, <1>4, <1>5 DEF MaskInv

(* It is unmasked as it was masked.                                         *)
LEMMA MaskReceive == MaskInv /\ codec = "mask" /\ C!Receive => MaskInv'
  <1> SUFFICES ASSUME MaskInv, codec = "mask", C!Receive PROVE MaskInv'
    OBVIOUS
  <1>1. /\ sent' = sent /\ setting' = setting
        /\ wire' = <<>> => got' = C!Masked(buffer', setting)
    BY DEF C!Receive
  <1>2. /\ sent \in Seq(Byte) /\ setting \in Seq(Byte) /\ buffer \in Seq(Byte) /\ wire \in Seq(Byte)
        /\ Cat(buffer, wire) = C!Masked(sent, setting)
    BY DEF MaskInv
  <1>3. buffer' \in Seq(Byte) /\ wire' \in Seq(Byte) /\ Cat(buffer', wire') = Cat(buffer, wire)
    BY <1>2, Arrives
  <1>4. wire' = <<>> => got' = sent'
    <2> HAVE wire' = <<>>
    <2>1. Cat(buffer', <<>>) = buffer'
      BY <1>3, CatEmpty
    <2>2. buffer' = C!Masked(sent, setting)
      BY <1>2, <1>3, <2>1
    <2>3. C!Masked(C!Masked(sent, setting), setting) = sent
      BY <1>2, MaskTwice
    <2> QED
      BY <1>1, <2>2, <2>3
  <1>5. C!Masked(sent, setting)' = C!Masked(sent, setting)
    BY <1>1 DEF C!Masked
  <1>6. Cat(buffer, wire)' = Cat(buffer', wire')
    BY DEF Cat
  <1> QED
    BY <1>1, <1>2, <1>3, <1>4, <1>5, <1>6 DEF MaskInv

(* What is on the wire is what was sent, and what is not there was left out.*)
Carried(json) ==
  /\ DOMAIN json \subseteq MessageFields
  /\ \A f \in DOMAIN json : json[f] = sent[f]
  /\ \A f \in MessageFields \ DOMAIN json : f \in setting.left \/ (setting.exclude_none /\ sent[f] = C!None)
Arrived(message) ==
  \A f \in MessageFields :
    \/ message[f] = sent[f]
    \/ /\ message[f] = setting.defaults[f]
       /\ f \in setting.left \/ f \notin setting.knows \/ (setting.exclude_none /\ sent[f] = C!None)
MessageInv ==
  codec = "message" =>
    /\ got \notin {<<>>, C!Raised} => Arrived(got)
    /\ wire # <<>> => Len(wire) = 2 /\ Carried(wire[2])

(* A message that is read has what was written, or the target's defaults.   *)
LEMMA MessageStep == MessageInv /\ codec = "message" /\ (C!Write \/ C!Read) => MessageInv'
  <1> SUFFICES ASSUME MessageInv, codec = "message", C!Write \/ C!Read PROVE MessageInv'
    OBVIOUS
  <1>1. sent' = sent /\ codec' = codec /\ setting' = setting
    BY DEF C!Write, C!Read
  <1>2. (got \notin {<<>>, C!Raised} => Arrived(got)) /\ (wire # <<>> => Len(wire) = 2 /\ Carried(wire[2]))
    BY DEF MessageInv
  <1>4. CASE C!Write
    <2>1. got = <<>> /\ wire = <<>>
      BY <1>4 DEF C!Write
    <2> DEFINE omitted == setting.left \union {f \in MessageFields : setting.exclude_none /\ sent[f] = C!None}
               json == [f \in MessageFields \ omitted |-> sent[f]]
    <2>2. CASE wire' = <<setting.written, json>> /\ got' = got
      <3>1. Carried(json)
        BY DEF Carried
      <3> HIDE DEF json
      <3>2. Len(wire') = 2 /\ wire'[2] = json
        BY <2>2
      <3> QED
        BY <1>1, <2>1, <2>2, <3>1, <3>2 DEF MessageInv, Carried
    <2>3. CASE got' = C!Raised /\ wire' = wire
      BY <2>1, <2>3 DEF MessageInv
    <2> QED
      BY <1>4, <2>2, <2>3 DEF C!Write, C!Raise
  <1>5. CASE C!Read
    <2>1. wire' = <<>> /\ wire # <<>> /\ C!Last(wire) = wire[2] /\ Carried(wire[2])
      BY <1>2, <1>5 DEF C!Read, C!Last
    <2> DEFINE json == wire[2]
               found == DOMAIN json \intersect setting.knows
    <2>2. CASE got' = [f \in MessageFields |-> IF f \in found THEN json[f] ELSE setting.defaults[f]]
      <3> HIDE DEF json
      <3>1. ASSUME NEW f \in MessageFields
            PROVE  \/ got'[f] = sent[f]
                   \/ /\ got'[f] = setting.defaults[f]
                      /\ f \in setting.left \/ f \notin setting.knows \/ (setting.exclude_none /\ sent[f] = C!None)
        <4>1. CASE f \in found
          BY <2>1, <2>2, <4>1 DEF Carried, json
        <4>2. CASE f \notin found
          BY <2>1, <2>2, <4>2 DEF Carried, json
        <4> QED
          BY <4>1, <4>2
      <3> QED
        BY <1>1, <2>1, <3>1 DEF MessageInv, Arrived
    <2>3. CASE got' = C!Raised
      BY <2>1, <2>3 DEF MessageInv
    <2> QED
      BY <1>5, <2>1, <2>2, <2>3 DEF C!Read, C!Raise
  <1> QED
    BY <1>4, <1>5

CodecInv == SseInv /\ HeaderInv /\ MaskInv /\ MessageInv

(* The codecs together: the invariant holds at first,                       *)
LEMMA CodecInit == C!Init => CodecInv
  <1> SUFFICES ASSUME C!Init PROVE CodecInv
    OBVIOUS
  <1>1. MessageInv
    BY DEF C!Init, MessageInv
  <1>2. SseInv
    <2>1. CASE codec = "sse"
      BY <2>1, SseInit
    <2> QED
      BY <2>1 DEF SseInv
  <1>3. HeaderInv
    <2>1. CASE codec = "header"
      BY <2>1, HeaderInit
    <2> QED
      BY <2>1 DEF HeaderInv
  <1>4. MaskInv
    <2>1. CASE codec = "mask"
      BY <2>1, MaskInit
    <2> QED
      BY <2>1 DEF MaskInv
  <1> QED
    BY <1>1, <1>2, <1>3, <1>4 DEF CodecInv

(* is kept by every step of any codec,                                      *)
LEMMA CodecNext == CodecInv /\ C!Next => CodecInv'
  <1> SUFFICES ASSUME CodecInv, C!Next PROVE CodecInv'
    OBVIOUS
  <1>1. SseInv /\ HeaderInv /\ MaskInv /\ MessageInv
    BY DEF CodecInv
  <1>2. codec' = codec
    BY DEF C!Next, C!Receive, C!TakeFrame, C!End, C!Write, C!Read
  <1>3. CASE C!Receive
    <2>1. codec # "message"
      BY <1>3 DEF C!Receive
    <2>2. SseInv'
      <3>1. CASE codec = "sse"
        BY <1>1, <1>3, <3>1, SseReceive
      <3> QED
        BY <1>2, <3>1 DEF SseInv
    <2>3. HeaderInv'
      <3>1. CASE codec = "header"
        BY <1>1, <1>3, <3>1, HeaderReceive
      <3> QED
        BY <1>2, <3>1 DEF HeaderInv
    <2>4. MaskInv'
      <3>1. CASE codec = "mask"
        BY <1>1, <1>3, <3>1, MaskReceive
      <3> QED
        BY <1>2, <3>1 DEF MaskInv
    <2>5. MessageInv'
      BY <1>2, <2>1 DEF MessageInv
    <2> QED
      BY <2>2, <2>3, <2>4, <2>5 DEF CodecInv
  <1>4. CASE C!TakeFrame \/ C!End
    <2>1. codec = "sse"
      BY <1>4 DEF C!TakeFrame, C!End
    <2>2. SseInv'
      BY <1>1, <1>4, SseTake, SseEnd
    <2> QED
      BY <1>2, <2>1, <2>2 DEF CodecInv, HeaderInv, MaskInv, MessageInv
  <1>5. CASE C!Write \/ C!Read
    <2>1. codec = "message"
      BY <1>5 DEF C!Write, C!Read
    <2>2. MessageInv'
      BY <1>1, <1>5, <2>1, MessageStep
    <2> QED
      BY <1>2, <2>1, <2>2 DEF CodecInv, HeaderInv, MaskInv, SseInv
  <1> QED
    BY <1>3, <1>4, <1>5 DEF C!Next

(* and by steps of the other parts,                                         *)
LEMMA CodecSame == CodecInv /\ UNCHANGED <<codec, sent, setting, wire, buffer, got, ended>> => CodecInv'
  <1> SUFFICES ASSUME CodecInv, UNCHANGED <<codec, sent, setting, wire, buffer, got, ended>> PROVE CodecInv'
    OBVIOUS
  <1>1. /\ codec' = codec /\ sent' = sent /\ setting' = setting /\ wire' = wire /\ buffer' = buffer
        /\ got' = got /\ ended' = ended
    OBVIOUS
  <1>2. SseInv'
    <2> USE <1>1
    <2>1. SseInv
      BY DEF CodecInv
    <2>2. Plain' = Plain /\ SseTyped' = SseTyped
      BY DEF Plain, SseTyped, C!Boundaries, C!NL
    <2>3. \A k : SseAt(k)' <=> SseAt(k)
      BY DEF SseAt, Where, C!Written, C!Frame, C!NL
    <2> QED
      BY <2>1, <2>2, <2>3 DEF SseInv
  <1>3. HeaderInv'
    <2>1. HeaderInv
      BY DEF CodecInv
    <2>2. C!Header(sent, setting)' = C!Header(sent, setting)
      BY <1>1 DEF C!Header, C!Shifted
    <2>3. (C!ParseHeader(buffer))' = C!ParseHeader(buffer)
      BY <1>1 DEF C!ParseHeader, C!Number, C!Raised
    <2>4. Cat(buffer, wire)' = Cat(buffer, wire)
      BY <1>1 DEF Cat
    <2> QED
      BY <1>1, <2>1, <2>2, <2>3, <2>4 DEF HeaderInv
  <1>4. MaskInv'
    <2>1. MaskInv
      BY DEF CodecInv
    <2> QED
      BY <1>1, <2>1 DEF MaskInv, C!Masked
  <1>5. MessageInv'
    <2>1. MessageInv
      BY DEF CodecInv
    <2> QED
      BY <1>1, <2>1 DEF MessageInv, Carried, Arrived, C!Raised
  <1> QED
    BY <1>2, <1>3, <1>4, <1>5 DEF CodecInv

(* and gives what the run checks.                                           *)
LEMMA CodecRight == CodecInv => C!CodecsInv
  <1> SUFFICES ASSUME CodecInv PROVE C!CodecsInv
    OBVIOUS
  <1>1. SseInv /\ HeaderInv /\ MaskInv /\ MessageInv
    BY DEF CodecInv
  <1>2. codec = "sse" /\ C!Boundaries(buffer) = {} /\ (\A n \in DOMAIN sent : C!NL \notin C!ToSet(sent[n])) =>
          /\ Len(got) >= C!Whole /\ SubSeq(got, 1, C!Whole) = SubSeq(sent, 1, C!Whole)
          /\ Len(got) > C!Whole => ended /\ Len(got) = C!Whole + 1
             /\ C!IsPrefix(C!Last(got), sent[C!Whole + 1])
    BY <1>1, SseRight
  <1>3. codec = "header" => /\ got \in {<<>>, C!Raised, <<"header", setting, Len(buffer), sent>>}
                            /\ wire = <<>> => got \notin {<<>>, C!Raised}
    BY <1>1, HeaderRight
  <1>4. codec = "mask" /\ wire = <<>> /\ buffer # <<>> => got = sent
    BY <1>1 DEF MaskInv
  <1>5. codec = "message" /\ got \notin {<<>>, C!Raised} => Arrived(got)
    BY <1>1 DEF MessageInv
  <1> QED
    BY <1>2, <1>3, <1>4, <1>5 DEF C!CodecsInv, Arrived

------------------------------------------------------------------------------
(* The rows of the roadmap's tables.                                        *)
(* Flattening means the same in an instance.                                *)
LEMMA RowFlat == ASSUME NEW s PROVE R!FlattenSeq(s) = Flat(s)
  BY DEF R!FlattenSeq, Flat

(* Consecutive words, of two fields, are the words of one.                   *)
LEMMA WordsJoin ==
  ASSUME NEW n \in Nat, NEW m \in Nat, n <= m
  PROVE  /\ R!Words(1, n) \in Seq(Nat) /\ R!Words(n + 1, m) \in Seq(Nat)
         /\ R!Words(1, n) \o R!Words(n + 1, m) = R!Words(1, m)
  <1> DEFINE a == R!Words(1, n)
             b == R!Words(n + 1, m)
  <1>1. a \in Seq(Nat) /\ Len(a) = n /\ \A i \in 1 .. n : a[i] = i
    <2>1. a = [i \in 1 .. n |-> i]
      BY DEF R!Words
    <2> HIDE DEF a
    <2> QED
      BY <2>1
  <1>2. b \in Seq(Nat) /\ Len(b) = m - n /\ \A i \in 1 .. m - n : b[i] = n + i
    <2>1. b = [i \in 1 .. m - n |-> n + i]
      BY DEF R!Words
    <2> HIDE DEF b
    <2>2. m - n \in Nat /\ \A i \in 1 .. m - n : n + i \in Nat
      OBVIOUS
    <2> QED
      BY <2>1, <2>2
  <1> HIDE DEF a, b
  <1>3. a \o b \in Seq(Nat) /\ Len(a \o b) = m
    BY <1>1, <1>2
  <1>4. ASSUME NEW i \in 1 .. m PROVE (a \o b)[i] = i
    BY <1>1, <1>2
  <1>5. R!Words(1, m) \in Seq(Nat) /\ Len(R!Words(1, m)) = m /\ \A i \in 1 .. m : R!Words(1, m)[i] = i
    <2>1. R!Words(1, m) = [i \in 1 .. m |-> i]
      BY DEF R!Words
    <2> QED
      BY <2>1
  <1>6. a \o b = R!Words(1, m)
    <2> DEFINE c == a \o b
               d == R!Words(1, m)
    <2>1. c \in Seq(Nat) /\ Len(c) = m /\ d \in Seq(Nat) /\ Len(d) = m /\ \A i \in 1 .. m : c[i] = d[i]
      BY <1>3, <1>4, <1>5
    <2> HIDE DEF c, d
    <2>2. c = d
      BY <2>1
    <2> QED
      BY <2>2 DEF c, d
  <1> QED
    BY <1>1, <1>2, <1>6 DEF a, b

Covers(fs, n) == fs \in Seq(Seq(Nat)) /\ Flat(fs) = R!Words(1, n)

(* Words that are added go behind those that are covered.                   *)
LEMMA CoverMore ==
  ASSUME NEW n \in Nat, NEW m \in Nat, n <= m, NEW fs, Covers(fs, n)
  PROVE  Covers(Append(fs, R!Words(n + 1, m)), m) /\ Len(Append(fs, R!Words(n + 1, m))) = Len(fs) + 1
  <1> DEFINE x == R!Words(n + 1, m)
  <1>1. x \in Seq(Nat) /\ R!Words(1, n) \o x = R!Words(1, m)
    BY WordsJoin
  <1>2. fs \in Seq(Seq(Nat)) /\ Flat(fs) = R!Words(1, n)
    BY DEF Covers
  <1> HIDE DEF x
  <1>3. Flat(Append(fs, x)) = Flat(fs) \o x
    BY <1>1, <1>2, FlatAppend
  <1>4. Append(fs, x) \in Seq(Seq(Nat)) /\ Len(Append(fs, x)) = Len(fs) + 1
    BY <1>1, <1>2
  <1> QED
    BY <1>1, <1>2, <1>3, <1>4 DEF Covers, x

(* A word is a number: its place in the row.                                *)
LEMMA SmallWords ==
  ASSUME NEW n \in Nat
  PROVE  R!Words(n, n) = <<n>> /\ R!Words(n + 1, n) = <<>>
  <1>1. R!Words(n, n) = [i \in 1 .. 1 |-> n]
    <2>1. n - n + 1 = 1 /\ \A i \in 1 .. 1 : n + i - 1 = n
      OBVIOUS
    <2> QED
      BY <2>1 DEF R!Words
  <1>2. [i \in 1 .. 1 |-> n] = <<n>>
    OBVIOUS
  <1>3. R!Words(n + 1, n) = <<>>
    <2>1. 1 .. n - (n + 1) + 1 = {}
      OBVIOUS
    <2>2. R!Words(n + 1, n) = [i \in {} |-> n + 1 + i - 1]
      BY <2>1 DEF R!Words
    <2> QED
      BY <2>2
  <1> QED
    BY <1>1, <1>2, <1>3

(* Cells of one word each cover the row.                                    *)
LEMMA AloneCovers ==
  ASSUME NEW n \in Nat
  PROVE  /\ Covers(R!Alone(1, n), n) /\ Len(R!Alone(1, n)) = n
         /\ \A i \in 1 .. n : R!Alone(1, n)[i] = <<i>>
  <1> DEFINE A(k) == R!Alone(1, k)
             P == {k \in 0 .. n : Covers(A(k), k)}
  <1>1. \A k \in Nat : A(k) = [i \in 1 .. k |-> <<i>>]
    <2>1. ASSUME NEW k \in Nat PROVE A(k) = [i \in 1 .. k |-> <<i>>]
      <3>1. k - 1 + 1 = k /\ \A i \in 1 .. k : 1 + i - 1 = i
        OBVIOUS
      <3> QED
        BY <3>1 DEF R!Alone
    <2> QED
      BY <2>1
  <1> HIDE DEF A
  <1>2. \A k \in Nat : A(k) \in Seq(Seq(Nat)) /\ Len(A(k)) = k /\ \A i \in 1 .. k : A(k)[i] = <<i>>
    <2>1. ASSUME NEW k \in Nat PROVE A(k) \in Seq(Seq(Nat)) /\ Len(A(k)) = k
          /\ \A i \in 1 .. k : A(k)[i] = <<i>>
      <3> DEFINE a == A(k)
      <3>1. a = [i \in 1 .. k |-> <<i>>]
        BY <1>1
      <3>2. \A i \in 1 .. k : <<i>> \in Seq(Nat)
        OBVIOUS
      <3> HIDE DEF a
      <3>3. a \in Seq(Seq(Nat)) /\ Len(a) = k /\ \A i \in 1 .. k : a[i] = <<i>>
        BY <3>1, <3>2
      <3> QED
        BY <3>3 DEF a
    <2> QED
      BY <2>1
  <1>3. 0 \in P
    <2>1. A(0) = <<>>
      BY <1>1
    <2>2. R!Words(1, 0) = <<>>
      <3>1. 0 \in Nat /\ 0 + 1 = 1
        OBVIOUS
      <3> QED
        BY <3>1, SmallWords
    <2>3. <<>> \in Seq(Seq(Nat)) /\ 0 \in 0 .. n
      OBVIOUS
    <2> QED
      BY <2>1, <2>2, <2>3, FlatEmpty DEF Covers
  <1>4. ASSUME NEW k \in 0 .. n - 1, k \in P PROVE k + 1 \in P
    <2>1. Covers(A(k), k)
      BY <1>4
    <2>2. k \in Nat /\ k + 1 \in Nat /\ k <= k + 1 /\ k + 1 \in 0 .. n
      OBVIOUS
    <2>3. Covers(Append(A(k), R!Words(k + 1, k + 1)), k + 1)
      BY <2>1, <2>2, CoverMore
    <2>4. R!Words(k + 1, k + 1) = <<k + 1>>
      BY <2>2, SmallWords
    <2>5. Append(A(k), <<k + 1>>) = A(k + 1)
      <3>1. /\ A(k) \in Seq(Seq(Nat)) /\ Len(A(k)) = k /\ \A i \in 1 .. k : A(k)[i] = <<i>>
            /\ A(k + 1) \in Seq(Seq(Nat)) /\ Len(A(k + 1)) = k + 1
               /\ \A i \in 1 .. k + 1 : A(k + 1)[i] = <<i>>
        BY <1>2, <2>2
      <3> DEFINE a == A(k)
                 b == A(k + 1)
                 x == <<k + 1>>
      <3>2. x \in Seq(Nat) /\ k + 1 \in 1 .. k + 1 /\ \A i \in 1 .. k : i \in 1 .. k + 1
        OBVIOUS
      <3>3. /\ a \in Seq(Seq(Nat)) /\ Len(a) = k /\ \A i \in 1 .. k : a[i] = b[i]
            /\ b \in Seq(Seq(Nat)) /\ Len(b) = k + 1 /\ b[k + 1] = x
        BY <3>1, <3>2
      <3> HIDE DEF a, b, x
      <3>4. Append(a, x) = b
        BY <2>2, <3>2, <3>3
      <3> QED
        BY <3>4 DEF a, b, x
    <2> QED
      BY <2>2, <2>3, <2>4, <2>5
  <1>5. n \in P
    <2> HIDE DEF P
    <2>1. 0 .. n \subseteq P
      BY <1>3, <1>4, Bounded
    <2> QED
      BY <2>1
  <1> QED
    BY <1>2, <1>5 DEF A

(* Three cells of a row of which the middle one is known.                   *)
LEMMA Three ==
  ASSUME NEW S, NEW s \in Seq(S), NEW a \in S, NEW b \in S, NEW c \in S
  PROVE  /\ s \o <<a, b, c>> = Append(Append(Append(s, a), b), c)
         /\ s \o <<a, b>> = Append(Append(s, a), b) /\ s \o <<a>> = Append(s, a)
  OBVIOUS

(* A range of words that begins right behind those that are covered.        *)
LEMMA CoverWords ==
  ASSUME NEW fs, NEW n \in Nat, NEW m \in Nat, n <= m, Covers(fs, n)
  PROVE  /\ R!Words(n + 1, m) \in Seq(Nat)
         /\ Append(fs, R!Words(n + 1, m)) = fs \o <<R!Words(n + 1, m)>>
         /\ Covers(fs \o <<R!Words(n + 1, m)>>, m)
         /\ Len(fs \o <<R!Words(n + 1, m)>>) = Len(fs) + 1
  <1> DEFINE x == R!Words(n + 1, m)
  <1>1. x \in Seq(Nat) /\ fs \in Seq(Seq(Nat))
    BY WordsJoin DEF Covers
  <1>2. Covers(Append(fs, x), m) /\ Len(Append(fs, x)) = Len(fs) + 1
    BY CoverMore
  <1> HIDE DEF x
  <1>3. Append(fs, x) = fs \o <<x>>
    BY <1>1, Three
  <1> QED
    BY <1>1, <1>2, <1>3 DEF x

(* The last two fields, and the last three, cover what is left, whatever of *)
(* it each has.                                                             *)
LEMMA CoverThree ==
  ASSUME NEW fs, NEW n \in Nat, NEW p \in Nat, NEW q \in Nat, NEW m \in Nat, n <= p, p <= q, q <= m,
         Covers(fs, n)
  PROVE  /\ Covers(fs \o <<R!Words(n + 1, p), R!Words(p + 1, q)>>, q)
         /\ Len(fs \o <<R!Words(n + 1, p), R!Words(p + 1, q)>>) = Len(fs) + 2
         /\ Covers(fs \o <<R!Words(n + 1, p), R!Words(p + 1, q), R!Words(q + 1, m)>>, m)
         /\ Len(fs \o <<R!Words(n + 1, p), R!Words(p + 1, q), R!Words(q + 1, m)>>) = Len(fs) + 3
  <1> DEFINE a == R!Words(n + 1, p)
             b == R!Words(p + 1, q)
             c == R!Words(q + 1, m)
             fa == Append(fs, a)
             fb == Append(fa, b)
             fc == Append(fb, c)
  <1>1. a \in Seq(Nat) /\ b \in Seq(Nat) /\ c \in Seq(Nat) /\ fs \in Seq(Seq(Nat))
    BY WordsJoin DEF Covers
  <1>2. Covers(fa, p) /\ Len(fa) = Len(fs) + 1
    BY CoverMore
  <1> HIDE DEF fa
  <1>3. Covers(fb, q) /\ Len(fb) = Len(fa) + 1
    BY <1>2, CoverMore
  <1> HIDE DEF fb
  <1>4. Covers(fc, m) /\ Len(fc) = Len(fb) + 1
    BY <1>3, CoverMore
  <1> HIDE DEF a, b, c, fc
  <1>5. fb = fs \o <<a, b>> /\ fc = fs \o <<a, b, c>>
    <2>1. Append(Append(fs, a), b) = fs \o <<a, b>> /\ Append(Append(Append(fs, a), b), c) = fs \o <<a, b, c>>
      <3> DEFINE Z == Seq(Nat)
      <3>1. a \in Z /\ b \in Z /\ c \in Z /\ fs \in Seq(Z)
        BY <1>1
      <3> HIDE DEF Z
      <3> QED
        BY <3>1, Three
    <2> QED
      BY <2>1 DEF fa, fb, fc
  <1>6. Len(fs) \in Nat
    BY <1>1
  <1> QED
    BY <1>2, <1>3, <1>4, <1>5, <1>6 DEF a, b, c

(* Merging the cells behind the last column into it keeps the words.        *)
LEMMA MergeCovers ==
  ASSUME NEW width \in Nat, width > 0, length \in Nat
  PROVE  /\ Covers(R!MergeTail(width), length)
         /\ Len(R!MergeTail(width)) = IF length < width THEN length ELSE width
  <1>1. CASE length <= width
    <2>1. R!MergeTail(width) = R!Alone(1, length)
      BY <1>1 DEF R!MergeTail
    <2>2. Covers(R!Alone(1, length), length) /\ Len(R!Alone(1, length)) = length
      BY AloneCovers
    <2> QED
      BY <1>1, <2>1, <2>2
  <1>2. CASE length > width
    <2>1. width - 1 \in Nat /\ (width - 1) + 1 = width /\ width - 1 <= length
      BY <1>2
    <2>2. R!MergeTail(width) = R!Alone(1, width - 1) \o <<R!Words((width - 1) + 1, length)>>
      BY <1>2, <2>1 DEF R!MergeTail
    <2>3. Covers(R!Alone(1, width - 1), width - 1) /\ Len(R!Alone(1, width - 1)) = width - 1
      BY <2>1, AloneCovers
    <2>4. /\ Covers(R!Alone(1, width - 1) \o <<R!Words((width - 1) + 1, length)>>, length)
          /\ Len(R!Alone(1, width - 1) \o <<R!Words((width - 1) + 1, length)>>) =
             Len(R!Alone(1, width - 1)) + 1
      <3> HIDE DEF Covers
      <3> QED
        BY <1>2, <2>1, <2>3, CoverWords
    <2> QED
      BY <1>2, <2>1, <2>2, <2>3, <2>4
  <1> QED
    BY <1>1, <1>2

(* The first of some places is one of them, with none before it.            *)
LEMMA FirstIn ==
  ASSUME NEW S \in SUBSET Nat, S # {}
  PROVE  R!First(S) \in S
  <1>1. \E n \in S : \A m \in S : n <= m
    BY Least
  <1> QED
    BY <1>1 DEF R!First

(* The latest of some places before a bound is one of them, with none       *)
(* between.                                                                 *)
LEMMA LatestIn ==
  ASSUME NEW bound \in Nat, NEW S \in SUBSET (0 .. bound), S # {}
  PROVE  R!Latest(S) \in S
  <1> DEFINE X == {bound - n : n \in S}
  <1>1. X \in SUBSET Nat /\ X # {}
    <2>1. ASSUME NEW n \in S PROVE bound - n \in Nat
      <3>1. n \in 0 .. bound
        OBVIOUS
      <3> QED
        BY <3>1
    <2>2. \E n \in S : TRUE
      OBVIOUS
    <2>3. \A x \in X : x \in Nat
      BY <2>1
    <2>4. X # {}
      BY <2>2
    <2> QED
      BY <2>3, <2>4
  <1>2. PICK k \in X : \A m \in X : k <= m
    <2> HIDE DEF X
    <2> QED
      BY <1>1, Least
  <1>3. PICK n \in S : k = bound - n
    BY <1>2
  <1>4. ASSUME NEW m \in S PROVE m <= n
    <2>1. bound - n <= bound - m
      BY <1>2, <1>3
    <2>2. n \in Nat /\ m \in Nat
      OBVIOUS
    <2> QED
      BY <2>1, <2>2
  <1> QED
    BY <1>3, <1>4 DEF R!Latest

RowTyped ==
  /\ table \in Tables /\ length \in Nat /\ length >= table.width - 1
  /\ severities \in SUBSET (4 .. length) /\ efforts \in SUBSET (4 .. length)

RowWhole(fs, width) == Covers(fs, length) /\ Len(fs) = IF length < width THEN length ELSE width

(* A repaired row of a table of buggy components covers the words.          *)
LEMMA BuggyCovers ==
  ASSUME RowTyped, NEW width \in Nat, width > 0, length > width
  PROVE  RowWhole(R!RepairBuggy(width), width)
  <1> DEFINE S == R!SeverityFrom(6)
             sev == R!First(S)
             a == R!Alone(1, sev)
             rest == CASE length = sev -> <<<<>>, <<>>>>
                       [] length = sev + 1 -> <<<<length>>, <<>>>>
                       [] OTHER -> <<R!Words(sev + 1, length - 1), <<length>>>>
             repaired == a \o rest
  <1>0. length \in Nat
    BY DEF RowTyped
  <1>1. CASE S = {} \/ Len(repaired) # width
    <2>1. R!RepairBuggy(width) = R!MergeTail(width)
      BY <1>1 DEF R!RepairBuggy
    <2> QED
      BY <1>0, <2>1, MergeCovers DEF RowWhole
  <1>2. CASE S # {} /\ Len(repaired) = width
    <2>1. R!RepairBuggy(width) = repaired
      BY <1>2 DEF R!RepairBuggy
    <2>2. sev \in Nat /\ sev <= length /\ sev >= 6
      <3>1. S \in SUBSET Nat /\ \A i \in S : i <= length /\ i >= 6
        <4>1. severities \in SUBSET (4 .. length)
          BY DEF RowTyped
        <4>2. S = {i \in severities : i >= 6}
          BY DEF R!SeverityFrom
        <4> HIDE DEF S
        <4>3. ASSUME NEW i \in S PROVE i \in Nat /\ i <= length /\ i >= 6
          <5>1. i \in 4 .. length /\ i >= 6
            BY <4>1, <4>2
          <5> QED
            BY <1>0, <5>1
        <4> QED
          BY <4>3
      <3> HIDE DEF S
      <3> QED
        BY <1>2, <3>1, FirstIn
    <2>3. Covers(a, sev)
      <3> HIDE DEF S, sev
      <3> QED
        BY <2>2, AloneCovers
    <2> HIDE DEF sev, a
    <2>4. Covers(a \o rest, length)
      <3>1. CASE length = sev
        <4>1. R!Words(sev + 1, sev) = <<>>
          BY <2>2, SmallWords
        <4>2. rest = <<R!Words(sev + 1, sev), R!Words(sev + 1, sev)>>
          <5>1. rest = <<<<>>, <<>>>>
            BY <1>0, <2>2, <3>1
          <5> HIDE DEF rest
          <5> QED
            BY <4>1, <5>1
        <4>3. Covers(a \o <<R!Words(sev + 1, sev), R!Words(sev + 1, sev)>>, sev)
          <5>1. sev <= sev
            BY <2>2
          <5> QED
            BY <2>2, <2>3, <5>1, CoverThree
        <4> QED
          BY <3>1, <4>2, <4>3
      <3>2. CASE length = sev + 1
        <4>1. R!Words(length + 1, length) = <<>> /\ R!Words(sev + 1, length) = <<length>>
          BY <1>0, <3>2, SmallWords
        <4>2. rest = <<R!Words(sev + 1, length), R!Words(length + 1, length)>>
          <5>1. length # sev
            BY <2>2, <3>2
          <5> QED
            BY <3>2, <4>1, <5>1
        <4>3. Covers(a \o <<R!Words(sev + 1, length), R!Words(length + 1, length)>>, length)
          <5>1. length <= length
            BY <1>0
          <5> QED
            BY <1>0, <2>2, <2>3, <5>1, CoverThree
        <4> QED
          BY <4>2, <4>3
      <3>3. CASE length # sev /\ length # sev + 1
        <4>1. length - 1 \in Nat /\ sev <= length - 1 /\ length - 1 <= length /\ length - 1 + 1 = length
          BY <1>0, <2>2, <3>3
        <4>2. R!Words(length - 1 + 1, length) = <<length>>
          BY <1>0, <4>1, SmallWords
        <4>3. rest = <<R!Words(sev + 1, length - 1), R!Words(length - 1 + 1, length)>>
          BY <3>3, <4>2
        <4>4. Covers(a \o <<R!Words(sev + 1, length - 1), R!Words(length - 1 + 1, length)>>, length)
          <5>1. length <= length
            BY <1>0
          <5> QED
            BY <1>0, <2>2, <2>3, <4>1, <5>1, CoverThree
        <4> QED
          BY <4>3, <4>4
      <3> QED
        BY <3>1, <3>2, <3>3
    <2> QED
      <3>1. R!RepairBuggy(width) = a \o rest /\ Len(a \o rest) = width
        BY <1>2, <2>1 DEF sev, a
      <3> HIDE DEF rest
      <3>2. ~ (length < width)
        BY <1>0
      <3> QED
        BY <2>4, <3>1, <3>2 DEF RowWhole
  <1> QED
    BY <1>1, <1>2

(* The cells from the one before the severity to the one behind it.         *)
LEMMA ThreeAt ==
  ASSUME NEW S, NEW s \in Seq(S), NEW a \in S, NEW b \in S, NEW c \in S
  PROVE  /\ \A i \in 1 .. Len(s) : (s \o <<a, b, c>>)[i] = s[i] /\ (s \o <<a, b>>)[i] = s[i]
         /\ (s \o <<a, b, c>>)[Len(s) + 1] = a /\ (s \o <<a, b, c>>)[Len(s) + 2] = b
            /\ (s \o <<a, b, c>>)[Len(s) + 3] = c
         /\ (s \o <<a, b>>)[Len(s) + 1] = a /\ (s \o <<a, b>>)[Len(s) + 2] = b
  <1>1. <<a, b, c>> \in Seq(S) /\ <<a, b>> \in Seq(S) /\ Len(<<a, b, c>>) = 3 /\ Len(<<a, b>>) = 2
    OBVIOUS
  <1> QED
    BY <1>1

Start(sev) == R!Alone(1, 3) \o <<R!Words(4, sev - 1), <<sev>>>>
Filled(fs, m, sev, v, w) ==
  /\ Covers(fs, m) /\ Len(fs) = 8
  /\ fs[4] = R!Words(4, sev - 1) /\ fs[5] = <<sev>> /\ fs[7] = v /\ fs[8] = w

(* The first five fields of a row of missing components.                    *)
LEMMA StartCovers ==
  ASSUME NEW sev \in Nat, sev >= 4
  PROVE  LET fs == Start(sev)
         IN  Covers(fs, sev) /\ Len(fs) = 5 /\ fs[4] = R!Words(4, sev - 1) /\ fs[5] = <<sev>>
  <1> DEFINE a == R!Alone(1, 3)
             x == R!Words(4, sev - 1)
             y == <<sev>>
             fs == a \o <<x, y>>
  <1>1. Covers(a, 3) /\ Len(a) = 3
    <2>1. 3 \in Nat
      OBVIOUS
    <2> QED
      BY <2>1, AloneCovers
  <1> HIDE DEF a
  <1>2. 3 \in Nat /\ sev - 1 \in Nat /\ 3 <= sev - 1 /\ sev - 1 <= sev /\ 3 + 1 = 4 /\ sev - 1 + 1 = sev
        /\ sev <= sev
    OBVIOUS
  <1>3. /\ Covers(a \o <<R!Words(3 + 1, sev - 1), R!Words(sev - 1 + 1, sev)>>, sev)
        /\ Len(a \o <<R!Words(3 + 1, sev - 1), R!Words(sev - 1 + 1, sev)>>) = Len(a) + 2
    BY <1>1, <1>2, CoverThree
  <1>4. R!Words(3 + 1, sev - 1) = x /\ R!Words(sev - 1 + 1, sev) = y
    BY <1>2, SmallWords
  <1>5. Covers(fs, sev) /\ Len(fs) = 5
    BY <1>1, <1>3, <1>4
  <1>6. a \in Seq(Seq(Nat))
    BY <1>1 DEF Covers
  <1> DEFINE Z == Seq(Nat)
  <1>7. a \in Seq(Z) /\ x \in Z /\ y \in Z
    <2>1. x \in Seq(Nat)
      BY <1>2, WordsJoin
    <2> QED
      BY <1>6, <2>1
  <1> HIDE DEF Z, x, y
  <1>8. (a \o <<x, y>>)[Len(a) + 1] = x /\ (a \o <<x, y>>)[Len(a) + 2] = y
    BY <1>7, ThreeAt
  <1>9. Len(a) + 1 = 4 /\ Len(a) + 2 = 5
    BY <1>1
  <1>10. fs[4] = x /\ fs[5] = y
    BY <1>8, <1>9
  <1> QED
    BY <1>5, <1>10 DEF x, y, a, Start

(* What the cells before the severity hold.                                 *)
LEMMA StartWords ==
  ASSUME NEW sev \in Nat, sev >= 4, NEW p \in Nat, NEW q \in Nat, NEW m \in Nat, sev <= p, p <= q, q <= m
  PROVE  LET u == R!Words(sev + 1, p)
             v == R!Words(p + 1, q)
             w == R!Words(q + 1, m)
         IN  Filled(Start(sev) \o <<u, v, w>>, m, sev, v, w)
  <1> DEFINE u == R!Words(sev + 1, p)
             v == R!Words(p + 1, q)
             w == R!Words(q + 1, m)
             s == Start(sev)
             fs == s \o <<u, v, w>>
  <1>1. Covers(s, sev) /\ Len(s) = 5 /\ s[4] = R!Words(4, sev - 1) /\ s[5] = <<sev>>
    BY StartCovers
  <1> HIDE DEF s
  <1>2. Covers(fs, m) /\ Len(fs) = Len(s) + 3
    <2> DEFINE fu == Append(s, u)
               fv == Append(fu, v)
               fw == Append(fv, w)
    <2>1. Covers(fu, p) /\ Len(fu) = Len(s) + 1
      <3>1. Covers(Append(s, R!Words(sev + 1, p)), p) /\ Len(Append(s, R!Words(sev + 1, p))) = Len(s) + 1
        <4>1. Covers(s, sev)
          BY <1>1
        <4> QED
          BY <4>1, CoverMore
      <3> QED
        BY <3>1
    <2>2. u \in Seq(Nat) /\ v \in Seq(Nat) /\ w \in Seq(Nat) /\ s \in Seq(Seq(Nat))
      BY <1>1, WordsJoin DEF Covers
    <2> HIDE DEF fu
    <2>3. Covers(fv, q) /\ Len(fv) = Len(fu) + 1
      <3>1. Covers(Append(fu, R!Words(p + 1, q)), q) /\ Len(Append(fu, R!Words(p + 1, q))) = Len(fu) + 1
        BY <2>1, CoverMore
      <3> QED
        BY <3>1
    <2> HIDE DEF fv
    <2>4. Covers(fw, m) /\ Len(fw) = Len(fv) + 1
      <3>1. Covers(Append(fv, R!Words(q + 1, m)), m) /\ Len(Append(fv, R!Words(q + 1, m))) = Len(fv) + 1
        BY <2>3, CoverMore
      <3> QED
        BY <3>1
    <2> DEFINE Z == Seq(Nat)
    <2>5. s \in Seq(Z) /\ u \in Z /\ v \in Z /\ w \in Z
      BY <2>2
    <2> HIDE DEF Z, fw, u, v, w
    <2>6. fw = fs
      <3>1. Append(Append(Append(s, u), v), w) = s \o <<u, v, w>>
        BY <2>5, Three
      <3> QED
        BY <3>1 DEF fu, fv, fw
    <2> QED
      BY <1>1, <2>1, <2>3, <2>4, <2>6
  <1> DEFINE Z == Seq(Nat)
  <1>3. s \in Seq(Z) /\ u \in Z /\ v \in Z /\ w \in Z
    BY <1>1, WordsJoin DEF Covers
  <1> HIDE DEF Z, u, v, w
  <1>4. /\ \A i \in 1 .. Len(s) : fs[i] = s[i]
        /\ fs[Len(s) + 2] = v /\ fs[Len(s) + 3] = w
    BY <1>3, ThreeAt
  <1>5. 4 \in 1 .. Len(s) /\ 5 \in 1 .. Len(s) /\ Len(s) + 2 = 7 /\ Len(s) + 3 = 8
    BY <1>1
  <1> HIDE DEF fs
  <1>6. fs[4] = s[4] /\ fs[5] = s[5] /\ fs[7] = v /\ fs[8] = w
    BY <1>4, <1>5
  <1>7. Filled(fs, m, sev, v, w)
    BY <1>1, <1>2, <1>6 DEF Filled
  <1> QED
    BY <1>7 DEF s, fs, u, v, w

(* The cells around the severity are those of the row.                      *)
LEMMA StartThree ==
  ASSUME NEW sev \in Nat, sev >= 4, NEW p \in Nat, NEW q \in Nat, NEW m \in Nat, sev <= p, p <= q, q <= m,
         NEW u, NEW v, NEW w
  PROVE  u = R!Words(sev + 1, p) /\ v = R!Words(p + 1, q) /\ w = R!Words(q + 1, m) =>
           Filled(Start(sev) \o <<u, v, w>>, m, sev, v, w)
  BY StartWords

(* With an effort found, the cells cover the words.                         *)
LEMMA EffortCovers ==
  ASSUME NEW sev \in Nat, sev >= 4, NEW eff \in Nat, length \in Nat, sev < eff, eff <= length
  PROVE  Filled(R!ByEffort(sev, eff), length, sev, <<eff>>, R!Words(eff + 1, length))
  <1> DEFINE u == R!Words(sev + 1, eff - 1)
             v == R!Words(eff - 1 + 1, eff)
             w == R!Words(eff + 1, length)
             a == R!Alone(1, 3)
             x == R!Words(4, sev - 1)
             y == <<sev>>
  <1>1. eff - 1 \in Nat /\ sev <= eff - 1 /\ eff - 1 <= eff /\ eff - 1 + 1 = eff /\ 3 \in Nat
        /\ sev - 1 \in Nat
        /\ 3 <= sev - 1 /\ 3 + 1 = 4
    OBVIOUS
  <1>2. Filled(Start(sev) \o <<u, v, w>>, length, sev, v, w)
    BY <1>1, StartThree
  <1>3. v = <<eff>>
    BY <1>1, SmallWords
  <1> DEFINE Z == Seq(Nat)
  <1>4. a \in Seq(Z) /\ x \in Z /\ y \in Z /\ u \in Z /\ v \in Z /\ w \in Z
    <2>1. a \in Seq(Z)
      BY <1>1, AloneCovers DEF Covers
    <2>2. x \in Z /\ u \in Z /\ v \in Z /\ w \in Z
      BY <1>1, WordsJoin
    <2> QED
      BY <2>1, <2>2
  <1>5. R!ByEffort(sev, eff) = a \o <<x, y, u, v, w>>
    BY <1>3 DEF R!ByEffort
  <1> HIDE DEF Z, a, x, y, u, v, w
  <1>6. (a \o <<x, y>>) \o <<u, v, w>> = a \o <<x, y, u, v, w>>
    BY <1>4
  <1>7. Start(sev) = a \o <<x, y>>
    BY DEF Start, a, x, y
  <1>8. Filled(R!ByEffort(sev, eff), length, sev, v, w)
    BY <1>2, <1>5, <1>6, <1>7
  <1> QED
    BY <1>3, <1>8 DEF w

(* A repaired row of a table of missing components covers the words.        *)
LEMMA MissingCovers ==
  ASSUME RowTyped, length > 8
  PROVE  RowWhole(R!RepairMissing, 8)
  <1> DEFINE S == R!SeverityFrom(4)
             sev == R!First(S)
             left == length - sev
             E == R!EffortAfter(sev)
             start == Start(sev)
             rest == CASE left >= 3 -> <<R!Words(sev + 1, length - 2), <<length - 1>>, <<length>>>>
                       [] left = 2 -> <<<<sev + 1>>, <<length>>, <<>>>>
                       [] left = 1 -> <<<<>>, <<length>>, <<>>>>
                       [] OTHER -> <<<<>>, <<>>, <<>>>>
  <1>0. length \in Nat /\ severities \in SUBSET (4 .. length) /\ efforts \in SUBSET (4 .. length)
    BY DEF RowTyped
  <1>1. R!RepairMissing = IF S = {} THEN R!MergeTail(8)
                          ELSE IF left >= 3 /\ E # {} THEN R!ByEffort(sev, R!Latest(E))
                          ELSE start \o rest
    BY DEF R!RepairMissing, Start
  <1>2. CASE S = {}
    <2>1. 8 \in Nat /\ 8 > 0
      OBVIOUS
    <2> QED
      BY <1>0, <1>1, <1>2, <2>1, MergeCovers DEF RowWhole
  <1>3. CASE S # {}
    <2>1. sev \in Nat /\ sev <= length /\ sev >= 4
      <3>1. S = {i \in severities : i >= 4}
        BY DEF R!SeverityFrom
      <3> HIDE DEF S
      <3>2. ASSUME NEW i \in S PROVE i \in Nat /\ i <= length /\ i >= 4
        <4>1. i \in 4 .. length
          BY <1>0, <3>1
        <4> QED
          BY <1>0, <4>1
      <3> QED
        BY <1>3, <3>2, FirstIn
    <2>2. CASE left >= 3 /\ E # {}
      <3> DEFINE eff == R!Latest(E)
      <3>1. eff \in Nat /\ sev < eff /\ eff <= length
        <4>1. E = {i \in efforts : i > sev}
          BY DEF R!EffortAfter
        <4> HIDE DEF E, sev
        <4>2. ASSUME NEW i \in E PROVE i \in 0 .. length /\ i > sev
          <5>1. i \in 4 .. length /\ i > sev
            BY <1>0, <4>1
          <5> QED
            BY <1>0, <5>1
        <4>3. R!Latest(E) \in E
          <5>1. E \in SUBSET (0 .. length)
            BY <4>2
          <5> QED
            BY <1>0, <2>2, <5>1, LatestIn
        <4> QED
          BY <1>0, <4>2, <4>3
      <3>2. R!RepairMissing = R!ByEffort(sev, eff)
        BY <1>1, <1>3, <2>2
      <3> HIDE DEF sev, eff
      <3>3. Covers(R!ByEffort(sev, eff), length) /\ Len(R!ByEffort(sev, eff)) = 8
        BY <1>0, <2>1, <3>1, EffortCovers DEF Filled
      <3> QED
        BY <1>0, <3>2, <3>3 DEF RowWhole
    <2>3. CASE ~ (left >= 3 /\ E # {})
      <3>1. R!RepairMissing = start \o rest
        BY <1>1, <1>3, <2>3
      <3> HIDE DEF sev
      <3>2. Covers(start \o rest, length) /\ Len(start \o rest) = 8
        <4>1. CASE left >= 3
          <5>1. length - 2 \in Nat /\ length - 1 \in Nat /\ sev <= length - 2 /\ length - 2 + 1 = length - 1
                /\ length - 1 + 1 = length /\ length - 2 <= length - 1 /\ length - 1 <= length
            BY <1>0, <2>1, <4>1
          <5>2. rest = <<R!Words(sev + 1, length - 2), <<length - 1>>, <<length>>>>
            BY <4>1
          <5>3. <<length - 1>> = R!Words(length - 2 + 1, length - 1)
                /\ <<length>> = R!Words(length - 1 + 1, length)
            BY <1>0, <5>1, SmallWords
          <5> QED
            <6> DEFINE fs == start \o rest
            <6>1. \E v, w : Filled(fs, length, sev, v, w)
              <7> HIDE DEF rest
              <7> QED
                <8> DEFINE p == length - 2
                           q == length - 1
                           u == R!Words(sev + 1, p)
                           v == <<q>>
                           w == <<length>>
                <8>1. /\ sev \in Nat /\ sev >= 4 /\ p \in Nat /\ q \in Nat /\ length \in Nat /\ sev <= p
                      /\ p <= q /\ q <= length
                      /\ u = R!Words(sev + 1, p) /\ v = R!Words(p + 1, q) /\ w = R!Words(q + 1, length)
                  BY <1>0, <2>1, <5>1, <5>3
                <8>2. fs = start \o <<u, v, w>>
                  BY <5>2
                <8> HIDE DEF p, q, u, v, w, fs, start
                <8>3. Filled(Start(sev) \o <<u, v, w>>, length, sev, v, w)
                  BY <8>1, StartThree
                <8> QED
                  BY <8>2, <8>3 DEF start
            <6> HIDE DEF fs
            <6>2. Covers(fs, length) /\ Len(fs) = 8
              BY <6>1 DEF Filled
            <6> QED
              BY <6>2 DEF fs
        <4>2. CASE left = 2
          <5>1. sev + 1 \in Nat /\ sev <= sev + 1 /\ sev + 1 <= length /\ sev + 1 + 1 = length
                /\ length <= length
            BY <1>0, <2>1, <4>2
          <5>2. rest = <<<<sev + 1>>, <<length>>, <<>>>>
            BY <1>0, <2>1, <4>2
          <5>3. <<sev + 1>> = R!Words(sev + 1, sev + 1) /\ <<length>> = R!Words(sev + 1 + 1, length)
                /\ <<>> = R!Words(length + 1, length)
            BY <1>0, <5>1, SmallWords
          <5> QED
            <6> DEFINE fs == start \o rest
            <6>1. \E v, w : Filled(fs, length, sev, v, w)
              <7> HIDE DEF rest
              <7> QED
                BY <1>0, <2>1, <5>1, <5>2, <5>3, StartThree
            <6> HIDE DEF fs
            <6>2. Covers(fs, length) /\ Len(fs) = 8
              BY <6>1 DEF Filled
            <6> QED
              BY <6>2 DEF fs
        <4>3. CASE left = 1
          <5>1. sev + 1 = length /\ sev <= sev /\ sev <= length /\ length <= length
            BY <1>0, <2>1, <4>3
          <5>2. rest = <<<<>>, <<length>>, <<>>>>
            BY <1>0, <2>1, <4>3
          <5>3. <<>> = R!Words(sev + 1, sev) /\ <<length>> = R!Words(sev + 1, length)
                /\ <<>> = R!Words(length + 1, length)
            BY <1>0, <2>1, <5>1, SmallWords
          <5> QED
            <6> DEFINE fs == start \o rest
            <6>1. \E v, w : Filled(fs, length, sev, v, w)
              <7> HIDE DEF rest
              <7> QED
                BY <1>0, <2>1, <5>1, <5>2, <5>3, StartThree
            <6> HIDE DEF fs
            <6>2. Covers(fs, length) /\ Len(fs) = 8
              BY <6>1 DEF Filled
            <6> QED
              BY <6>2 DEF fs
        <4>4. CASE left = 0
          <5>1. sev = length /\ sev <= sev
            BY <1>0, <2>1, <4>4
          <5>2. rest = <<<<>>, <<>>, <<>>>>
            BY <1>0, <2>1, <4>4
          <5>3. <<>> = R!Words(sev + 1, sev)
            BY <2>1, SmallWords
          <5> QED
            <6> DEFINE fs == start \o rest
            <6>1. \E v, w : Filled(fs, length, sev, v, w)
              <7> HIDE DEF rest
              <7> QED
                BY <1>0, <2>1, <5>1, <5>2, <5>3, StartThree
            <6> HIDE DEF fs
            <6>2. Covers(fs, length) /\ Len(fs) = 8
              BY <6>1 DEF Filled
            <6> QED
              BY <6>2 DEF fs
        <4>5. left >= 3 \/ left = 2 \/ left = 1 \/ left = 0
          BY <1>0, <2>1
        <4> QED
          BY <4>1, <4>2, <4>3, <4>4, <4>5
      <3> QED
        <4> HIDE DEF start, rest
        <4>1. ~ (length < 8)
          BY <1>0
        <4> QED
          BY <3>1, <3>2, <4>1 DEF RowWhole
    <2> QED
      BY <2>2, <2>3
  <1> QED
    BY <1>2, <1>3

(* Of which kinds a table is, and with how many columns.                    *)
LEMMA TableIs ==
  ASSUME NEW t \in Tables
  PROVE  t.width \in Nat /\ t.width >= 8 /\ t.kind \in DOMAIN R!Column
  BY DEF Tables, R!Column

(* A repaired row has every word once, in order.                            *)
LEMMA RepairWhole ==
  ASSUME RowTyped
  PROVE  RowWhole(R!RepairRow, table.width)
  <1> DEFINE width == table.width
  <1>1. width \in Nat /\ width > 0 /\ length \in Nat
    BY TableIs DEF RowTyped
  <1>2. CASE length <= width
    <2>1. R!RepairRow = R!Alone(1, length)
      BY <1>2 DEF R!RepairRow
    <2>2. Covers(R!Alone(1, length), length) /\ Len(R!Alone(1, length)) = length
      BY <1>1, AloneCovers
    <2>3. length = IF length < width THEN length ELSE width
      BY <1>1, <1>2
    <2> QED
      BY <2>1, <2>2, <2>3 DEF RowWhole
  <1>3. CASE length > width
    <2>1. ~ (length <= width)
      BY <1>1, <1>3
    <2>2. R!RepairRow = CASE table.kind = "buggy" -> R!RepairBuggy(width)
                          [] table.kind = "missing" /\ width = 8 -> R!RepairMissing
                          [] OTHER -> R!MergeTail(width)
      BY <2>1 DEF R!RepairRow
    <2> HIDE DEF width
    <2>3. CASE table.kind = "buggy"
      <3>1. R!RepairRow = R!RepairBuggy(width)
        BY <2>2, <2>3
      <3> QED
        BY <1>1, <1>3, <3>1, BuggyCovers DEF width
    <2>4. CASE table.kind = "missing" /\ width = 8
      <3>1. R!RepairRow = R!RepairMissing
        BY <2>2, <2>4
      <3>2. RowWhole(R!RepairMissing, 8)
        BY <1>3, <2>4, MissingCovers
      <3> QED
        BY <2>4, <3>1, <3>2 DEF width
    <2>5. CASE table.kind # "buggy" /\ ~ (table.kind = "missing" /\ width = 8)
      <3>1. R!RepairRow = R!MergeTail(width)
        BY <2>2, <2>5
      <3>2. RowWhole(R!MergeTail(width), width)
        BY <1>1, MergeCovers DEF RowWhole
      <3> QED
        BY <3>1, <3>2 DEF width
    <2> QED
      BY <2>3, <2>4, <2>5
  <1> QED
    BY <1>1, <1>2, <1>3

(* The row of a missing component with one severity and one effort.         *)
LEMMA MissingFields ==
  ASSUME RowTyped, table = [kind |-> "missing", width |-> 8], length >= 8,
         NEW sev \in 1 .. length, NEW eff \in 1 .. length,
         severities = {sev}, efforts = {eff}, sev > 4, eff > sev + 1, eff < length
  PROVE  Filled(R!RepairRow, length, sev, <<eff>>, R!Words(eff + 1, length))
  <1>1. length \in Nat /\ sev \in Nat /\ eff \in Nat /\ sev >= 4 /\ sev < eff /\ eff <= length
    BY DEF RowTyped
  <1>2. Filled(R!ByEffort(sev, eff), length, sev, <<eff>>, R!Words(eff + 1, length))
    BY <1>1, EffortCovers
  <1>3. CASE length > 8
    <2>1. R!RepairRow = R!RepairMissing
      <3>1. table.width = 8 /\ table.kind = "missing" /\ ~ (length <= 8)
        BY <1>1, <1>3
      <3> QED
        BY <3>1 DEF R!RepairRow
    <2>2. R!SeverityFrom(4) = {sev}
      BY <1>1 DEF R!SeverityFrom
    <2>3. R!EffortAfter(sev) = {eff}
      BY <1>1 DEF R!EffortAfter
    <2>4. R!First({sev}) = sev /\ R!Latest({eff}) = eff
      BY <1>1 DEF R!First, R!Latest
    <2>5. length - sev >= 3
      BY <1>1
    <2>6. R!RepairMissing = R!ByEffort(sev, eff)
      BY <2>2, <2>3, <2>4, <2>5 DEF R!RepairMissing
    <2> QED
      BY <1>2, <2>1, <2>6
  <1>4. CASE length = 8
    <2>1. sev = 5 /\ eff = 7
      BY <1>1, <1>4
    <2>2. R!RepairRow = R!Alone(1, 8)
      <3>1. table.width = 8 /\ length <= 8
        BY <1>4
      <3> QED
        BY <1>4, <3>1 DEF R!RepairRow
    <2>3. /\ Covers(R!Alone(1, 8), 8) /\ Len(R!Alone(1, 8)) = 8
          /\ \A i \in 1 .. 8 : R!Alone(1, 8)[i] = <<i>>
      <3>1. 8 \in Nat
        OBVIOUS
      <3> QED
        BY <3>1, AloneCovers
    <2>4. R!Words(4, sev - 1) = << 4 >> /\ R!Words(eff + 1, length) = << 8 >>
      <3>1. R!Words(4, 4) = << 4 >> /\ R!Words(8, 8) = << 8 >>
        <4>1. 4 \in Nat /\ 8 \in Nat
          OBVIOUS
        <4> QED
          BY <4>1, SmallWords
      <3>2. sev - 1 = 4 /\ eff + 1 = 8
        BY <2>1
      <3> QED
        BY <1>4, <3>1, <3>2
    <2> DEFINE fs == R!Alone(1, 8)
    <2>5. fs[4] = << 4 >> /\ fs[5] = << 5 >> /\ fs[7] = << 7 >> /\ fs[8] = << 8 >>
      <3> HIDE DEF fs
      <3>1. 4 \in 1 .. 8 /\ 5 \in 1 .. 8 /\ 7 \in 1 .. 8 /\ 8 \in 1 .. 8
        OBVIOUS
      <3> QED
        BY <2>3, <3>1 DEF fs
    <2> QED
      BY <1>4, <2>1, <2>2, <2>3, <2>4, <2>5 DEF Filled
  <1> QED
    BY <1>1, <1>3, <1>4

Parsed ==
  [h \in {"type"} \union DOMAIN R!Column[table.kind] |->
     IF h = "type" THEN "gap_" \o table.kind
     ELSE IF R!Column[table.kind][h] \in DOMAIN fields THEN fields[R!Column[table.kind][h]] ELSE <<>>]

RowsInv ==
  /\ RowTyped
  /\ fields # R!None => fields = R!RepairRow
  /\ node # R!None => fields # R!None /\ node = Parsed

(* Rows are whole at first,                                                 *)
LEMMA RowsInit == R!Init => RowsInv
  <1> SUFFICES ASSUME R!Init PROVE RowsInv
    OBVIOUS
  <1>1. table \in Tables /\ length \in table.width - 1 .. table.width + MaxExtra /\ fields = R!None
        /\ node = R!None
    BY DEF R!Init
  <1>2. length \in Nat /\ length >= table.width - 1
    BY <1>1, TableIs
  <1>3. severities \in SUBSET (4 .. length)
    BY DEF R!Init, R!SmallSets
  <1>4. efforts \in SUBSET (4 .. length)
    BY DEF R!Init, R!SmallSets
  <1> QED
    BY <1>1, <1>2, <1>3, <1>4 DEF RowsInv, RowTyped

(* stay whole when they are repaired and parsed,                            *)
LEMMA RowsNext == RowsInv /\ R!Next => RowsInv'
  <1> SUFFICES ASSUME RowsInv, R!Next PROVE RowsInv'
    OBVIOUS
  <1>1. table' = table /\ length' = length /\ severities' = severities /\ efforts' = efforts
    BY DEF R!Next, R!Repair, R!Parse
  <1>2. RowTyped'
    BY <1>1 DEF RowsInv, RowTyped
  <1>3. R!RepairRow' = R!RepairRow
    BY <1>1 DEF R!RepairRow, R!RepairBuggy, R!RepairMissing, R!MergeTail, R!ByEffort, R!SeverityFrom,
            R!EffortAfter,
                R!Alone, R!Words, R!First, R!Latest
  <1>4. CASE R!Repair
    <2>1. fields = R!None /\ fields' = R!RepairRow /\ node' = node
      BY <1>4 DEF R!Repair
    <2>2. node' = R!None
      BY <2>1 DEF RowsInv
    <2> QED
      BY <1>2, <1>3, <2>1, <2>2 DEF RowsInv, R!None
  <1>5. CASE R!Parse
    <2>1. fields # R!None /\ fields' = fields /\ node' = Parsed
      BY <1>5 DEF R!Parse, Parsed
    <2>2. Parsed' = Parsed
      BY <1>1, <2>1 DEF Parsed, R!Column
    <2>3. fields' = R!RepairRow'
      BY <1>3, <2>1 DEF RowsInv
    <2> QED
      BY <1>2, <2>1, <2>2, <2>3 DEF RowsInv, R!None
  <1> QED
    BY <1>4, <1>5 DEF R!Next

(* and while the other parts run,                                           *)
LEMMA RowsSame == RowsInv /\ UNCHANGED <<table, length, severities, efforts, fields, node>> => RowsInv'
  <1> SUFFICES ASSUME RowsInv, UNCHANGED <<table, length, severities, efforts, fields, node>> PROVE RowsInv'
    OBVIOUS
  <1>1. /\ table' = table /\ length' = length /\ severities' = severities /\ efforts' = efforts
        /\ fields' = fields /\ node' = node
    OBVIOUS
  <1>2. RowTyped'
    BY <1>1 DEF RowsInv, RowTyped
  <1>3. R!RepairRow' = R!RepairRow
    BY <1>1 DEF R!RepairRow, R!RepairBuggy, R!RepairMissing, R!MergeTail, R!ByEffort, R!SeverityFrom,
            R!EffortAfter,
                R!Alone, R!Words, R!First, R!Latest
  <1>4. Parsed' = Parsed
    BY <1>1 DEF Parsed, R!Column
  <1> QED
    BY <1>1, <1>2, <1>3, <1>4 DEF RowsInv, R!None

(* and that gives what the run checks.                                      *)
LEMMA RowsRight == RowsInv => R!RowsKept
  <1> SUFFICES ASSUME RowsInv, fields # R!None PROVE R!RowsKept
    BY DEF R!RowsKept
  <1>1. fields = R!RepairRow /\ RowTyped
    BY DEF RowsInv
  <1>2. RowWhole(fields, table.width)
    BY <1>1, RepairWhole
  <1>3. Len(fields) = (IF length < table.width THEN length ELSE table.width)
        /\ R!FlattenSeq(fields) = R!Words(1, length)
    BY <1>2, RowFlat DEF RowWhole, Covers
  <1>4. ASSUME NEW sev \in 1 .. length, NEW eff \in 1 .. length,
               node # R!None, table = [kind |-> "missing", width |-> 8], length >= 8,
               severities = {sev}, efforts = {eff}, sev > 4, eff > sev + 1, eff < length
        PROVE  /\ node.description = R!Words(4, sev - 1) /\ node.severity = <<sev>>
               /\ node.effort = <<eff>> /\ node.solution = R!Words(eff + 1, length)
    <2>1. Filled(fields, length, sev, <<eff>>, R!Words(eff + 1, length))
      BY <1>1, <1>4, MissingFields
    <2>2. DOMAIN fields = 1 .. 8
      <3>1. fields \in Seq(Seq(Nat)) /\ Len(fields) = 8
        BY <2>1 DEF Filled, Covers
      <3> QED
        BY <3>1
    <2>3. table.kind = "missing"
      BY <1>4
    <2>4. node = Parsed
      BY <1>4 DEF RowsInv
    <2>5. /\ node.description = fields[4] /\ node.severity = fields[5]
          /\ node.effort = fields[7] /\ node.solution = fields[8]
      <3> DEFINE col == R!Column["missing"]
      <3>1. col = [description |-> 4, severity |-> 5, dependencies |-> 6, effort |-> 7, solution |-> 8]
        BY DEF R!Column
      <3>2. /\ DOMAIN col = {"description", "severity", "dependencies", "effort", "solution"}
            /\ col["description"] = 4 /\ col["severity"] = 5 /\ col["effort"] = 7 /\ col["solution"] = 8
        BY <3>1
      <3> HIDE DEF col
      <3>3. node = [h \in {"type"} \union DOMAIN col |->
                      IF h = "type" THEN "gap_" \o table.kind
                      ELSE IF col[h] \in DOMAIN fields THEN fields[col[h]] ELSE <<>>]
        BY <2>3, <2>4 DEF Parsed, col
      <3>4. ASSUME NEW h \in DOMAIN col, h # "type", col[h] \in 1 .. 8 PROVE node[h] = fields[col[h]]
        BY <2>2, <3>3, <3>4
      <3>5. 4 \in 1 .. 8 /\ 5 \in 1 .. 8 /\ 7 \in 1 .. 8 /\ 8 \in 1 .. 8
        OBVIOUS
      <3> QED
        BY <3>2, <3>4, <3>5
    <2> QED
      BY <2>1, <2>5 DEF Filled
  <1> QED
    BY <1>3, <1>4 DEF R!RowsKept

------------------------------------------------------------------------------
(* The taxonomy.                                                            *)
Places(s, x) == {i \in DOMAIN s : s[i] = x}
Times(s, x) == Cardinality(Places(s, x))

(* What is at no place is there no times.                                   *)
LEMMA TimesNone == ASSUME NEW s, NEW x, DOMAIN s = {} \/ \A i \in DOMAIN s : s[i] # x PROVE Times(s, x) = 0
  <1>1. Places(s, x) = {}
    BY DEF Places
  <1> QED
    BY <1>1, FS_EmptySet DEF Times

(* An element that is appended is there once more.                          *)
LEMMA TimesAppend ==
  ASSUME NEW X, NEW s \in Seq(X), NEW y \in X, NEW x
  PROVE  /\ Times(s, x) \in Nat /\ Times(Append(s, y), x) = Times(s, x) + (IF y = x THEN 1 ELSE 0)
         /\ IsFiniteSet(Places(s, x))
  <1> DEFINE n == Len(s)
             t == Append(s, y)
  <1>1. n \in Nat /\ DOMAIN s = 1 .. n /\ DOMAIN t = 1 .. n + 1 /\ t[n + 1] = y
        /\ \A i \in 1 .. n : t[i] = s[i]
    OBVIOUS
  <1> HIDE DEF n, t
  <1>2. IsFiniteSet(Places(s, x)) /\ n + 1 \notin Places(s, x)
    <2>1. IsFiniteSet(1 .. n) /\ Places(s, x) \in SUBSET (1 .. n)
      BY <1>1, FS_Interval DEF Places
    <2>2. n + 1 \notin 1 .. n
      BY <1>1
    <2> QED
      BY <2>1, <2>2, FS_Subset
  <1>3. Times(s, x) \in Nat
    BY <1>2, FS_CardinalityType DEF Times
  <1>4. CASE y = x
    <2>1. Places(t, x) = Places(s, x) \union {n + 1}
      BY <1>1, <1>4 DEF Places
    <2> QED
      BY <1>2, <1>3, <1>4, <2>1, FS_AddElement DEF Times, t
  <1>5. CASE y # x
    <2>1. Places(t, x) = Places(s, x)
      BY <1>1, <1>5 DEF Places
    <2> QED
      BY <1>2, <1>3, <1>5, <2>1 DEF Times, t
  <1> QED
    BY <1>4, <1>5

(* In two sequences joined an element is as often as in both.               *)
LEMMA TimesJoin ==
  ASSUME NEW X, NEW s \in Seq(X), NEW t \in Seq(X), NEW x
  PROVE  Times(s, x) \in Nat /\ Times(t, x) \in Nat /\ Times(s \o t, x) = Times(s, x) + Times(t, x)
  <1> DEFINE n == Len(t)
             F(k) == SubSeq(t, 1, k)
             P == {k \in 0 .. n : Times(F(k), x) \in Nat /\ Times(s \o F(k), x) = Times(s, x) + Times(F(k), x)}
  <1>1. n \in Nat /\ F(0) = <<>> /\ s \o <<>> = s /\ F(n) = t
    OBVIOUS
  <1>2. Times(s, x) \in Nat
    <2>1. CASE X = {}
      <3>1. DOMAIN s = {}
        BY <2>1
      <3> QED
        BY <3>1, TimesNone
    <2>2. CASE X # {}
      <3>1. PICK y : y \in X
        BY <2>2
      <3> QED
        BY <3>1, TimesAppend
    <2> QED
      BY <2>1, <2>2
  <1>3. 0 \in P
    <2>1. Times(<<>>, x) = 0
      BY TimesNone
    <2>2. Times(F(0), x) = 0 /\ Times(s \o F(0), x) = Times(s, x) /\ 0 \in 0 .. n
      <3>1. s \o F(0) = s /\ F(0) = <<>>
        BY <1>1
      <3>2. 0 \in 0 .. n
        BY <1>1
      <3> HIDE DEF F, n
      <3> QED
        BY <2>1, <3>1, <3>2
    <2> HIDE DEF F, n
    <2> QED
      BY <1>2, <2>2
  <1>4. ASSUME NEW k \in 0 .. n - 1, k \in P PROVE k + 1 \in P
    <2>1. F(k) \in Seq(X) /\ t[k + 1] \in X /\ F(k + 1) = Append(F(k), t[k + 1]) /\ k + 1 \in 0 .. n
      OBVIOUS
    <2>2. s \o F(k) \in Seq(X) /\ s \o Append(F(k), t[k + 1]) = Append(s \o F(k), t[k + 1])
      <3> HIDE DEF F
      <3> QED
        BY <2>1
    <2> HIDE DEF F, n
    <2> DEFINE y == t[k + 1]
               z == IF y = x THEN 1 ELSE 0
    <2>3. Times(F(k + 1), x) = Times(F(k), x) + z /\ Times(s \o F(k + 1), x) = Times(s \o F(k), x) + z
          /\ Times(F(k), x) \in Nat
      <3>1. y \in X /\ F(k + 1) = Append(F(k), y) /\ s \o F(k + 1) = Append(s \o F(k), y)
        BY <2>1, <2>2
      <3>2. Times(Append(F(k), y), x) = Times(F(k), x) + z /\ Times(F(k), x) \in Nat
        <4> HIDE DEF y
        <4> QED
          BY <2>1, <3>1, TimesAppend
      <3>3. Times(Append(s \o F(k), y), x) = Times(s \o F(k), x) + z
        <4> DEFINE u == s \o F(k)
        <4>1. u \in Seq(X) /\ y \in X
          BY <2>2, <3>1
        <4> HIDE DEF y, u
        <4>2. Times(Append(u, y), x) = Times(u, x) + z
          BY <4>1, TimesAppend
        <4> QED
          BY <4>2 DEF u
      <3> QED
        BY <3>1, <3>2, <3>3
    <2>4. z \in Nat
      OBVIOUS
    <2> HIDE DEF z
    <2> QED
      BY <1>2, <1>4, <2>1, <2>3, <2>4
  <1>5. n \in P
    <2> HIDE DEF P, n
    <2>1. 0 .. n \subseteq P
      BY <1>1, <1>3, <1>4, Bounded
    <2> QED
      BY <1>1, <2>1
  <1> HIDE DEF n, F
  <1> QED
    BY <1>1, <1>2, <1>5

(* A listing without repetition, as long as the set is large, misses no     *)
(* member.                                                                  *)
LEMMA ListOf ==
  ASSUME NEW S, IsFiniteSet(S), NEW f \in [1 .. Cardinality(S) -> S], IsInjective(f)
  PROVE  f \in Seq(S) /\ Len(f) = Cardinality(S) /\ \A x \in S : \E i \in 1 .. Len(f) : f[i] = x
  <1> DEFINE n == Cardinality(S)
  <1>1. n \in Nat
    BY FS_CardinalityType
  <1>2. f \in Injection(1 .. n, S)
    BY DEF Injection
  <1>3. Cardinality(1 .. n) = n
    BY <1>1, FS_Interval
  <1>4. f \in Surjection(1 .. n, S)
    <2> HIDE DEF n
    <2>1. Cardinality(1 .. n) = Cardinality(S) <=> f \in Surjection(1 .. n, S)
      BY <1>2, FS_Injection
    <2> QED
      BY <1>3, <2>1 DEF n
  <1>5. f \in [1 .. n -> S]
    OBVIOUS
  <1> HIDE DEF n
  <1>6. f \in Seq(S) /\ Len(f) = n
    BY <1>1, <1>5
  <1> QED
    BY <1>4, <1>6 DEF Surjection, n

(* The count of an instance is the same.                                    *)
LEMMA TaxCount == ASSUME NEW s, NEW x PROVE T!Count(s, x) = Times(s, x)
  BY DEF T!Count, Times, Places, T!Cardinality, Cardinality

(* The sequence of a finite set has each member once.                       *)
LEMMA TaxSeq ==
  ASSUME NEW S, IsFiniteSet(S)
  PROVE  /\ T!SetToSeq(S) \in Seq(S) /\ Len(T!SetToSeq(S)) = Cardinality(S)
         /\ \A x \in S : \E i \in 1 .. Len(T!SetToSeq(S)) : T!SetToSeq(S)[i] = x
         /\ \A i, j \in 1 .. Len(T!SetToSeq(S)) : T!SetToSeq(S)[i] = T!SetToSeq(S)[j] => i = j
  <1> DEFINE n == Cardinality(S)
             f == T!SetToSeq(S)
  <1>1. n \in Nat /\ \E g \in [1 .. n -> S] : T!IsInjective(g)
    <2>1. n \in Nat /\ ExistsBijection(1 .. n, S)
      BY FS_CardinalityType
    <2>2. PICK g : g \in Bijection(1 .. n, S)
      BY <2>1 DEF ExistsBijection
    <2>3. g \in [1 .. n -> S] /\ T!IsInjective(g)
      BY <2>2 DEF Bijection, Injection, IsInjective, T!IsInjective
    <2> QED
      BY <2>1, <2>3
  <1>2. f \in [1 .. n -> S] /\ T!IsInjective(f)
    <2>1. T!Cardinality(S) = n
      BY DEF T!Cardinality, Cardinality
    <2> HIDE DEF n
    <2> QED
      BY <1>1, <2>1 DEF T!SetToSeq
  <1> HIDE DEF f
  <1>3. IsInjective(f) /\ DOMAIN f = 1 .. n
    BY <1>2 DEF IsInjective, T!IsInjective
  <1>4. f \in Seq(S) /\ Len(f) = n /\ \A x \in S : \E i \in 1 .. Len(f) : f[i] = x
    BY <1>2, <1>3, ListOf
  <1>5. \A i, j \in 1 .. Len(f) : f[i] = f[j] => i = j
    BY <1>3, <1>4 DEF IsInjective
  <1> QED
    BY <1>4, <1>5 DEF f

(* There are four ranks,                                                    *)
LEMMA RankIs == \A s : T!Rank(s) \in 0 .. 3
  BY DEF T!Rank

(* of which low has the lowest.                                             *)
LEMMA RankLow == T!Rank("low") = 0
  BY DEF T!Rank

Levels == Severities \union {"low"}
(* What a loop over the concerns of a stub leaves.                          *)
Climbs(b, req, n) ==
  /\ b[0] = "low"
  /\ \A k \in 0 .. n - 1 : b[k + 1] \in {b[k], T!SeverityOf(req[k + 1])}
                        /\ T!Rank(b[k]) <= T!Rank(b[k + 1])
                           /\ T!Rank(T!SeverityOf(req[k + 1])) <= T!Rank(b[k + 1])

(* What calculate_priority and _derive_priority compute is such a climb,    *)
LEMMA Highest ==
  ASSUME NEW f, NEW n \in Nat, NEW req, tax[f].required = req, Len(req) = n,
         \A i \in 1 .. n : T!SeverityOf(req[i]) \in Levels
  PROVE  \E b : Climbs(b, req, n) /\ T!CalculatePriority(f) = b[n]
  <1> DEFINE move == [k \in 1 .. n |-> [s \in Levels |-> T!Higher(req[k], s)]]
             E(b) == b = [i \in 0 .. n |-> IF i = 0 THEN "low" ELSE T!Higher(req[i], b[i - 1])]
  <1>1. move \in [1 .. n -> [Levels -> Levels]] /\ "low" \in Levels
    <2>1. \A k \in 1 .. n : \A s \in Levels : T!Higher(req[k], s) \in Levels
      BY DEF T!Higher
    <2> QED
      BY <2>1 DEF Levels
  <1>2. PICK h \in [0 .. n -> Levels] : Solves(h, n, "low", move)
    <2> HIDE DEF move
    <2> QED
      BY <1>1, Recursion
  <1>3. E(h)
    <2>1. ASSUME NEW i \in 0 .. n PROVE h[i] = IF i = 0 THEN "low" ELSE T!Higher(req[i], h[i - 1])
      <3>1. CASE i = 0
        BY <1>2, <3>1 DEF Solves
      <3>2. CASE i # 0
        <4>1. i - 1 \in 0 .. n - 1 /\ i - 1 \in 0 .. n /\ (i - 1) + 1 = i /\ i \in 1 .. n
          BY <3>2
        <4>2. h[(i - 1) + 1] = move[(i - 1) + 1][h[i - 1]]
          BY <1>2, <4>1 DEF Solves
        <4>3. h[i - 1] \in Levels
          BY <4>1
        <4> QED
          BY <3>2, <4>1, <4>2, <4>3
      <3> QED
        BY <3>1, <3>2
    <2> QED
      BY <1>2, <2>1
  <1> DEFINE b == CHOOSE b : E(b)
  <1>4. E(b)
    <2> HIDE DEF E
    <2> QED
      BY <1>3
  <1>5. T!CalculatePriority(f) = b[n]
    BY DEF T!CalculatePriority
  <1> HIDE DEF b
  <1>6. b[0] = "low" /\ \A i \in 1 .. n : b[i] = T!Higher(req[i], b[i - 1])
    BY <1>4
  <1>7. ASSUME NEW k \in 0 .. n - 1
        PROVE  /\ b[k + 1] \in {b[k], T!SeverityOf(req[k + 1])}
               /\ T!Rank(b[k]) <= T!Rank(b[k + 1]) /\ T!Rank(T!SeverityOf(req[k + 1])) <= T!Rank(b[k + 1])
    <2>1. k + 1 \in 1 .. n /\ k + 1 - 1 = k
      OBVIOUS
    <2>2. b[k + 1] = T!Higher(req[k + 1], b[k])
      BY <1>6, <2>1
    <2>3. T!Rank(b[k]) \in 0 .. 3 /\ T!Rank(T!SeverityOf(req[k + 1])) \in 0 .. 3
      BY RankIs
    <2> QED
      BY <2>2, <2>3 DEF T!Higher
  <1>8. Climbs(b, req, n)
    BY <1>6, <1>7 DEF Climbs
  <1> QED
    BY <1>5, <1>8

(* and what create_implementation_tasks computes is one too.                *)
LEMMA AsHigh ==
  ASSUME NEW f, NEW n \in Nat, NEW req, tax[f].required = req, Len(req) = n,
         \A i \in 1 .. n : T!SeverityOf(req[i]) \in Levels
  PROVE  \E b : Climbs(b, req, n) /\ T!TaskPriority(f) = b[n]
  <1> DEFINE move == [k \in 1 .. n |-> [s \in Levels |-> T!AtLeast(req[k], s)]]
             E(b) == b = [i \in 0 .. n |-> IF i = 0 THEN "low" ELSE T!AtLeast(req[i], b[i - 1])]
  <1>1. move \in [1 .. n -> [Levels -> Levels]] /\ "low" \in Levels
    <2>1. \A k \in 1 .. n : \A s \in Levels : T!AtLeast(req[k], s) \in Levels
      BY DEF T!AtLeast
    <2> QED
      BY <2>1 DEF Levels
  <1>2. PICK h \in [0 .. n -> Levels] : Solves(h, n, "low", move)
    <2> HIDE DEF move
    <2> QED
      BY <1>1, Recursion
  <1>3. E(h)
    <2>1. ASSUME NEW i \in 0 .. n PROVE h[i] = IF i = 0 THEN "low" ELSE T!AtLeast(req[i], h[i - 1])
      <3>1. CASE i = 0
        BY <1>2, <3>1 DEF Solves
      <3>2. CASE i # 0
        <4>1. i - 1 \in 0 .. n - 1 /\ i - 1 \in 0 .. n /\ (i - 1) + 1 = i /\ i \in 1 .. n
          BY <3>2
        <4>2. h[(i - 1) + 1] = move[(i - 1) + 1][h[i - 1]]
          BY <1>2, <4>1 DEF Solves
        <4>3. h[i - 1] \in Levels
          BY <4>1
        <4> QED
          BY <3>2, <4>1, <4>2, <4>3
      <3> QED
        BY <3>1, <3>2
    <2> QED
      BY <1>2, <2>1
  <1> DEFINE b == CHOOSE b : E(b)
  <1>4. E(b)
    <2> HIDE DEF E
    <2> QED
      BY <1>3
  <1>5. T!TaskPriority(f) = b[n]
    BY DEF T!TaskPriority
  <1> HIDE DEF b
  <1>6. b[0] = "low" /\ \A i \in 1 .. n : b[i] = T!AtLeast(req[i], b[i - 1])
    BY <1>4
  <1>7. ASSUME NEW k \in 0 .. n - 1
        PROVE  /\ b[k + 1] \in {b[k], T!SeverityOf(req[k + 1])}
               /\ T!Rank(b[k]) <= T!Rank(b[k + 1]) /\ T!Rank(T!SeverityOf(req[k + 1])) <= T!Rank(b[k + 1])
    <2>1. k + 1 \in 1 .. n /\ k + 1 - 1 = k
      OBVIOUS
    <2>2. b[k + 1] = T!AtLeast(req[k + 1], b[k])
      BY <1>6, <2>1
    <2>3. T!Rank(b[k]) \in 0 .. 3 /\ T!Rank(T!SeverityOf(req[k + 1])) \in 0 .. 3
      BY RankIs
    <2> QED
      BY <2>2, <2>3 DEF T!AtLeast
  <1>8. Climbs(b, req, n)
    BY <1>6, <1>7 DEF Climbs
  <1> QED
    BY <1>5, <1>8

(* Two such loops end at one rank, that of the most severe.                 *)
LEMMA SameHeight ==
  ASSUME NEW n \in Nat, NEW req, NEW a, NEW b, Climbs(a, req, n), Climbs(b, req, n)
  PROVE  /\ T!Rank(a[n]) = T!Rank(b[n])
         /\ \A i \in 1 .. n : T!Rank(T!SeverityOf(req[i])) <= T!Rank(a[n])
  <1> DEFINE ra(k) == T!Rank(a[k])
             rb(k) == T!Rank(b[k])
             rs(k) == T!Rank(T!SeverityOf(req[k]))
             P == {k \in 0 .. n : ra(k) = rb(k) /\ \A i \in 1 .. k : rs(i) <= ra(k)}
  <1>1. /\ \A k \in 0 .. n : ra(k) \in 0 .. 3 /\ rb(k) \in 0 .. 3 /\ rs(k) \in 0 .. 3
        /\ \A k \in 0 .. n - 1 : (ra(k + 1) = ra(k) \/ ra(k + 1) = rs(k + 1)) /\ ra(k) <= ra(k + 1)
           /\ rs(k + 1) <= ra(k + 1)
        /\ \A k \in 0 .. n - 1 : (rb(k + 1) = rb(k) \/ rb(k + 1) = rs(k + 1)) /\ rb(k) <= rb(k + 1)
           /\ rs(k + 1) <= rb(k + 1)
        /\ ra(0) = 0 /\ rb(0) = 0
    BY RankIs, RankLow DEF Climbs
  <1> HIDE DEF ra, rb, rs
  <1>2. 0 \in P
    BY <1>1
  <1>3. ASSUME NEW k \in 0 .. n - 1, k \in P PROVE k + 1 \in P
    <2>1. k + 1 \in 0 .. n /\ k \in 0 .. n
      OBVIOUS
    <2>2. /\ ra(k) \in 0 .. 3 /\ rb(k) \in 0 .. 3 /\ rs(k + 1) \in 0 .. 3 /\ ra(k + 1) \in 0 .. 3
          /\ rb(k + 1) \in 0 .. 3
          /\ (ra(k + 1) = ra(k) \/ ra(k + 1) = rs(k + 1)) /\ ra(k) <= ra(k + 1) /\ rs(k + 1) <= ra(k + 1)
          /\ (rb(k + 1) = rb(k) \/ rb(k + 1) = rs(k + 1)) /\ rb(k) <= rb(k + 1) /\ rs(k + 1) <= rb(k + 1)
      BY <1>1, <2>1
    <2>3. ra(k) = rb(k) /\ \A i \in 1 .. k : rs(i) <= ra(k)
      BY <1>3
    <2>4. ra(k + 1) = rb(k + 1)
      BY <2>2, <2>3
    <2>5. ASSUME NEW i \in 1 .. k + 1 PROVE rs(i) <= ra(k + 1)
      <3>1. i \in 1 .. k \/ i = k + 1
        OBVIOUS
      <3>2. CASE i = k + 1
        BY <2>2, <3>2
      <3>3. CASE i \in 1 .. k
        <4>1. rs(i) <= ra(k) /\ rs(i) \in 0 .. 3
          BY <1>1, <2>3, <3>3
        <4> QED
          BY <2>2, <4>1
      <3> QED
        BY <3>1, <3>2, <3>3
    <2> QED
      BY <2>1, <2>4, <2>5
  <1>4. n \in P
    <2> HIDE DEF P
    <2>1. 0 .. n \subseteq P
      BY <1>2, <1>3, Bounded
    <2> QED
      BY <2>1
  <1> QED
    BY <1>4 DEF ra, rb, rs

(* Both give a task the rank of its stub's most severe concern.             *)
LEMMA Priorities ==
  ASSUME NEW f, tax[f].required \in Seq(Concerns), \A c \in Concerns : T!SeverityOf(c) \in Levels
  PROVE  /\ T!Rank(T!TaskPriority(f)) = T!Rank(T!CalculatePriority(f))
         /\ \A c \in T!ToSet(tax[f].required) : T!Rank(T!SeverityOf(c)) <= T!Rank(T!TaskPriority(f))
  <1> DEFINE req == tax[f].required
             n == Len(req)
  <1>1. n \in Nat /\ Len(req) = n /\ DOMAIN req = 1 .. n /\ \A i \in 1 .. n : T!SeverityOf(req[i]) \in Levels
    OBVIOUS
  <1> HIDE DEF n
  <1>2. PICK a : Climbs(a, req, n) /\ T!TaskPriority(f) = a[n]
    BY <1>1, AsHigh
  <1>3. PICK b : Climbs(b, req, n) /\ T!CalculatePriority(f) = b[n]
    BY <1>1, Highest
  <1> HIDE DEF req
  <1>4. T!Rank(a[n]) = T!Rank(b[n]) /\ \A i \in 1 .. n : T!Rank(T!SeverityOf(req[i])) <= T!Rank(a[n])
    BY <1>1, <1>2, <1>3, SameHeight
  <1>5. \A c \in T!ToSet(req) : \E i \in 1 .. n : c = req[i]
    BY <1>1 DEF T!ToSet
  <1> QED
    BY <1>2, <1>3, <1>4, <1>5 DEF req

(* The relations of a file name another as often as it depends on that one, *)
LEMMA RelationTimes ==
  ASSUME NEW h, NEW f, NEW g, tax[h].depends_on \in Seq(TaxFiles), h \in TaxFiles
  PROVE  /\ T!Relations(h) \in Seq(TaxFiles \X TaxFiles)
         /\ Times(T!Relations(h), <<f, g>>) = IF h = f THEN Times(tax[h].depends_on, g) ELSE 0
  <1> DEFINE dep == tax[h].depends_on
             rel == T!Relations(h)
  <1>1. rel = [i \in DOMAIN dep |-> <<h, dep[i]>>]
    BY DEF T!Relations
  <1> HIDE DEF dep, rel
  <1>2. rel \in Seq(TaxFiles \X TaxFiles)
    <2>1. Len(dep) \in Nat /\ DOMAIN dep = 1 .. Len(dep) /\ \A i \in 1 .. Len(dep) : dep[i] \in TaxFiles
      BY DEF dep
    <2> QED
      BY <1>1, <2>1
  <1>3. CASE h = f
    <2>1. Places(rel, <<f, g>>) = Places(dep, g)
      BY <1>1, <1>3 DEF Places
    <2> QED
      BY <1>2, <1>3, <2>1 DEF Times, dep, rel
  <1>4. CASE h # f
    <2>1. \A i \in DOMAIN rel : rel[i] # <<f, g>>
      BY <1>1, <1>4
    <2>2. Times(rel, <<f, g>>) = 0
      BY <2>1, TimesNone
    <2> QED
      BY <1>2, <1>4, <2>2 DEF rel
  <1> QED
    BY <1>3, <1>4

(* and so does the registry, each file being listed once.                   *)
LEMMA RegistryTimes ==
  ASSUME NEW files \in SUBSET TaxFiles, NEW f, NEW g,
         \A h \in files : tax[h].depends_on \in Seq(TaxFiles)
  PROVE  LET order == T!SetToSeq(files)
         IN Times(<<>> \o T!FlattenSeq([i \in 1 .. Len(order) |-> T!Relations(order[i])]), <<f, g>>)
            = IF f \in files THEN Times(tax[f].depends_on, g) ELSE 0
  <1> DEFINE order == T!SetToSeq(files)
             n == Len(order)
             rels == [i \in 1 .. Len(order) |-> T!Relations(order[i])]
             X == TaxFiles \X TaxFiles
             d == IF f \in files THEN Times(tax[f].depends_on, g) ELSE 0
  <1>1. /\ order \in Seq(files) /\ \A x \in files : \E i \in 1 .. n : order[i] = x
        /\ \A i, j \in 1 .. n : order[i] = order[j] => i = j
    <2>1. IsFiniteSet(files)
      BY TaxonomyAssumption, FS_Subset
    <2> QED
      BY <2>1, TaxSeq
  <1> HIDE DEF order
  <1>2. n \in Nat /\ \A i \in 1 .. n : order[i] \in files /\ order[i] \in TaxFiles
    BY <1>1
  <1>3. \A i \in 1 .. n : T!Relations(order[i]) \in Seq(X)
                      /\ Times(T!Relations(order[i]), <<f, g>>) = IF order[i] = f THEN d ELSE 0
    <2> SUFFICES ASSUME NEW i \in 1 .. n
                 PROVE  /\ T!Relations(order[i]) \in Seq(X)
                        /\ Times(T!Relations(order[i]), <<f, g>>) = IF order[i] = f THEN d ELSE 0
      OBVIOUS
    <2>1. order[i] \in TaxFiles /\ tax[order[i]].depends_on \in Seq(TaxFiles)
      BY <1>2
    <2>2. T!Relations(order[i]) \in Seq(X)
          /\ Times(T!Relations(order[i]), <<f, g>>) =
                IF order[i] = f THEN Times(tax[order[i]].depends_on, g) ELSE 0
      BY <2>1, RelationTimes
    <2>3. order[i] = f => Times(tax[order[i]].depends_on, g) = d
      BY <1>2
    <2> HIDE DEF d
    <2> QED
      BY <2>2, <2>3
  <1>4. d \in Nat
    <2>1. f \in files => tax[f].depends_on \in Seq(TaxFiles)
      OBVIOUS
    <2>2. f \in files => Times(tax[f].depends_on, g) \in Nat
      BY <2>1, TimesJoin
    <2> QED
      BY <2>2
  <1> HIDE DEF d
  <1>5. rels \in Seq(Seq(X)) /\ Len(rels) = n /\ \A i \in 1 .. n : rels[i] = T!Relations(order[i])
    <2> HIDE DEF X
    <2> DEFINE Z == Seq(X)
    <2>1. \A i \in 1 .. n : T!Relations(order[i]) \in Z
      BY <1>3
    <2> HIDE DEF Z
    <2>2. rels \in Seq(Z)
      BY <1>2, <2>1
    <2> QED
      BY <1>2, <2>2 DEF Z
  <1> HIDE DEF rels, n, X
  <1>6. PICK F \in [0 .. n -> Seq(X)] : Sums(rels, F)
    BY <1>5, FlatIs
  <1> DEFINE done(k) == \E i \in 1 .. k : order[i] = f
             P == {k \in 0 .. n : Times(F[k], <<f, g>>) = IF done(k) THEN d ELSE 0}
  <1>7. 0 \in P
    <2>1. F[0] = <<>> /\ Times(<<>>, <<f, g>>) = 0 /\ ~ done(0)
      BY <1>6, TimesNone DEF Sums
    <2> QED
      BY <1>2, <2>1
  <1>8. ASSUME NEW k \in 0 .. n - 1, k \in P PROVE k + 1 \in P
    <2>1. k + 1 \in 1 .. n /\ k + 1 \in 0 .. n /\ k \in 0 .. n /\ k \in Nat
      BY <1>2
    <2>2. F[k + 1] = F[k] \o rels[k + 1] /\ F[k] \in Seq(X) /\ rels[k + 1] \in Seq(X)
          /\ rels[k + 1] = T!Relations(order[k + 1])
      <3>1. F[k + 1] = F[k] \o rels[k + 1]
        BY <1>5, <1>6 DEF Sums
      <3>2. rels[k + 1] = T!Relations(order[k + 1])
        BY <1>5, <2>1
      <3> QED
        BY <1>3, <1>6, <2>1, <3>1, <3>2
    <2>3. Times(F[k + 1], <<f, g>>) = Times(F[k], <<f, g>>) + Times(rels[k + 1], <<f, g>>)
      BY <2>2, TimesJoin
    <2>4. Times(rels[k + 1], <<f, g>>) = IF order[k + 1] = f THEN d ELSE 0
      BY <1>3, <2>1, <2>2
    <2>5. Times(F[k], <<f, g>>) = IF done(k) THEN d ELSE 0
      BY <1>8
    <2>6. CASE order[k + 1] = f
      <3>1. ~ done(k)
        <4>1. ASSUME NEW i \in 1 .. k, order[i] = f PROVE FALSE
          <5>1. i \in 1 .. n /\ i # k + 1
            BY <1>2, <2>1
          <5> QED
            BY <1>1, <2>1, <2>6, <4>1, <5>1
        <4> QED
          BY <4>1
      <3>2. done(k + 1)
        <4>1. k + 1 \in 1 .. k + 1
          BY <2>1
        <4> QED
          BY <2>6, <4>1
      <3> HIDE DEF done
      <3> QED
        BY <1>4, <2>1, <2>3, <2>4, <2>5, <2>6, <3>1, <3>2
    <2>7. CASE order[k + 1] # f
      <3>1. done(k) <=> done(k + 1)
        <4>1. \A i \in 1 .. k + 1 : i \in 1 .. k \/ i = k + 1
          BY <2>1
        <4>2. \A i \in 1 .. k : i \in 1 .. k + 1
          BY <2>1
        <4> QED
          BY <2>7, <4>1, <4>2
      <3> HIDE DEF done
      <3> QED
        BY <1>4, <2>1, <2>3, <2>4, <2>5, <2>7, <3>1
    <2> QED
      BY <2>6, <2>7
  <1>9. n \in P
    <2> HIDE DEF P
    <2>1. 0 .. n \subseteq P
      BY <1>2, <1>7, <1>8, Bounded
    <2> QED
      BY <1>2, <2>1
  <1>10. done(n) \/ d = 0
    BY <1>1 DEF d
  <1>11. T!FlattenSeq(rels) = F[n] /\ <<>> \o F[n] = F[n]
    <2>1. T!FlattenSeq(rels) = Flat(rels)
      BY DEF T!FlattenSeq, Flat
    <2>2. F[n] \in Seq(X)
      BY <1>2, <1>6
    <2> QED
      BY <1>5, <1>6, <2>1, <2>2 DEF Sums
  <1>12. Times(<<>> \o T!FlattenSeq(rels), <<f, g>>) = d
    <2> HIDE DEF done
    <2> QED
      BY <1>9, <1>10, <1>11
  <1> QED
    BY <1>12 DEF rels, order, n, d

Roots == Domains \union Subdomains
Tops == Domains \union Unlisted
Parents == Tops \union Subdomains
FileFields ==
  [type : {"file", "file_stub"}, parent : Parents, depth_chain : Seq(Parents \union TaxFiles),
   ancestors_chain : Seq(Parents \union TaxFiles), required : Seq(Concerns),
   depends_on : Seq(TaxFiles), depended_by : Seq(TaxFiles)]
(* A file's chain runs from a domain, or from a parent that no table has,   *)
(* through a subdomain or not.                                              *)
Chained(entry, f, arcs) ==
  \E d \in Tops :
    \/ entry.depth_chain = <<d, f>> /\ entry.ancestors_chain = <<f, d>> /\ <<d, f>> \in arcs
    \/ \E s \in Subdomains : /\ entry.depth_chain = <<d, s, f>> /\ entry.ancestors_chain = <<f, s, d>>
                             /\ <<d, s>> \in arcs /\ <<s, f>> \in arcs
FileNode(entry, f, arcs) == entry \in FileFields /\ Chained(entry, f, arcs)
SubNode(entry, s, arcs) ==
  entry.type = "folder_subdomain" /\ \E d \in Tops : entry.depth_chain = <<d, s>> /\ <<d, s>> \in arcs
ConcernNode(entry) ==
  entry.type = "concern" /\ entry.severity \in Severities /\ entry.evidence \in SUBSET TaxFiles

NodesTyped ==
  /\ DOMAIN tax \subseteq Roots \union TaxFiles \union Concerns
  /\ \A d \in Domains : d \in DOMAIN tax => tax[d].type = "folder_domain"
  /\ \A s \in Subdomains : s \in DOMAIN tax => SubNode(tax[s], s, under)
  /\ \A f \in TaxFiles : f \in DOMAIN tax => FileNode(tax[f], f, under)
  /\ \A c \in Concerns : c \in DOMAIN tax => ConcernNode(tax[c])
(* What is built, pass by pass.                                             *)
Passes ==
  /\ pass \in {"folders", "subdomains", "files", "concerns", "imports", "registry", "done"}
  /\ pass = "folders" => DOMAIN tax = {} /\ under = {}
  /\ pass = "subdomains" => DOMAIN tax \subseteq Domains
  /\ pass = "files" => Subdomains \subseteq DOMAIN tax
  /\ pass \notin {"imports", "registry", "done"} => imports = <<>>
  /\ pass # "done" => registry = <<>>
  /\ imports \in Seq((TaxFiles \union Outside) \X (TaxFiles \union Outside))
IsFile(f) == f \in DOMAIN tax /\ tax[f].type = "file"
Imported(f, g) == IF IsFile(f) /\ IsFile(g) THEN Times(imports, <<f, g>>) ELSE 0
Dependencies ==
  \A f \in TaxFiles : f \in DOMAIN tax =>
    /\ imports = <<>> => tax[f].depends_on = <<>> /\ tax[f].depended_by = <<>>
    /\ \A i \in 1 .. Len(tax[f].depends_on) : IsFile(tax[f].depends_on[i])
    /\ \A g \in TaxFiles : g \in DOMAIN tax =>
         Times(tax[f].depends_on, g) = Imported(f, g) /\ Times(tax[g].depended_by, f) = Imported(f, g)
Linked ==
  \A c \in Concerns :
    /\ pass \notin {"registry", "done"} => \A f \in TaxFiles : <<c, f>> \notin under
    /\ pass \in {"registry", "done"} =>
         \A f \in TaxFiles : c \in DOMAIN tax /\ f \in DOMAIN tax =>
           (<<c, f>> \in under <=> c \in T!ToSet(tax[f].required) \/ f \in tax[c].evidence)
Registered ==
  pass = "done" =>
    \A f, g \in TaxFiles : Times(registry, <<f, g>>) = IF IsFile(f) THEN Times(tax[f].depends_on, g) ELSE 0
TaxInv == NodesTyped /\ Passes /\ Dependencies /\ Linked /\ Registered

(* Edges that are added leave the chains standing.                          *)
LEMMA MoreEdges ==
  ASSUME NEW entry, NEW x, NEW E, NEW F, E \subseteq F
  PROVE  (FileNode(entry, x, E) => FileNode(entry, x, F)) /\ (SubNode(entry, x, E) => SubNode(entry, x, F))
  <1>1. Chained(entry, x, E) => Chained(entry, x, F)
    BY DEF Chained
  <1>2. SubNode(entry, x, E) => SubNode(entry, x, F)
    BY DEF SubNode
  <1> QED
    BY <1>1, <1>2 DEF FileNode

(* What the types of the nodes are.                                         *)
LEMMA TypesAre ==
  ASSUME NodesTyped
  PROVE  /\ T!Stubbed = {f \in TaxFiles : f \in DOMAIN tax}
            /\ T!OfType("concern") = {c \in Concerns : c \in DOMAIN tax}
         /\ T!OfType("file") = {f \in TaxFiles : IsFile(f)}
  <1>1. ASSUME NEW n \in DOMAIN tax
        PROVE  /\ n \in Domains => tax[n].type = "folder_domain"
               /\ n \in Subdomains => tax[n].type = "folder_subdomain"
               /\ n \in TaxFiles => tax[n].type \in {"file", "file_stub"}
               /\ n \in Concerns => tax[n].type = "concern"
               /\ n \in Domains \/ n \in Subdomains \/ n \in TaxFiles \/ n \in Concerns
    <2>1. n \in Domains \/ n \in Subdomains \/ n \in TaxFiles \/ n \in Concerns
      BY DEF NodesTyped, Roots
    <2>2. n \in TaxFiles => tax[n].type \in {"file", "file_stub"}
      <3>1. n \in TaxFiles => tax[n] \in FileFields
        BY DEF NodesTyped, FileNode
      <3> QED
        BY <3>1 DEF FileFields
    <2> QED
      BY <2>1, <2>2 DEF NodesTyped, SubNode, ConcernNode
  <1>2. T!OfType("file") = {f \in TaxFiles : IsFile(f)}
    BY <1>1 DEF T!OfType, IsFile
  <1>3. T!OfType("concern") = {c \in Concerns : c \in DOMAIN tax}
    BY <1>1 DEF T!OfType
  <1>4. T!Stubbed = {f \in TaxFiles : f \in DOMAIN tax}
    BY <1>1 DEF T!OfType, T!Stubbed
  <1> QED
    BY <1>2, <1>3, <1>4

(* Nothing is built at first.                                               *)
LEMMA TaxInit == T!Init => TaxInv
  <1> SUFFICES ASSUME T!Init PROVE TaxInv
    OBVIOUS
  <1>1. DOMAIN tax = {} /\ pass = "folders" /\ under = {} /\ imports = <<>> /\ registry = <<>>
    BY DEF T!Init
  <1>2. NodesTyped
    BY <1>1 DEF NodesTyped
  <1>3. Passes
    BY <1>1 DEF Passes
  <1> QED
    BY <1>1, <1>2, <1>3 DEF TaxInv, Dependencies, Linked, Registered

(* Domains are added to an empty taxonomy.                                  *)
LEMMA DomainsKeep == TaxInv /\ T!AddDomains => TaxInv'
  <1> SUFFICES ASSUME TaxInv, T!AddDomains PROVE TaxInv'
    OBVIOUS
  <1>1. /\ pass = "folders" /\ pass' = "subdomains" /\ under' = under /\ imports' = imports
        /\ registry' = registry
        /\ tax' = [d \in Domains |-> T!Folder("folder_domain", d, {})]
    BY DEF T!AddDomains
  <1>2. under = {} /\ imports = <<>> /\ registry = <<>>
    BY <1>1 DEF TaxInv, Passes
  <1>3. DOMAIN tax' = Domains /\ \A d \in Domains : tax'[d].type = "folder_domain"
    BY <1>1 DEF T!Folder
  <1>4. Domains \intersect (Subdomains \union TaxFiles \union Concerns) = {}
    BY TaxonomyAssumption
  <1>5. NodesTyped'
    BY <1>3, <1>4 DEF NodesTyped, Roots
  <1>6. Passes'
    BY <1>1, <1>2, <1>3 DEF TaxInv, Passes
  <1>7. Dependencies'
    BY <1>3, <1>4 DEF Dependencies
  <1>8. Linked'
    BY <1>1, <1>2 DEF Linked
  <1> QED
    BY <1>1, <1>5, <1>6, <1>7, <1>8 DEF TaxInv, Registered

(* A subdomain is added below a domain.                                     *)
LEMMA SubdomainsKeep == TaxInv /\ T!AddSubdomains => TaxInv'
  <1> SUFFICES ASSUME TaxInv, T!AddSubdomains PROVE TaxInv'
    OBVIOUS
  <1>1. PICK above \in [Subdomains -> Tops] :
          /\ tax' = [n \in DOMAIN tax \union Subdomains |->
                        IF n \in Subdomains THEN T!Folder("folder_subdomain", n, above[n]) ELSE tax[n]]
          /\ under' = under \union {<<above[s], s>> : s \in Subdomains}
    BY DEF T!AddSubdomains, Tops
  <1>2. pass = "subdomains" /\ pass' = "files" /\ imports' = imports /\ registry' = registry
    BY DEF T!AddSubdomains
  <1>3. DOMAIN tax \subseteq Domains /\ imports = <<>> /\ registry = <<>>
    BY <1>2 DEF TaxInv, Passes
  <1>4. /\ Domains \intersect (Subdomains \union TaxFiles \union Concerns) = {} /\ {} \notin Tops
        /\ Subdomains \intersect (Tops \union TaxFiles \union Concerns) = {}
        /\ TaxFiles \intersect Concerns = {}
    BY TaxonomyAssumption DEF Tops
  <1>5. DOMAIN tax' = DOMAIN tax \union Subdomains /\ (DOMAIN tax') \intersect (TaxFiles \union Concerns) = {}
    BY <1>1, <1>3, <1>4
  <1>6. ASSUME NEW s \in Subdomains PROVE SubNode(tax'[s], s, under')
    <2>1. tax'[s] = T!Folder("folder_subdomain", s, above[s]) /\ above[s] \in Tops
      BY <1>1
    <2>2. T!Chain(s, above[s]) = <<above[s], s>>
      BY <1>4, <2>1 DEF T!Chain
    <2>3. tax'[s].type = "folder_subdomain" /\ tax'[s].depth_chain = <<above[s], s>>
      BY <2>1, <2>2 DEF T!Folder
    <2> QED
      BY <1>1, <2>1, <2>3 DEF SubNode
  <1>7. \A d \in Domains : d \in DOMAIN tax' => tax'[d].type = "folder_domain"
    BY <1>1, <1>4 DEF TaxInv, NodesTyped
  <1>8. NodesTyped'
    <2>1. DOMAIN tax' \subseteq Roots \union TaxFiles \union Concerns
      BY <1>3, <1>5 DEF Roots
    <2> QED
      BY <1>5, <1>6, <1>7, <2>1 DEF NodesTyped, Roots
  <1>9. Passes'
    BY <1>2, <1>3, <1>5 DEF TaxInv, Passes
  <1>10. Dependencies'
    BY <1>5 DEF Dependencies
  <1>11. Linked'
    <2>1. \A c \in Concerns, f \in TaxFiles : <<c, f>> \notin under
      BY <1>2 DEF TaxInv, Linked
    <2>2. \A c \in Concerns, f \in TaxFiles : <<c, f>> \notin under'
      BY <1>1, <1>4, <2>1
    <2> QED
      BY <1>2, <2>2 DEF Linked
  <1> QED
    BY <1>2, <1>8, <1>9, <1>10, <1>11 DEF TaxInv, Registered

Separate ==
  /\ Domains \intersect (Subdomains \union TaxFiles \union Concerns) = {} /\ {} \notin Parents
  /\ Subdomains \intersect (Tops \union TaxFiles \union Concerns) = {}
  /\ TaxFiles \intersect (Parents \union Concerns \union Outside) = {}
  /\ Unlisted \intersect (Roots \union TaxFiles \union Concerns) = {}

(* Ids of different kinds differ.                                           *)
LEMMA Apart == Separate
  BY TaxonomyAssumption DEF Separate, Roots, Tops, Parents

(* A third element behind two.                                              *)
LEMMA ThirdBehind ==
  ASSUME NEW Z, NEW a \in Z, NEW b \in Z, NEW c \in Z
  PROVE  Append(<<a, b>>, c) = <<a, b, c>>
  <1> DEFINE s == <<a, b>>
  <1>1. s \in Seq(Z) /\ Len(s) = 2 /\ s[1] = a /\ s[2] = b
    OBVIOUS
  <1> HIDE DEF s
  <1>2. Append(s, c) \in Seq(Z) /\ Len(Append(s, c)) = 3 /\ Append(s, c)[1] = a /\ Append(s, c)[2] = b
        /\ Append(s, c)[3] = c
    <2>1. /\ Append(s, c) \in Seq(Z) /\ Len(Append(s, c)) = Len(s) + 1 /\ Append(s, c)[Len(s) + 1] = c
          /\ \A i \in 1 .. Len(s) : Append(s, c)[i] = s[i]
      <3>1. s \in Seq(Z) /\ c \in Z
        BY <1>1
      <3> QED
        BY ONLY <3>1, AppendProperties
    <2>2. 1 \in 1 .. 2 /\ 2 \in 1 .. 2 /\ 2 + 1 = 3
      OBVIOUS
    <2> QED
      BY <1>1, <2>1, <2>2
  <1>3. Append(s, c) = <<a, b, c>>
    <2> DEFINE t == Append(s, c)
               u == <<a, b, c>>
    <2>1. u \in Seq(Z) /\ Len(u) = 3 /\ u[1] = a /\ u[2] = b /\ u[3] = c
      OBVIOUS
    <2>2. t \in Seq(Z) /\ Len(t) = 3 /\ t[1] = a /\ t[2] = b /\ t[3] = c
      BY <1>2
    <2> HIDE DEF t, u
    <2>3. \A i \in 1 .. 3 : t[i] = u[i]
      <3>1. \A i \in 1 .. 3 : i = 1 \/ i = 2 \/ i = 3
        OBVIOUS
      <3> QED
        BY <2>1, <2>2, <3>1
    <2>4. t = u
      BY <2>1, <2>2, <2>3
    <2> QED
      BY <2>4 DEF t, u
  <1> QED
    BY <1>3 DEF s

(* A file that is added has the chain of its parent and depends on nothing. *)
LEMMA NewFile ==
  ASSUME TaxInv, pass = "files", NEW f \in TaxFiles, NEW above \in Parents, NEW required \in SUBSET Concerns,
         NEW type \in {"file", "file_stub"}, NEW arcs, under \subseteq arcs, <<above, f>> \in arcs
  PROVE  LET entry == T!File(type, f, above, required) IN FileNode(entry, f, arcs)
         /\ entry.depends_on = <<>> /\ entry.depended_by = <<>>
  <1> DEFINE entry == T!File(type, f, above, required)
             way == T!Chain(f, above)
  <1>1. PICK d \in Tops : \/ way = <<d, f>> /\ above = d
                          \/ \E s \in Subdomains : way = <<d, s, f>> /\ above = s /\ <<d, s>> \in under
    <2>1. CASE above \in Tops
      <3>1. above \notin Subdomains /\ above # {}
        BY <2>1, Apart DEF Separate
      <3>2. way = <<above, f>>
        BY <3>1 DEF T!Chain
      <3> QED
        BY <2>1, <3>2
    <2>2. CASE above \in Subdomains
      <3>1. above \in DOMAIN tax /\ SubNode(tax[above], above, under)
        BY <2>2 DEF TaxInv, Passes, NodesTyped
      <3>2. PICK d \in Tops : tax[above].depth_chain = <<d, above>> /\ <<d, above>> \in under
        BY <3>1 DEF SubNode
      <3>3. way = <<d, above, f>>
        <4>1. way = Append(tax[above].depth_chain, f)
          BY <2>2, <3>1 DEF T!Chain
        <4>2. Append(<<d, above>>, f) = <<d, above, f>>
          <5> DEFINE Z == Parents \union TaxFiles
          <5>1. d \in Z /\ above \in Z /\ f \in Z
            BY <2>2 DEF Parents
          <5> HIDE DEF Z
          <5> QED
            BY <5>1, ThirdBehind
        <4> HIDE DEF way
        <4> QED
          BY <3>2, <4>1, <4>2
      <3> QED
        BY <2>2, <3>2, <3>3
    <2> QED
      BY <2>1, <2>2 DEF Parents
  <1>2. /\ entry.type = type /\ entry.parent = above /\ entry.depth_chain = way
        /\ entry.ancestors_chain = T!Reverse(way)
        /\ entry.required = T!SetToSeq(required) /\ entry.depends_on = <<>> /\ entry.depended_by = <<>>
        /\ entry = [type |-> type, parent |-> above, depth_chain |-> way, ancestors_chain |-> T!Reverse(way),
                   required |-> T!SetToSeq(required), depends_on |-> <<>>, depended_by |-> <<>>]
    BY DEF T!File
  <1>3. T!SetToSeq(required) \in Seq(Concerns)
    <2>1. IsFiniteSet(required)
      BY TaxonomyAssumption, FS_Subset
    <2>2. T!SetToSeq(required) \in Seq(required)
      BY <2>1, TaxSeq
    <2> QED
      BY <2>2
  <1> HIDE DEF entry, way
  <1>4. CASE way = <<d, f>> /\ above = d
    <2>1. T!Reverse(way) = <<f, d>>
      BY <1>4 DEF T!Reverse
    <2>2. way \in Seq(Parents \union TaxFiles) /\ T!Reverse(way) \in Seq(Parents \union TaxFiles)
      <3> DEFINE Z == Parents \union TaxFiles
      <3>1. d \in Z /\ f \in Z
        BY DEF Parents
      <3> HIDE DEF Z
      <3>2. <<d, f>> \in Seq(Z) /\ <<f, d>> \in Seq(Z)
        BY <3>1
      <3> QED
        BY <1>4, <2>1, <3>2 DEF Z
    <2>3. entry \in FileFields
      BY <1>2, <1>3, <2>2 DEF FileFields
    <2>4. Chained(entry, f, arcs)
      BY <1>2, <1>4, <2>1 DEF Chained
    <2> QED
      BY <1>2, <2>3, <2>4 DEF FileNode, entry
  <1>5. ASSUME NEW s \in Subdomains, way = <<d, s, f>>, above = s, <<d, s>> \in under
        PROVE  FileNode(entry, f, arcs)
    <2>1. T!Reverse(way) = <<f, s, d>>
      BY <1>5 DEF T!Reverse
    <2>2. way \in Seq(Parents \union TaxFiles) /\ T!Reverse(way) \in Seq(Parents \union TaxFiles)
      <3> DEFINE Z == Parents \union TaxFiles
      <3>1. d \in Z /\ f \in Z /\ s \in Z
        BY DEF Parents
      <3> HIDE DEF Z
      <3>2. <<d, s, f>> \in Seq(Z) /\ <<f, s, d>> \in Seq(Z)
        BY <3>1
      <3> QED
        BY <1>5, <2>1, <3>2 DEF Z
    <2>3. entry \in FileFields
      BY <1>2, <1>3, <2>2 DEF FileFields
    <2>4. Chained(entry, f, arcs)
      BY <1>2, <1>5, <2>1 DEF Chained
    <2> QED
      BY <2>3, <2>4 DEF FileNode
  <1>6. FileNode(entry, f, arcs)
    BY <1>1, <1>4, <1>5 DEF entry
  <1> QED
    BY <1>2, <1>6 DEF entry

(* Adding it keeps what is said of the others.                              *)
LEMMA FilesKeep == TaxInv /\ T!AddFile => TaxInv'
  <1> SUFFICES ASSUME TaxInv, T!AddFile PROVE TaxInv'
    OBVIOUS
  <1>1. PICK f \in TaxFiles, above \in Parents, required \in SUBSET Concerns, type \in {"file", "file_stub"} :
          /\ f \notin DOMAIN tax
          /\ tax' = [n \in DOMAIN tax \union {f} |-> IF n = f THEN T!File(type, f, above, required) ELSE tax[n]]
          /\ under' = under \union {<<above, f>>}
    BY DEF T!AddFile, T!Put, Tops, Parents
  <1>2. pass = "files" /\ pass' \in {"files", "concerns"} /\ imports' = imports /\ registry' = registry
    BY DEF T!AddFile
  <1>3. imports = <<>> /\ registry = <<>> /\ Subdomains \subseteq DOMAIN tax
    BY <1>2 DEF TaxInv, Passes
  <1> DEFINE entry == T!File(type, f, above, required)
  <1>4. FileNode(entry, f, under') /\ entry.depends_on = <<>> /\ entry.depended_by = <<>>
    <2>1. under \subseteq under' /\ <<above, f>> \in under'
      BY <1>1
    <2> QED
      BY <1>2, <2>1, NewFile
  <1>5. DOMAIN tax' = DOMAIN tax \union {f} /\ tax'[f] = entry
        /\ \A n \in DOMAIN tax : n # f /\ tax'[n] = tax[n]
    BY <1>1
  <1> HIDE DEF entry
  <1>6. f \notin Domains /\ f \notin Subdomains /\ f \notin Concerns /\ f # above /\ above \notin Concerns
    BY Apart DEF Separate, Roots, Tops, Parents
  <1>7. NodesTyped'
    <2>1. DOMAIN tax' \subseteq Roots \union TaxFiles \union Concerns
      BY <1>5 DEF TaxInv, NodesTyped
    <2>2. \A d \in Domains : d \in DOMAIN tax' => tax'[d].type = "folder_domain"
      BY <1>5, <1>6 DEF TaxInv, NodesTyped
    <2>3. ASSUME NEW s \in Subdomains, s \in DOMAIN tax' PROVE SubNode(tax'[s], s, under')
      <3>1. s \in DOMAIN tax /\ SubNode(tax[s], s, under) /\ tax'[s] = tax[s]
        BY <1>5, <1>6, <2>3 DEF TaxInv, NodesTyped
      <3> QED
        BY <1>1, <3>1, MoreEdges
    <2>4. ASSUME NEW g \in TaxFiles, g \in DOMAIN tax' PROVE FileNode(tax'[g], g, under')
      <3>1. CASE g = f
        BY <1>4, <1>5, <3>1
      <3>2. CASE g # f
        <4>1. g \in DOMAIN tax /\ FileNode(tax[g], g, under) /\ tax'[g] = tax[g]
          BY <1>5, <2>4, <3>2 DEF TaxInv, NodesTyped
        <4> QED
          BY <1>1, <4>1, MoreEdges
      <3> QED
        BY <3>1, <3>2
    <2>5. \A c \in Concerns : c \in DOMAIN tax' => ConcernNode(tax'[c])
      BY <1>5, <1>6 DEF TaxInv, NodesTyped
    <2> QED
      BY <2>1, <2>2, <2>3, <2>4, <2>5 DEF NodesTyped, Roots
  <1>8. Passes'
    BY <1>2, <1>3, <1>5 DEF TaxInv, Passes
  <1>9. \A g \in TaxFiles : g \in DOMAIN tax' => tax'[g].depends_on = <<>> /\ tax'[g].depended_by = <<>>
    BY <1>3, <1>4, <1>5 DEF TaxInv, Dependencies
  <1>10. Dependencies'
    <2>1. \A x : Times(<<>>, x) = 0
      BY TimesNone
    <2>2. \A g, h \in TaxFiles : Imported(g, h)' = 0
      BY <1>2, <1>3, <2>1 DEF Imported
    <2>3. imports' = <<>>
      BY <1>2, <1>3
    <2> QED
      BY <1>9, <2>1, <2>2 DEF Dependencies
  <1>11. Linked'
    <2>1. \A c \in Concerns, g \in TaxFiles : <<c, g>> \notin under
      BY <1>2 DEF TaxInv, Linked
    <2>2. \A c \in Concerns, g \in TaxFiles : <<c, g>> \notin under'
      BY <1>1, <1>6, <2>1
    <2> QED
      BY <1>2, <2>2 DEF Linked
  <1> QED
    BY <1>2, <1>7, <1>8, <1>10, <1>11 DEF TaxInv, Registered

(* Adding a concern, or having none, leaves files and folders alone.        *)
LEMMA ConcernsKeep == TaxInv /\ (T!AddConcern \/ T!NoConcerns) => TaxInv'
  <1> SUFFICES ASSUME TaxInv, T!AddConcern \/ T!NoConcerns PROVE TaxInv'
    OBVIOUS
  <1>1. /\ pass = "concerns" /\ pass' \in {"concerns", "imports"}
        /\ under' = under /\ imports' = imports /\ registry' = registry
    BY DEF T!AddConcern, T!NoConcerns
  <1>2. imports = <<>> /\ registry = <<>>
    BY <1>1 DEF TaxInv, Passes
  <1>3. Linked'
    <2>1. \A c \in Concerns, g \in TaxFiles : <<c, g>> \notin under'
      BY <1>1 DEF TaxInv, Linked
    <2> QED
      BY <1>1, <2>1 DEF Linked
  <1>4. \A x : Times(<<>>, x) = 0
    BY TimesNone
  <1>5. ASSUME tax' = tax PROVE NodesTyped' /\ Dependencies'
    <2>1. NodesTyped'
      BY <1>1, <1>5 DEF TaxInv, NodesTyped
    <2>2. Dependencies'
      BY <1>1, <1>5 DEF TaxInv, Dependencies, Imported, IsFile
    <2> QED
      BY <2>1, <2>2
  <1>6. ASSUME NEW c \in Concerns, NEW entry, ConcernNode(entry),
               tax' = [n \in DOMAIN tax \union {c} |-> IF n = c THEN entry ELSE tax[n]]
        PROVE  NodesTyped' /\ Dependencies'
    <2>1. DOMAIN tax' = DOMAIN tax \union {c} /\ tax'[c] = entry
          /\ \A n \in DOMAIN tax : n # c => tax'[n] = tax[n]
      BY <1>6
    <2>2. c \notin Domains /\ c \notin Subdomains /\ c \notin TaxFiles
      BY Apart DEF Separate, Roots
    <2>3. NodesTyped'
      <3>1. DOMAIN tax' \subseteq Roots \union TaxFiles \union Concerns
        BY <2>1 DEF TaxInv, NodesTyped
      <3>2. \A d \in Domains : d \in DOMAIN tax' => tax'[d].type = "folder_domain"
        BY <2>1, <2>2 DEF TaxInv, NodesTyped
      <3>3. \A s \in Subdomains : s \in DOMAIN tax' => SubNode(tax'[s], s, under')
        BY <1>1, <2>1, <2>2 DEF TaxInv, NodesTyped
      <3>4. \A f \in TaxFiles : f \in DOMAIN tax' => FileNode(tax'[f], f, under')
        BY <1>1, <2>1, <2>2 DEF TaxInv, NodesTyped
      <3>5. \A e \in Concerns : e \in DOMAIN tax' => ConcernNode(tax'[e])
        BY <1>6, <2>1 DEF TaxInv, NodesTyped
      <3> QED
        BY <3>1, <3>2, <3>3, <3>4, <3>5 DEF NodesTyped, Roots
    <2>4. \A f \in TaxFiles : f \in DOMAIN tax' => tax'[f].depends_on = <<>> /\ tax'[f].depended_by = <<>>
      BY <1>2, <2>1, <2>2 DEF TaxInv, Dependencies
    <2>5. \A g, h \in TaxFiles : Imported(g, h)' = 0
      BY <1>1, <1>2, <1>4 DEF Imported
    <2> QED
      BY <1>4, <2>3, <2>4, <2>5 DEF Dependencies
  <1>7. NodesTyped' /\ Dependencies'
    <2>1. CASE T!NoConcerns
      BY <1>5, <2>1 DEF T!NoConcerns
    <2>2. CASE T!AddConcern
      <3>1. PICK c \in Concerns, severity \in Severities, files \in SUBSET TaxFiles :
              tax' = [n \in DOMAIN tax \union {c} |->
                        IF n = c THEN [type |-> "concern", severity |-> severity, evidence |-> files] ELSE tax[n]]
        BY <2>2 DEF T!AddConcern, T!Put
      <3>2. ConcernNode([type |-> "concern", severity |-> severity, evidence |-> files])
        BY DEF ConcernNode
      <3> QED
        BY <1>6, <3>1, <3>2
    <2> QED
      BY <2>1, <2>2
  <1>8. Passes'
    BY <1>1, <1>2 DEF TaxInv, Passes
  <1> QED
    BY <1>1, <1>3, <1>7, <1>8 DEF TaxInv, Registered

(* The links of a concern are exactly its targets.                          *)
LEMMA LinkKeep == TaxInv /\ T!LinkConcerns => TaxInv'
  <1> SUFFICES ASSUME TaxInv, T!LinkConcerns PROVE TaxInv'
    OBVIOUS
  <1>1. /\ pass = "imports" /\ pass' = "registry" /\ tax' = tax /\ imports' = imports /\ registry' = registry
        /\ under' = under \union UNION {{c} \X T!Targets(c) : c \in T!OfType("concern")}
    BY DEF T!LinkConcerns
  <1>2. T!Stubbed = {f \in TaxFiles : f \in DOMAIN tax}
        /\ T!OfType("concern") = {c \in Concerns : c \in DOMAIN tax}
    BY TypesAre DEF TaxInv
  <1>3. NodesTyped'
    <2>1. ASSUME NEW s \in Subdomains, s \in DOMAIN tax PROVE SubNode(tax[s], s, under')
      BY <1>1, <2>1, MoreEdges DEF TaxInv, NodesTyped
    <2>2. ASSUME NEW f \in TaxFiles, f \in DOMAIN tax PROVE FileNode(tax[f], f, under')
      BY <1>1, <2>2, MoreEdges DEF TaxInv, NodesTyped
    <2> QED
      BY <1>1, <2>1, <2>2 DEF TaxInv, NodesTyped
  <1>4. Passes'
    BY <1>1 DEF TaxInv, Passes
  <1>5. Dependencies'
    BY <1>1 DEF TaxInv, Dependencies, Imported, IsFile
  <1>6. Linked'
    <2>1. ASSUME NEW c \in Concerns, NEW f \in TaxFiles, c \in DOMAIN tax, f \in DOMAIN tax
          PROVE  <<c, f>> \in under' <=> c \in T!ToSet(tax[f].required) \/ f \in tax[c].evidence
      <3>1. <<c, f>> \notin under
        BY <1>1 DEF TaxInv, Linked
      <3>2. <<c, f>> \in under' <=> f \in T!Targets(c)
        BY <1>1, <1>2, <2>1, <3>1
      <3> QED
        BY <1>2, <2>1, <3>2 DEF T!Targets
    <2> QED
      BY <1>1, <2>1 DEF Linked
  <1> QED
    BY <1>1, <1>3, <1>4, <1>5, <1>6 DEF TaxInv, Registered

(* The registry has the relations of all files.                             *)
LEMMA BuildKeep == TaxInv /\ T!BuildRegistry => TaxInv'
  <1> SUFFICES ASSUME TaxInv, T!BuildRegistry PROVE TaxInv'
    OBVIOUS
  <1>1. pass = "registry" /\ pass' = "done" /\ tax' = tax /\ imports' = imports /\ under' = under
    BY DEF T!BuildRegistry
  <1>2. registry' = LET order == T!SetToSeq(T!OfType("file"))
                    IN <<>> \o T!FlattenSeq([i \in 1 .. Len(order) |-> T!Relations(order[i])])
    BY <1>1 DEF T!BuildRegistry, TaxInv, Passes
  <1>3. NodesTyped'
    BY <1>1 DEF TaxInv, NodesTyped
  <1>4. Passes'
    BY <1>1 DEF TaxInv, Passes
  <1>5. Dependencies'
    BY <1>1 DEF TaxInv, Dependencies, Imported, IsFile
  <1>6. Linked'
    BY <1>1 DEF TaxInv, Linked
  <1>7. Registered'
    <2> DEFINE files == T!OfType("file")
    <2>1. files = {f \in TaxFiles : IsFile(f)}
      BY TypesAre DEF TaxInv
    <2>2. \A h \in files : tax[h].depends_on \in Seq(TaxFiles)
      <3>1. \A h \in TaxFiles : IsFile(h) => tax[h] \in FileFields
        BY DEF TaxInv, NodesTyped, FileNode, IsFile
      <3> HIDE DEF files
      <3> QED
        BY <2>1, <3>1 DEF FileFields
    <2>3. ASSUME NEW f, NEW g
          PROVE  Times(registry', <<f, g>>) = IF f \in files THEN Times(tax[f].depends_on, g) ELSE 0
      <3>1. files \in SUBSET TaxFiles
        BY <2>1
      <3>2. registry' = LET order == T!SetToSeq(files)
                        IN <<>> \o T!FlattenSeq([i \in 1 .. Len(order) |-> T!Relations(order[i])])
        BY <1>2
      <3> HIDE DEF files
      <3>3. LET order == T!SetToSeq(files)
            IN Times(<<>> \o T!FlattenSeq([i \in 1 .. Len(order) |-> T!Relations(order[i])]), <<f, g>>)
               = IF f \in files THEN Times(tax[f].depends_on, g) ELSE 0
        BY <2>2, <3>1, RegistryTimes
      <3> QED
        BY <3>2, <3>3
    <2> HIDE DEF files
    <2> QED
      BY <1>1, <2>1, <2>3 DEF Registered, IsFile
  <1> QED
    BY <1>3, <1>4, <1>5, <1>6, <1>7 DEF TaxInv

(* An import of one file by another is noted at both.                       *)
LEMMA DependsIs ==
  ASSUME NodesTyped, NEW f \in TaxFiles, NEW g \in TaxFiles, IsFile(f), IsFile(g)
  PROVE  /\ DOMAIN T!Depends(f, g) = DOMAIN tax
         /\ \A n \in DOMAIN tax : n \notin TaxFiles => T!Depends(f, g)[n] = tax[n]
         /\ \A h \in TaxFiles : h \in DOMAIN tax =>
              LET entry == T!Depends(f, g)[h]
              IN /\ entry.type = tax[h].type /\ entry.parent = tax[h].parent
                 /\ entry.depth_chain = tax[h].depth_chain
                 /\ entry.ancestors_chain = tax[h].ancestors_chain /\ entry.required = tax[h].required
                 /\ entry.depends_on = IF h = f THEN Append(tax[h].depends_on, g) ELSE tax[h].depends_on
                 /\ entry.depended_by = IF h = g THEN Append(tax[h].depended_by, f) ELSE tax[h].depended_by
                 /\ entry \in FileFields
  <1> DEFINE one == [tax EXCEPT ![f].depends_on = Append(@, g)]
             both == [one EXCEPT ![g].depended_by = Append(@, f)]
  <1>1. T!Depends(f, g) = both
    BY DEF T!Depends
  <1>2. \A h \in TaxFiles : h \in DOMAIN tax => tax[h] \in FileFields
    BY DEF NodesTyped, FileNode
  <1>3. f \in DOMAIN tax /\ g \in DOMAIN tax
    BY DEF IsFile
  <1>4. /\ DOMAIN one = DOMAIN tax /\ \A n \in DOMAIN tax : n # f => one[n] = tax[n]
        /\ one[f] = [tax[f] EXCEPT !.depends_on = Append(@, g)]
    BY <1>3
  <1>5. /\ DOMAIN both = DOMAIN one /\ \A n \in DOMAIN one : n # g => both[n] = one[n]
        /\ both[g] = [one[g] EXCEPT !.depended_by = Append(@, f)]
    BY <1>3, <1>4
  <1> HIDE DEF one, both
  <1> DEFINE Same(a, b) == /\ a.type = b.type /\ a.parent = b.parent /\ a.depth_chain = b.depth_chain
                           /\ a.ancestors_chain = b.ancestors_chain /\ a.required = b.required
  <1>6. /\ Same(one[f], tax[f]) /\ one[f].depends_on = Append(tax[f].depends_on, g)
        /\ one[f].depended_by = tax[f].depended_by /\ one[f] \in FileFields
    <2>1. tax[f] \in FileFields
      BY <1>2, <1>3
    <2>2. Append(tax[f].depends_on, g) \in Seq(TaxFiles)
      BY <2>1 DEF FileFields
    <2> QED
      BY <1>4, <2>1, <2>2 DEF FileFields
  <1>7. \A h \in TaxFiles : h \in DOMAIN tax => one[h] \in FileFields
    BY <1>2, <1>4, <1>6
  <1>8. /\ Same(both[g], one[g]) /\ both[g].depended_by = Append(one[g].depended_by, f)
        /\ both[g].depends_on = one[g].depends_on /\ both[g] \in FileFields
    <2>1. one[g] \in FileFields
      BY <1>3, <1>7
    <2>2. Append(one[g].depended_by, f) \in Seq(TaxFiles)
      BY <2>1 DEF FileFields
    <2> QED
      BY <1>5, <2>1, <2>2 DEF FileFields
  <1>9. ASSUME NEW h \in TaxFiles, h \in DOMAIN tax
        PROVE  /\ Same(both[h], tax[h]) /\ both[h] \in FileFields
               /\ both[h].depends_on = IF h = f THEN Append(tax[h].depends_on, g) ELSE tax[h].depends_on
               /\ both[h].depended_by = IF h = g THEN Append(tax[h].depended_by, f) ELSE tax[h].depended_by
    <2>1. /\ Same(one[h], tax[h]) /\ one[h].depended_by = tax[h].depended_by
          /\ one[h].depends_on = IF h = f THEN Append(tax[h].depends_on, g) ELSE tax[h].depends_on
      BY <1>4, <1>6, <1>9
    <2>2. /\ Same(both[h], one[h]) /\ both[h].depends_on = one[h].depends_on /\ both[h] \in FileFields
          /\ both[h].depended_by = IF h = g THEN Append(one[h].depended_by, f) ELSE one[h].depended_by
      BY <1>4, <1>5, <1>7, <1>8, <1>9
    <2> QED
      BY <2>1, <2>2
  <1>10. \A n \in DOMAIN tax : n \notin TaxFiles => both[n] = tax[n]
    BY <1>4, <1>5
  <1> QED
    BY <1>1, <1>4, <1>5, <1>9, <1>10

(* An import raises both counts of its two files by one, and no other.      *)
LEMMA RegisterKeeps == TaxInv /\ T!Register => TaxInv'
  <1> SUFFICES ASSUME TaxInv, T!Register PROVE TaxInv'
    OBVIOUS
  <1>1. PICK f \in TaxFiles \union Outside, g \in TaxFiles \union Outside :
          /\ imports' = Append(imports, <<f, g>>)
          /\ tax' = IF {f, g} \subseteq T!OfType("file") THEN T!Depends(f, g) ELSE tax
    BY DEF T!Register
  <1>2. pass = "imports" /\ pass' = pass /\ under' = under /\ registry' = registry
    BY DEF T!Register
  <1> DEFINE Ends == (TaxFiles \union Outside) \X (TaxFiles \union Outside)
  <1>3. imports \in Seq(Ends) /\ <<f, g>> \in Ends /\ imports' \in Seq(Ends) /\ imports' # <<>>
    <2>1. imports \in Seq(Ends)
      BY DEF TaxInv, Passes
    <2>2. <<f, g>> \in Ends
      OBVIOUS
    <2> HIDE DEF Ends
    <2> QED
      BY <1>1, <2>1, <2>2
  <1>4. T!OfType("file") = {x \in TaxFiles : IsFile(x)}
    BY TypesAre DEF TaxInv
  <1> DEFINE both == {f, g} \subseteq T!OfType("file")
  <1>5. both <=> f \in TaxFiles /\ g \in TaxFiles /\ IsFile(f) /\ IsFile(g)
    BY <1>4
  <1>6. /\ DOMAIN tax' = DOMAIN tax /\ \A n \in DOMAIN tax : n \notin TaxFiles => tax'[n] = tax[n]
        /\ \A h \in TaxFiles : h \in DOMAIN tax =>
             /\ tax'[h].type = tax[h].type /\ tax'[h].depth_chain = tax[h].depth_chain
             /\ tax'[h].ancestors_chain = tax[h].ancestors_chain /\ tax'[h].required = tax[h].required
             /\ tax'[h].depends_on = IF both /\ h = f THEN Append(tax[h].depends_on, g) ELSE tax[h].depends_on
             /\ tax'[h].depended_by =
                  IF both /\ h = g THEN Append(tax[h].depended_by, f) ELSE tax[h].depended_by
             /\ tax'[h] \in FileFields
    <2>1. CASE both
      <3>1. tax' = T!Depends(f, g) /\ f \in TaxFiles /\ g \in TaxFiles /\ IsFile(f) /\ IsFile(g) /\ NodesTyped
        BY <1>1, <1>5, <2>1 DEF TaxInv
      <3> HIDE DEF both
      <3> QED
        BY <2>1, <3>1, DependsIs
    <2>2. CASE ~ both
      <3>1. tax' = tax
        BY <1>1, <2>2
      <3>2. \A h \in TaxFiles : h \in DOMAIN tax => tax[h] \in FileFields
        BY DEF TaxInv, NodesTyped, FileNode
      <3> HIDE DEF both
      <3> QED
        BY <2>2, <3>1, <3>2
    <2> QED
      BY <2>1, <2>2
  <1> HIDE DEF both
  <1>7. \A h \in TaxFiles : (IsFile(h)' <=> IsFile(h))
        /\ (IsFile(h) => h \in DOMAIN tax' /\ tax'[h].type = "file")
    BY <1>6 DEF IsFile
  <1>8. NodesTyped'
    <2>1. ASSUME NEW h \in TaxFiles, h \in DOMAIN tax PROVE FileNode(tax'[h], h, under')
      <3>1. Chained(tax[h], h, under)
        BY <2>1 DEF TaxInv, NodesTyped, FileNode
      <3>2. Chained(tax'[h], h, under')
        BY <1>2, <1>6, <2>1, <3>1 DEF Chained
      <3> QED
        BY <1>6, <2>1, <3>2 DEF FileNode
    <2>2. \A d \in Domains : d \in DOMAIN tax => tax'[d] = tax[d]
      BY <1>6, Apart DEF Separate, Roots
    <2>3. \A s \in Subdomains : s \in DOMAIN tax => tax'[s] = tax[s]
      BY <1>6, Apart DEF Separate, Roots
    <2>4. \A c \in Concerns : c \in DOMAIN tax => tax'[c] = tax[c]
      BY <1>6, Apart DEF Separate, Roots
    <2> QED
      BY <1>2, <1>6, <2>1, <2>2, <2>3, <2>4 DEF TaxInv, NodesTyped, Roots
  <1>9. Passes'
    <2>1. imports' \in Seq((TaxFiles \union Outside) \X (TaxFiles \union Outside))
      BY <1>3
    <2> QED
      BY <1>2, <2>1 DEF TaxInv, Passes
  <1>10. Linked'
    BY <1>2 DEF TaxInv, Linked
  <1>11. Dependencies'
    <2>1. ASSUME NEW h \in TaxFiles, h \in DOMAIN tax', NEW i \in 1 .. Len(tax'[h].depends_on)
          PROVE  tax'[h].depends_on[i] \in DOMAIN tax' /\ tax'[tax'[h].depends_on[i]].type = "file"
      <3>1. /\ h \in DOMAIN tax /\ tax[h].depends_on \in Seq(TaxFiles)
            /\ \A j \in 1 .. Len(tax[h].depends_on) : IsFile(tax[h].depends_on[j])
               /\ tax[h].depends_on[j] \in TaxFiles
        <4>1. h \in DOMAIN tax /\ tax[h] \in FileFields
          BY <1>6, <2>1 DEF TaxInv, NodesTyped, FileNode
        <4>2. \A j \in 1 .. Len(tax[h].depends_on) : IsFile(tax[h].depends_on[j])
          BY <2>1, <4>1 DEF TaxInv, Dependencies
        <4>3. tax[h].depends_on \in Seq(TaxFiles)
          BY <4>1 DEF FileFields
        <4> QED
          BY <4>1, <4>2, <4>3
      <3> DEFINE dep == tax[h].depends_on
      <3>2. tax'[h].depends_on = IF both /\ h = f THEN Append(dep, g) ELSE dep
        BY <1>6, <3>1
      <3>3. CASE both /\ h = f
        <4>1. g \in TaxFiles /\ IsFile(g)
          BY <1>5, <3>3
        <4>2. tax'[h].depends_on[i] = g \/ \E j \in 1 .. Len(dep) : tax'[h].depends_on[i] = dep[j]
          <5> DEFINE new == tax'[h].depends_on
          <5>1. new = Append(dep, g) /\ dep \in Seq(TaxFiles) /\ i \in 1 .. Len(new)
            BY <2>1, <3>1, <3>2, <3>3
          <5> HIDE DEF new, dep
          <5>2. new[i] = g \/ \E j \in 1 .. Len(dep) : new[i] = dep[j]
            BY <5>1
          <5> QED
            BY <5>2 DEF new
        <4> QED
          BY <1>7, <3>1, <4>1, <4>2
      <3>4. CASE ~ (both /\ h = f)
        <4>1. tax'[h].depends_on = dep
          BY <3>2, <3>4
        <4> QED
          BY <1>7, <2>1, <3>1, <4>1
      <3> QED
        BY <3>3, <3>4
    <2>2. ASSUME NEW h \in TaxFiles, h \in DOMAIN tax, NEW k \in TaxFiles, k \in DOMAIN tax
          PROVE  /\ Times(tax'[h].depends_on, k) = Imported(h, k)'
                    /\ Times(tax'[k].depended_by, h) = Imported(h, k)'
      <3> DEFINE more == both /\ h = f /\ k = g
                 old == Imported(h, k)
      <3>1. /\ Times(tax[h].depends_on, k) = old /\ Times(tax[k].depended_by, h) = old
            /\ tax[h].depends_on \in Seq(TaxFiles) /\ tax[k].depended_by \in Seq(TaxFiles)
        <4>1. tax[h] \in FileFields /\ tax[k] \in FileFields
          BY <2>2 DEF TaxInv, NodesTyped, FileNode
        <4>2. Times(tax[h].depends_on, k) = old /\ Times(tax[k].depended_by, h) = old
          BY <2>2 DEF TaxInv, Dependencies
        <4> QED
          BY <4>1, <4>2 DEF FileFields
      <3>2. Times(tax'[h].depends_on, k) = IF more THEN old + 1 ELSE old
        <4>1. CASE both /\ h = f
          <5>1. tax'[h].depends_on = Append(tax[h].depends_on, g) /\ g \in TaxFiles
            BY <1>5, <1>6, <2>2, <4>1
          <5>2. Times(Append(tax[h].depends_on, g), k) = old + (IF g = k THEN 1 ELSE 0) /\ old \in Nat
            <6> DEFINE dep == tax[h].depends_on
            <6>1. dep \in Seq(TaxFiles)
              BY <3>1
            <6> HIDE DEF dep, old
            <6>2. Times(dep, k) \in Nat /\ Times(Append(dep, g), k) = Times(dep, k) + (IF g = k THEN 1 ELSE 0)
              BY <5>1, <6>1, TimesAppend
            <6> QED
              BY <3>1, <6>2 DEF dep
          <5> HIDE DEF old
          <5> QED
            BY <4>1, <5>1, <5>2
        <4>2. CASE ~ (both /\ h = f)
          <5>1. tax'[h].depends_on = tax[h].depends_on
            BY <1>6, <2>2, <4>2
          <5> QED
            BY <3>1, <4>2, <5>1
        <4> QED
          BY <4>1, <4>2
      <3>3. Times(tax'[k].depended_by, h) = IF more THEN old + 1 ELSE old
        <4>1. CASE both /\ k = g
          <5>1. tax'[k].depended_by = Append(tax[k].depended_by, f) /\ f \in TaxFiles
            BY <1>5, <1>6, <2>2, <4>1
          <5>2. Times(Append(tax[k].depended_by, f), h) = old + (IF f = h THEN 1 ELSE 0) /\ old \in Nat
            <6> DEFINE dep == tax[k].depended_by
            <6>1. dep \in Seq(TaxFiles)
              BY <3>1
            <6> HIDE DEF dep, old
            <6>2. Times(dep, h) \in Nat /\ Times(Append(dep, f), h) = Times(dep, h) + (IF f = h THEN 1 ELSE 0)
              BY <5>1, <6>1, TimesAppend
            <6> QED
              BY <3>1, <6>2 DEF dep
          <5> HIDE DEF old
          <5> QED
            BY <4>1, <5>1, <5>2
        <4>2. CASE ~ (both /\ k = g)
          <5>1. tax'[k].depended_by = tax[k].depended_by
            BY <1>6, <2>2, <4>2
          <5> QED
            BY <3>1, <4>2, <5>1
        <4> QED
          BY <4>1, <4>2
      <3>4. Imported(h, k)' = IF more THEN old + 1 ELSE old
        <4>1. CASE IsFile(h) /\ IsFile(k)
          <5>1. old = Times(imports, <<h, k>>) /\ Imported(h, k)' = Times(imports', <<h, k>>)
            BY <1>7, <4>1 DEF Imported
          <5>2. Times(imports', <<h, k>>) = Times(imports, <<h, k>>) + (IF <<f, g>> = <<h, k>> THEN 1 ELSE 0)
                /\ Times(imports, <<h, k>>) \in Nat
            <6> HIDE DEF Ends
            <6> QED
              BY <1>1, <1>3, TimesAppend
          <5>3. more <=> <<f, g>> = <<h, k>>
            BY <1>5, <4>1
          <5> HIDE DEF old, more
          <5> QED
            BY <5>1, <5>2, <5>3
        <4>2. CASE ~ (IsFile(h) /\ IsFile(k))
          <5>1. old = 0 /\ Imported(h, k)' = 0 /\ ~ more
            BY <1>5, <1>7, <4>2 DEF Imported
          <5> QED
            BY <5>1
        <4> QED
          BY <4>1, <4>2
      <3> QED
        BY <3>2, <3>3, <3>4
    <2> QED
      BY <1>3, <1>6, <2>1, <2>2 DEF Dependencies, IsFile
  <1> QED
    BY <1>2, <1>8, <1>9, <1>10, <1>11 DEF TaxInv, Registered

(* Every pass keeps what was built,                                         *)
LEMMA TaxNext == TaxInv /\ T!Next => TaxInv'
  BY DomainsKeep, SubdomainsKeep, FilesKeep, ConcernsKeep, RegisterKeeps, LinkKeep, BuildKeep DEF T!Next

(* as the other parts do,                                                   *)
LEMMA TaxSame == TaxInv /\ UNCHANGED <<pass, tax, under, imports, registry>> => TaxInv'
  <1> SUFFICES ASSUME TaxInv, UNCHANGED <<pass, tax, under, imports, registry>> PROVE TaxInv'
    OBVIOUS
  <1>1. pass' = pass /\ tax' = tax /\ under' = under /\ imports' = imports /\ registry' = registry
    OBVIOUS
  <1> QED
    BY <1>1 DEF TaxInv, NodesTyped, Passes, Dependencies, Linked, Registered, Imported, IsFile

(* Where the chains of a file lead.                                         *)
LEMMA ChainLeads ==
  ASSUME NEW entry, NEW f \in TaxFiles, FileNode(entry, f, under)
  PROVE  \E d \in Tops :
           /\ Head(entry.depth_chain) = d /\ T!Last(entry.depth_chain) = f
              /\ T!Last(entry.ancestors_chain) = d
           /\ \A i \in 1 .. Len(entry.depth_chain) - 1 : <<entry.depth_chain[i], entry.depth_chain[i + 1]>> \in under
  <1>1. PICK d \in Tops :
          \/ entry.depth_chain = <<d, f>> /\ entry.ancestors_chain = <<f, d>> /\ <<d, f>> \in under
          \/ \E s \in Subdomains : /\ entry.depth_chain = <<d, s, f>> /\ entry.ancestors_chain = <<f, s, d>>
                                   /\ <<d, s>> \in under /\ <<s, f>> \in under
    BY DEF FileNode, Chained
  <1>2. CASE entry.depth_chain = <<d, f>> /\ entry.ancestors_chain = <<f, d>> /\ <<d, f>> \in under
    <2> DEFINE way == entry.depth_chain
    <2>1. Len(way) = 2 /\ way[1] = d /\ way[2] = f /\ Head(way) = d
      BY <1>2
    <2>2. T!Last(way) = f /\ T!Last(entry.ancestors_chain) = d
      BY <1>2 DEF T!Last
    <2>3. \A i \in 1 .. Len(way) - 1 : <<way[i], way[i + 1]>> \in under
      <3>1. \A i \in 1 .. 2 - 1 : i = 1
        OBVIOUS
      <3> HIDE DEF way
      <3> QED
        BY <1>2, <2>1, <3>1
    <2> QED
      BY <2>1, <2>2, <2>3
  <1>3. ASSUME NEW s \in Subdomains, entry.depth_chain = <<d, s, f>>, entry.ancestors_chain = <<f, s, d>>,
               <<d, s>> \in under, <<s, f>> \in under
        PROVE  /\ Head(entry.depth_chain) = d /\ T!Last(entry.depth_chain) = f
                  /\ T!Last(entry.ancestors_chain) = d
               /\ \A i \in 1 .. Len(entry.depth_chain) - 1 : <<entry.depth_chain[i], entry.depth_chain[i + 1]>> \in under
    <2> DEFINE way == entry.depth_chain
    <2>1. Len(way) = 3 /\ way[1] = d /\ way[2] = s /\ way[3] = f /\ Head(way) = d
      BY <1>3
    <2>2. T!Last(way) = f /\ T!Last(entry.ancestors_chain) = d
      BY <1>3 DEF T!Last
    <2>3. \A i \in 1 .. Len(way) - 1 : <<way[i], way[i + 1]>> \in under
      <3>1. \A i \in 1 .. 3 - 1 : (i = 1 /\ i + 1 = 2) \/ (i = 2 /\ i + 1 = 3)
        OBVIOUS
      <3> HIDE DEF way
      <3> QED
        BY <1>3, <2>1, <3>1
    <2> QED
      BY <2>1, <2>2, <2>3
  <1> QED
    BY <1>1, <1>2, <1>3

(* and when all is built, that gives what the run checks.                   *)
LEMMA TaxRight == TaxInv => T!TaxonomyWhole
  <1> SUFFICES ASSUME TaxInv, pass = "done" PROVE T!TaxonomyWhole
    BY DEF T!TaxonomyWhole
  <1>1. /\ T!Stubbed = {f \in TaxFiles : f \in DOMAIN tax}
        /\ T!OfType("concern") = {c \in Concerns : c \in DOMAIN tax}
        /\ T!OfType("file") = {f \in TaxFiles : IsFile(f)}
    BY TypesAre DEF TaxInv
  <1>2. \A f \in T!Stubbed : f \in TaxFiles /\ f \in DOMAIN tax /\ FileNode(tax[f], f, under)
    BY <1>1 DEF TaxInv, NodesTyped
  <1>3. \A c \in Concerns : c \in DOMAIN tax => ConcernNode(tax[c])
    BY DEF TaxInv, NodesTyped
  <1>4. ASSUME NEW f \in T!Stubbed, NEW like
        PROVE  f \in T!FilesOf(like) <=> Head(tax[f].depth_chain) \in like
    <2>1. T!Last(tax[f].ancestors_chain) = Head(tax[f].depth_chain)
      BY <1>2, ChainLeads
    <2> QED
      BY <2>1 DEF T!FilesOf
  <1>5. ASSUME NEW f \in T!Stubbed
        PROVE  LET way == tax[f].depth_chain
               IN /\ Head(way) \in Domains \/ Head(way) \notin DOMAIN tax
                  /\ T!Last(way) = f
                  /\ \A i \in 1 .. Len(way) - 1 : <<way[i], way[i + 1]>> \in under
    <2>1. /\ Head(tax[f].depth_chain) \in Tops /\ T!Last(tax[f].depth_chain) = f
          /\ \A i \in 1 .. Len(tax[f].depth_chain) - 1 : <<tax[f].depth_chain[i], tax[f].depth_chain[i + 1]>> \in under
      BY <1>2, ChainLeads
    <2>2. \A x \in Unlisted : x \notin DOMAIN tax
      BY Apart DEF TaxInv, NodesTyped, Separate
    <2> QED
      BY <2>1, <2>2 DEF Tops
  <1>6. ASSUME NEW f \in T!Stubbed, NEW g \in T!Stubbed
        PROVE  LET times == IF {f, g} \subseteq T!OfType("file") THEN T!Count(imports, <<f, g>>) ELSE 0
               IN /\ T!Count(tax[f].depends_on, g) = times /\ T!Count(tax[g].depended_by, f) = times
                  /\ T!Count(registry, <<f, g>>) = times
    <2> DEFINE times == IF {f, g} \subseteq T!OfType("file") THEN T!Count(imports, <<f, g>>) ELSE 0
    <2>1. times = Imported(f, g)
      BY <1>1, <1>2, TaxCount DEF Imported
    <2>2. Times(tax[f].depends_on, g) = times /\ Times(tax[g].depended_by, f) = times
      BY <1>2, <2>1 DEF TaxInv, Dependencies
    <2>3. Times(registry, <<f, g>>) = times
      <3>1. Times(registry, <<f, g>>) = IF IsFile(f) THEN Times(tax[f].depends_on, g) ELSE 0
        BY <1>2 DEF TaxInv, Registered
      <3>2. ~ IsFile(f) => times = 0
        BY <2>1 DEF Imported
      <3> HIDE DEF times
      <3> QED
        BY <2>2, <3>1, <3>2
    <2> HIDE DEF times
    <2>4. T!Count(tax[f].depends_on, g) = times /\ T!Count(tax[g].depended_by, f) = times
          /\ T!Count(registry, <<f, g>>) = times
      BY <2>2, <2>3, TaxCount
    <2> QED
      BY <2>4 DEF times
  <1>7. ASSUME NEW f \in T!Stubbed, NEW like
        PROVE  LET within == {i \in DOMAIN tax[f].depends_on : Head(tax[tax[f].depends_on[i]].depth_chain) \in like}
               IN /\ f \in T!FilesOf(like) <=> Head(tax[f].depth_chain) \in like
                  /\ T!Internal(like, f) = within /\ T!External(like, f) = DOMAIN tax[f].depends_on \ within
    <2> DEFINE dep == tax[f].depends_on
    <2>1. dep \in Seq(TaxFiles)
      <3>1. tax[f] \in FileFields
        BY <1>2 DEF FileNode
      <3> QED
        BY <3>1 DEF FileFields
    <2>2. ASSUME NEW i \in DOMAIN dep PROVE dep[i] \in T!Stubbed
      <3>1. i \in 1 .. Len(dep)
        BY <2>1
      <3>2. IsFile(dep[i])
        BY <1>2, <3>1 DEF TaxInv, Dependencies
      <3>3. dep[i] \in TaxFiles
        BY <2>1, <3>1
      <3> QED
        BY <1>1, <3>2, <3>3 DEF IsFile
    <2>3. \A i \in DOMAIN dep : dep[i] \in T!FilesOf(like) <=> Head(tax[dep[i]].depth_chain) \in like
      BY <1>4, <2>2
    <2> HIDE DEF dep
    <2>4. T!Internal(like, f) = {i \in DOMAIN dep : dep[i] \in T!FilesOf(like)}
          /\ T!External(like, f) = {i \in DOMAIN dep : dep[i] \notin T!FilesOf(like)}
      BY DEF T!Internal, T!External, dep
    <2> QED
      BY <1>4, <2>3, <2>4 DEF dep
  <1>8. ASSUME NEW f \in T!Stubbed
        PROVE  \A c \in T!ToSet(tax[f].required) :
                 /\ c \in DOMAIN tax => <<c, f>> \in under
                 /\ T!Rank(T!SeverityOf(c)) <= T!Rank(T!TaskPriority(f))
                 /\ T!Rank(T!TaskPriority(f)) = T!Rank(T!CalculatePriority(f))
    <2>1. tax[f].required \in Seq(Concerns)
      <3>1. tax[f] \in FileFields
        BY <1>2 DEF FileNode
      <3> QED
        BY <3>1 DEF FileFields
    <2>2. \A c \in Concerns : T!SeverityOf(c) \in Levels
      BY <1>3 DEF T!SeverityOf, Levels, ConcernNode
    <2>3. \A c \in T!ToSet(tax[f].required) : c \in Concerns
      BY <2>1 DEF T!ToSet
    <2>4. \A c \in T!ToSet(tax[f].required) : c \in DOMAIN tax => <<c, f>> \in under
      BY <1>2, <2>3 DEF TaxInv, Linked
    <2> QED
      BY <2>1, <2>2, <2>4, Priorities
  <1>9. ASSUME NEW c \in T!OfType("concern"), NEW f \in T!Stubbed, <<c, f>> \in under
        PROVE  c \in T!ToSet(tax[f].required) \/ f \in tax[c].evidence
    BY <1>1, <1>9 DEF TaxInv, Linked
  <1>10. \A f \in T!Stubbed :
           LET way == tax[f].depth_chain IN
           /\ Head(way) \in Domains \/ Head(way) \notin DOMAIN tax
           /\ T!Last(way) = f
           /\ \A i \in 1 .. Len(way) - 1 : <<way[i], way[i + 1]>> \in under
           /\ \A g \in T!Stubbed :
                LET times == IF {f, g} \subseteq T!OfType("file") THEN T!Count(imports, <<f, g>>) ELSE 0 IN
                /\ T!Count(tax[f].depends_on, g) = times /\ T!Count(tax[g].depended_by, f) = times
                /\ T!Count(registry, <<f, g>>) = times
           /\ \A d \in Domains : \A like \in T!Like(d) :
                LET within == {i \in DOMAIN tax[f].depends_on : Head(tax[tax[f].depends_on[i]].depth_chain) \in like}
                IN /\ f \in T!FilesOf(like) <=> Head(way) \in like
                   /\ T!Internal(like, f) = within /\ T!External(like, f) = DOMAIN tax[f].depends_on \ within
           /\ \A c \in T!ToSet(tax[f].required) :
                /\ c \in DOMAIN tax => <<c, f>> \in under
                /\ T!Rank(T!SeverityOf(c)) <= T!Rank(T!TaskPriority(f))
                   /\ T!Rank(T!TaskPriority(f)) = T!Rank(T!CalculatePriority(f))
    BY <1>5, <1>6, <1>7, <1>8
  <1> QED
    BY <1>9, <1>10 DEF T!TaxonomyWhole

------------------------------------------------------------------------------
(* What the codecs, rows and taxonomy make of their data is right, for      *)
(* streams of any length in any chunks, rows of any width, and taxonomies   *)
(* of any files, imports and concerns.  An event is received as it was      *)
(* sent, whatever its chunks (encode_stream and _parse_sse_frame); a        *)
(* WebSocket header gives back the length it was written from, a mask that  *)
(* is applied twice the payload, a message its fields (encode_frame,        *)
(* decode_frame), and a message between any two ends raises or gives each   *)
(* field what it was sent with or, for one of three reasons, the default of *)
(* the target (serialize, deserialize, compression.py); a repaired row has  *)
(* all words of the row, in order, in no more cells than the table has      *)
(* columns (parsers); and the taxonomy is whole when it is built, whatever  *)
(* the parents of its folders and files (build_folder_taxonomy to           *)
(* build_dependency_registry).                                              *)
THEOREM DataIsRight == Spec => []DataRight
  <1> DEFINE Inv == /\ part = "rows" => RowsInv
                    /\ part = "taxonomy" => TaxInv
                    /\ part = "codec" => CodecInv
  <1>1. Init => Inv
    BY RowsInit, TaxInit, CodecInit DEF Init
  <1>2. Inv /\ [Next]_<<part, gVars, rVars, bVars, tVars, cVars>> => Inv'
    <2> SUFFICES ASSUME Inv, [Next]_<<part, gVars, rVars, bVars, tVars, cVars>> PROVE Inv'
      OBVIOUS
    <2>1. ASSUME part' = "rows" PROVE RowsInv'
      <3>1. CASE part = "rows" /\ R!Next
        BY <3>1, RowsNext
      <3>2. CASE UNCHANGED <<part, rVars>>
        BY <2>1, <3>2, RowsSame DEF rVars
      <3>3. (part = "rows" /\ R!Next) \/ UNCHANGED <<part, rVars>>
        BY DEF Next
      <3> QED
        BY <3>1, <3>2, <3>3
    <2>2. ASSUME part' = "taxonomy" PROVE TaxInv'
      <3>1. CASE part = "taxonomy" /\ T!Next
        BY <3>1, TaxNext
      <3>2. CASE UNCHANGED <<part, tVars>>
        BY <2>2, <3>2, TaxSame DEF tVars
      <3>3. (part = "taxonomy" /\ T!Next) \/ UNCHANGED <<part, tVars>>
        BY DEF Next
      <3> QED
        BY <3>1, <3>2, <3>3
    <2>3. ASSUME part' = "codec" PROVE CodecInv'
      <3>1. CASE part = "codec" /\ C!Next
        BY <3>1, CodecNext
      <3>2. CASE UNCHANGED <<part, cVars>>
        BY <2>3, <3>2, CodecSame DEF cVars
      <3>3. (part = "codec" /\ C!Next) \/ UNCHANGED <<part, cVars>>
        BY DEF Next
      <3> QED
        BY <3>1, <3>2, <3>3
    <2> QED
      BY <2>1, <2>2, <2>3
  <1>3. Inv => DataRight
    BY RowsRight, TaxRight, CodecRight DEF DataRight
  <1> QED
    BY <1>1, <1>2, <1>3, PTL DEF Spec
==============================================================================
