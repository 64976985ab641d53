------------------------------ MODULE EdgesProofs ------------------------------
(***************************************************************************)
(* Proofs about the outer parts of the fabric that MCEdges runs.  Each has *)
(* an inductive invariant of its own, which the steps of the others leave  *)
(* alone.                                                                  *)
(***************************************************************************)
EXTENDS MCEdges, Sequences, Integers, FiniteSetTheorems, SequenceTheorems, TLAPS

------------------------------------------------------------------------------
(* Webhooks: of two deliveries of one id that were let in, one met the      *)
(* other, or the id was cleared between them.                               *)
LetIn(d) == doing[d] \in {"handling", "accepted"}

DeliveryTypes ==
  /\ doing \in [Deliveries -> {"new", "handling"} \union W!Answers]
  /\ met \in [Deliveries -> SUBSET Deliveries]
  /\ handled \subseteq Deliveries

DeliveriesInv ==
  /\ DeliveryTypes
  /\ \A d \in Deliveries : d \in handled <=> doing[d] = "accepted"
  /\ \A w \in store : \E o \in handled : carries[o] = w
  /\ \A d \in Deliveries : doing[d] = "duplicate" => \E o \in handled : carries[o] = carries[d]
  /\ \A o \in handled : carries[o] \in store \union cleared \union {Anonymous}
  /\ \A d, o \in Deliveries : d # o /\ LetIn(d) /\ LetIn(o) /\ carries[d] = carries[o] =>
       d \in met[o] \/ o \in met[d] \/ carries[d] \in cleared \union {Anonymous}

LEMMA DeliveriesInit == W!Init => DeliveriesInv
  BY DEF W!Init, DeliveriesInv, DeliveryTypes, LetIn

LEMMA DeliveriesStep == DeliveriesInv /\ W!Next => DeliveriesInv'
  <1> SUFFICES ASSUME DeliveriesInv, W!Next PROVE DeliveriesInv'
    OBVIOUS
  <1> USE DEF DeliveriesInv, DeliveryTypes, LetIn, W!Answers
  <1>1. ASSUME NEW d \in Deliveries, W!Refuse(d) PROVE DeliveriesInv'
    BY <1>1 DEF W!Refuse, W!To
  <1>2. ASSUME NEW d \in Deliveries, W!FindDuplicate(d) PROVE DeliveriesInv'
    BY <1>2 DEF W!FindDuplicate, W!To, W!Known
  <1>3. ASSUME NEW d \in Deliveries, W!BeginHandling(d) PROVE DeliveriesInv'
    <2>1. /\ doing[d] = "new" /\ doing' = [doing EXCEPT ![d] = "handling"]
          /\ met' = [met EXCEPT ![d] = {o \in Deliveries : doing[o] = "handling"}]
          /\ UNCHANGED <<carries, store, handled, cleared>>
          /\ carries[d] = Anonymous \/ carries[d] \notin store
      BY <1>3 DEF W!BeginHandling, W!To, W!Known, W!OnLookup, W!Handling
    <2>2. ASSUME NEW o \in Deliveries, o # d, LetIn(o), carries[d] = carries[o]
          PROVE  o \in met'[d] \/ carries[d] \in cleared \union {Anonymous}
      <3>1. CASE doing[o] = "handling"
        BY <2>1, <3>1
      <3>2. CASE doing[o] = "accepted"
        BY <2>1, <2>2, <3>2
      <3> QED
        BY <2>2, <3>1, <3>2
    <2>3. \A e, o \in Deliveries : e # o /\ LetIn(e)' /\ LetIn(o)' /\ carries[e] = carries[o] =>
            e \in met'[o] \/ o \in met'[e] \/ carries[e] \in cleared \union {Anonymous}
      BY <2>1, <2>2
    <2> QED
      BY <2>1, <2>3
  <1>4. ASSUME NEW d \in Deliveries, W!Handled(d) PROVE DeliveriesInv'
    <2>1. /\ doing[d] = "handling" /\ doing' = [doing EXCEPT ![d] = "accepted"]
          /\ handled' = handled \union {d} /\ UNCHANGED <<carries, met, cleared>>
          /\ store' = IF carries[d] = Anonymous THEN store ELSE store \union {carries[d]}
      BY <1>4 DEF W!Handled, W!To, W!Record
    <2> QED
      BY <2>1
  <1>5. ASSUME NEW d \in Deliveries, W!HandlerFails(d) PROVE DeliveriesInv'
    BY <1>5 DEF W!HandlerFails, W!To
  <1>6. CASE W!Clear
    BY <1>6 DEF W!Clear
  <1> QED
    BY <1>1, <1>2, <1>3, <1>4, <1>5, <1>6 DEF W!Next, W!Deliver

LEMMA DeliveriesSafe == DeliveriesInv => WebhookInv
  BY DEF DeliveriesInv, DeliveryTypes, LetIn, WebhookInv, W!WebhookInv

LEMMA DeliveriesStill == DeliveriesInv /\ UNCHANGED wVars => DeliveriesInv'
  BY DEF wVars, DeliveriesInv, DeliveryTypes, LetIn

------------------------------------------------------------------------------
(* The life of the fabric: until it is closed, the registry has everything; *)
(* from then on one task at most has components to close, and those that    *)
(* were closed lie before them in the order of closing.                     *)
Descending(p, s) == \A i, j \in 1 .. Len(s) : i < j => p[s[i]] > p[s[j]]

LifeTypes ==
  /\ layers \in Seq(Nat) /\ closed \in Seq(Nat) /\ rest \in [F!Tasks -> Seq(Nat)]
  /\ made \in Nat /\ place \in [1 .. made -> Nat]
  /\ lost \subseteq Nat /\ dropped \subseteq Nat

ClosingType == closing \in [F!Tasks -> BOOLEAN]

NothingMade == made = 0 /\ layers = <<>> /\ lost = {} /\ dropped = {} /\ closed = <<>> /\ ~started /\ ~layersOver

InHands(r) == UNION {F!Elements(r[t]) : t \in F!Tasks}

Whole ==
  F!Elements(layers) \union F!Elements(closed) \union InHands(rest) \union lost \union dropped = 1 .. made

Apart ==
  /\ lost \intersect (dropped \union F!Elements(layers) \union F!Elements(closed)) = {}
  /\ dropped \intersect F!Elements(closed) = {}
  /\ \A t \in F!Tasks : F!Elements(rest[t]) \intersect (lost \union dropped) = {}

Ordered ==
  /\ \A i \in 1 .. Len(layers) : place[layers[i]] = i
  /\ Descending(place, closed) /\ \A t \in F!Tasks : Descending(place, rest[t])
  /\ \A t \in F!Tasks : \A i \in 1 .. Len(closed), j \in 1 .. Len(rest[t]) :
       place[closed[i]] > place[rest[t][j]]

OneCloser ==
  /\ ~layersOver => closed = <<>> /\ dropped = {} /\ \A t \in F!Tasks : rest[t] = <<>>
  /\ layersOver => layers = <<>> /\ pipes = {} /\ pipesOver
  /\ \A t \in F!Tasks : ~closing[t] => rest[t] = <<>>
  /\ \A t, u \in F!Tasks : rest[t] # <<>> /\ rest[u] # <<>> => t = u

StartedHasAll == started => ~layersOver \/ cut \/ \E t \in F!Tasks : closing[t]

LifeInv ==
  /\ LifeTypes /\ ClosingType /\ (runner = "new" => NothingMade)
  /\ Whole /\ Apart /\ Ordered /\ OneCloser /\ StartedHasAll

(* The elements of a sequence that grows, shrinks, is turned or changed.    *)
LEMMA ElementsOf ==
  ASSUME NEW s \in Seq(Nat), NEW x \in Nat
  PROVE  /\ F!Elements(Append(s, x)) = F!Elements(s) \union {x}
         /\ s # <<>> => /\ Tail(s) \in Seq(Nat) /\ Head(s) = s[1] /\ s[1] \in Nat
                        /\ F!Elements(s) = F!Elements(Tail(s)) \union {Head(s)}
         /\ \A i \in 1 .. Len(s) : /\ [s EXCEPT ![i] = x] \in Seq(Nat)
                                   /\ F!Elements([s EXCEPT ![i] = x]) \subseteq F!Elements(s) \union {x}
                                   /\ F!Elements(s) \union {x} = F!Elements([s EXCEPT ![i] = x]) \union {s[i]}
         /\ F!Elements(s) = {s[i] : i \in 1 .. Len(s)}
  <1>1. Len(s) \in Nat /\ DOMAIN s = 1 .. Len(s) /\ \A i \in 1 .. Len(s) : s[i] \in Nat
    OBVIOUS
  <1>2. F!Elements(Append(s, x)) = F!Elements(s) \union {x}
    <2> DEFINE more == Append(s, x)
    <2>1. /\ DOMAIN more = 1 .. Len(s) + 1 /\ more[Len(s) + 1] = x
          /\ \A i \in 1 .. Len(s) : more[i] = s[i]
      BY <1>1
    <2> HIDE DEF more
    <2>2. \A i \in 1 .. Len(s) + 1 : i \in 1 .. Len(s) \/ i = Len(s) + 1
      BY <1>1
    <2>3. Len(s) + 1 \in 1 .. Len(s) + 1 /\ \A i \in 1 .. Len(s) : i \in 1 .. Len(s) + 1
      BY <1>1
    <2>4. F!Elements(more) = F!Elements(s) \union {x}
      BY <1>1, <2>1, <2>2, <2>3 DEF F!Elements
    <2> QED
      BY <2>4 DEF more
  <1>3. ASSUME s # <<>>
        PROVE  /\ Tail(s) \in Seq(Nat) /\ Head(s) = s[1] /\ s[1] \in Nat
               /\ F!Elements(s) = F!Elements(Tail(s)) \union {Head(s)}
    <2>1. /\ Len(s) > 0 /\ Head(s) = s[1] /\ s[1] \in Nat /\ Tail(s) \in Seq(Nat)
          /\ DOMAIN Tail(s) = 1 .. Len(s) - 1
          /\ \A i \in 1 .. Len(s) - 1 : Tail(s)[i] = s[i + 1]
      BY <1>1, <1>3
    <2>2. \A i \in 1 .. Len(s) : s[i] = Head(s) \/ (i - 1 \in 1 .. Len(s) - 1 /\ s[i] = Tail(s)[i - 1])
      BY <1>1, <2>1
    <2> DEFINE tail == Tail(s)
    <2>3. F!Elements(s) \subseteq F!Elements(tail) \union {Head(s)}
      <3> HIDE DEF tail
      <3>1. DOMAIN tail = 1 .. Len(s) - 1
        BY <2>1 DEF tail
      <3>2. \A i \in 1 .. Len(s) : s[i] = Head(s) \/ (i - 1 \in DOMAIN tail /\ s[i] = tail[i - 1])
        BY <2>2, <3>1 DEF tail
      <3>3. \A i \in 1 .. Len(s) : s[i] \in F!Elements(tail) \union {Head(s)}
        BY <3>2 DEF F!Elements
      <3> QED
        BY <1>1, <3>3 DEF F!Elements
    <2>4. F!Elements(tail) \union {Head(s)} \subseteq F!Elements(s)
      BY <1>1, <2>1 DEF F!Elements
    <2> QED
      BY <2>1, <2>3, <2>4
  <1>4. ASSUME NEW i \in 1 .. Len(s)
        PROVE  /\ [s EXCEPT ![i] = x] \in Seq(Nat)
               /\ F!Elements([s EXCEPT ![i] = x]) \subseteq F!Elements(s) \union {x}
               /\ F!Elements(s) \union {x} = F!Elements([s EXCEPT ![i] = x]) \union {s[i]}
    BY <1>1, <1>4 DEF F!Elements
  <1>5. F!Elements(s) = {s[i] : i \in 1 .. Len(s)}
    BY <1>1 DEF F!Elements
  <1> QED
    BY <1>2, <1>3, <1>4, <1>5

LEMMA Turned ==
  ASSUME NEW s \in Seq(Nat)
  PROVE  /\ F!Reversed(s) \in Seq(Nat) /\ Len(F!Reversed(s)) = Len(s)
         /\ \A i \in 1 .. Len(s) : F!Reversed(s)[i] = s[Len(s) + 1 - i]
         /\ F!Elements(F!Reversed(s)) = F!Elements(s)
         /\ s = <<>> => F!Reversed(s) = <<>>
  <1>1. Len(s) \in Nat /\ DOMAIN s = 1 .. Len(s) /\ \A i \in 1 .. Len(s) : s[i] \in Nat
    OBVIOUS
  <1>2. F!Reversed(s) = [i \in 1 .. Len(s) |-> s[Len(s) + 1 - i]]
    BY <1>1 DEF F!Reversed
  <1>3. \A i \in 1 .. Len(s) : Len(s) + 1 - i \in 1 .. Len(s) /\ Len(s) + 1 - (Len(s) + 1 - i) = i
    BY <1>1
  <1>4. F!Reversed(s) \in Seq(Nat) /\ Len(F!Reversed(s)) = Len(s)
    BY <1>1, <1>2, <1>3
  <1>5. F!Elements(F!Reversed(s)) = F!Elements(s)
    <2>1. DOMAIN F!Reversed(s) = 1 .. Len(s) /\ \A i \in 1 .. Len(s) : F!Reversed(s)[i] = s[Len(s) + 1 - i]
      BY <1>2
    <2>2. \A i \in 1 .. Len(s) : s[i] = F!Reversed(s)[Len(s) + 1 - i]
      BY <1>3, <2>1
    <2>3. \A i \in 1 .. Len(s) : s[i] \in F!Elements(F!Reversed(s)) /\ F!Reversed(s)[i] \in F!Elements(s)
      BY <1>1, <1>3, <2>1, <2>2 DEF F!Elements
    <2> QED
      BY <1>1, <2>1, <2>3 DEF F!Elements
  <1> QED
    BY <1>2, <1>4, <1>5

LEMMA OneHand ==
  ASSUME NEW r \in [F!Tasks -> Seq(Nat)], NEW t \in F!Tasks, \A u \in F!Tasks : u # t => r[u] = <<>>
  PROVE  InHands(r) = F!Elements(r[t])
  <1>1. F!Elements(<<>>) = {}
    BY DEF F!Elements
  <1> QED
    BY <1>1 DEF InHands

(* A component is registered last, or closed next.                          *)
LEMMA Placed ==
  ASSUME NEW n \in Nat, NEW p \in [1 .. n -> Nat], NEW x \in Nat
  PROVE  /\ Append(p, x) \in [1 .. n + 1 -> Nat] /\ Append(p, x)[n + 1] = x
         /\ \A k \in 1 .. n : Append(p, x)[k] = p[k]
  <1>1. p \in Seq(Nat) /\ Len(p) = n
    OBVIOUS
  <1> DEFINE more == Append(p, x)
  <1>2. more \in Seq(Nat) /\ Len(more) = n + 1 /\ more[n + 1] = x /\ \A k \in 1 .. n : more[k] = p[k]
    BY <1>1
  <1>3. more \in [1 .. n + 1 -> Nat]
    <2> HIDE DEF more
    <2> QED
      BY <1>2
  <1> QED
    BY <1>2, <1>3

LEMMA Last ==
  ASSUME NEW n \in Nat, NEW j \in 1 .. n + 1, j \notin 1 .. n
  PROVE  j = n + 1
  OBVIOUS

LEMMA HeadMoves ==
  ASSUME NEW p, NEW c \in Seq(Nat), NEW q \in Seq(Nat), q # <<>>, Descending(p, c), Descending(p, q),
         \A i \in 1 .. Len(c), j \in 1 .. Len(q) : p[c[i]] > p[q[j]],
         \A j \in 1 .. Len(q) : p[q[j]] \in Nat
  PROVE  /\ Descending(p, Append(c, Head(q))) /\ Descending(p, Tail(q))
         /\ \A i \in 1 .. Len(Append(c, Head(q))), j \in 1 .. Len(Tail(q)) :
              p[Append(c, Head(q))[i]] > p[Tail(q)[j]]
         /\ Head(q) \notin F!Elements(Tail(q))
  <1> DEFINE more == Append(c, Head(q))
             tail == Tail(q)
  <1>1. /\ Len(q) \in Nat \ {0} /\ Len(tail) = Len(q) - 1 /\ Head(q) = q[1] /\ Len(c) \in Nat
        /\ tail \in Seq(Nat) /\ \A i \in 1 .. Len(q) - 1 : tail[i] = q[i + 1]
    OBVIOUS
  <1>2. /\ Len(more) = Len(c) + 1 /\ more[Len(c) + 1] = q[1] /\ \A i \in 1 .. Len(c) : more[i] = c[i]
    BY <1>1
  <1> HIDE DEF more, tail
  <1>3. Descending(p, tail)
    <2>1. SUFFICES ASSUME NEW i \in 1 .. Len(tail), NEW j \in 1 .. Len(tail), i < j
                   PROVE  p[tail[i]] > p[tail[j]]
      BY DEF Descending
    <2>2. i + 1 \in 1 .. Len(q) /\ j + 1 \in 1 .. Len(q) /\ i + 1 < j + 1
      BY <1>1, <2>1
    <2>3. p[q[i + 1]] > p[q[j + 1]]
      BY <2>2 DEF Descending
    <2> QED
      BY <1>1, <2>1, <2>3
  <1>4. Descending(p, more)
    <2>1. SUFFICES ASSUME NEW i \in 1 .. Len(more), NEW j \in 1 .. Len(more), i < j
                   PROVE  p[more[i]] > p[more[j]]
      BY DEF Descending
    <2>2. i \in 1 .. Len(c) /\ more[i] = c[i]
      BY <1>1, <1>2, <2>1
    <2>3. CASE j \in 1 .. Len(c)
      BY <1>2, <2>1, <2>2, <2>3 DEF Descending
    <2>4. CASE j \notin 1 .. Len(c)
      <3>1. j = Len(c) + 1
        <4>1. Len(c) \in Nat /\ j \in 1 .. Len(c) + 1
          BY <1>1, <1>2, <2>1
        <4> QED
          BY ONLY <2>4, <4>1, Last
      <3>2. more[j] = q[1] /\ 1 \in 1 .. Len(q)
        BY <1>1, <1>2, <3>1
      <3> QED
        BY <2>2, <3>2
    <2> QED
      BY <2>3, <2>4
  <1>5. ASSUME NEW i \in 1 .. Len(more), NEW j \in 1 .. Len(tail) PROVE p[more[i]] > p[tail[j]]
    <2>1. j + 1 \in 1 .. Len(q) /\ 1 \in 1 .. Len(q) /\ 1 < j + 1 /\ tail[j] = q[j + 1]
      BY <1>1, <1>5
    <2>2. CASE i \in 1 .. Len(c)
      BY <1>2, <2>1, <2>2
    <2>3. CASE i \notin 1 .. Len(c)
      <3>0. i = Len(c) + 1
        <4>1. Len(c) \in Nat /\ i \in 1 .. Len(c) + 1
          BY <1>1, <1>2, <1>5
        <4> QED
          BY ONLY <2>3, <4>1, Last
      <3>1. more[i] = q[1]
        BY <1>2, <3>0
      <3>2. p[q[1]] > p[q[j + 1]]
        BY <2>1 DEF Descending
      <3> QED
        BY <2>1, <3>1, <3>2
    <2> QED
      BY <2>2, <2>3
  <1>6. Head(q) \notin F!Elements(tail)
    <2>1. F!Elements(tail) = {tail[i] : i \in 1 .. Len(tail)}
      BY <1>1, ElementsOf
    <2>2. ASSUME NEW j \in 1 .. Len(tail), tail[j] = q[1] PROVE FALSE
      <3>1. Len(c) + 1 \in 1 .. Len(more) /\ 1 \in 1 .. Len(q)
        BY <1>1, <1>2
      <3>2. p[q[1]] > p[tail[j]] /\ p[q[1]] \in Nat
        BY <1>2, <1>5, <2>2, <3>1
      <3> QED
        BY <2>2, <3>2
    <2> QED
      BY <1>1, <2>1, <2>2
  <1> QED
    BY <1>3, <1>4, <1>5, <1>6 DEF more, tail

LEMMA LifeKept ==
  ASSUME LifeTypes, Whole, Apart, Ordered, UNCHANGED <<layers, closed, rest, made, place, lost, dropped>>
  PROVE  LifeTypes' /\ Whole' /\ Apart' /\ Ordered'
  <1>1. LifeTypes'
    BY DEF LifeTypes
  <1>2. InHands(rest') = InHands(rest)
    OBVIOUS
  <1>3. Whole'
    BY <1>2 DEF Whole
  <1>4. Apart'
    BY DEF Apart
  <1>5. Ordered'
    <2>1. \A t \in F!Tasks : Descending(place', rest'[t])
      BY DEF Ordered
    <2>2. Descending(place', closed')
      BY DEF Ordered
    <2> QED
      BY <2>1, <2>2 DEF Ordered
  <1> QED
    BY <1>1, <1>3, <1>4, <1>5

LEMMA LifeInit == F!Init => LifeInv
  <1> SUFFICES ASSUME F!Init PROVE LifeInv
    OBVIOUS
  <1> USE DEF F!Init
  <1>1. \A t \in F!Tasks : rest[t] = <<>>
    OBVIOUS
  <1>2. F!Elements(<<>>) = {}
    BY DEF F!Elements
  <1>3. InHands(rest) = {}
    BY <1>1, <1>2 DEF InHands
  <1>4. LifeTypes /\ ClosingType
    <2>1. place = [i \in 1 .. 0 |-> 0] /\ rest \in [F!Tasks -> Seq(Nat)]
      OBVIOUS
    <2>2. place \in [1 .. made -> Nat]
      BY <2>1
    <2> QED
      BY <2>1, <2>2 DEF LifeTypes, ClosingType
  <1>5. NothingMade /\ Whole /\ StartedHasAll
    BY <1>2, <1>3 DEF NothingMade, Whole, StartedHasAll
  <1>6. Apart
    BY <1>1, <1>2 DEF Apart
  <1>7. Ordered
    BY <1>1 DEF Ordered, Descending
  <1>8. OneCloser
    BY <1>1 DEF OneCloser
  <1> QED
    BY <1>4, <1>5, <1>6, <1>7, <1>8 DEF LifeInv

LEMMA LifeStep == LifeInv /\ F!Next => LifeInv'
  <1> SUFFICES ASSUME LifeInv, F!Next PROVE LifeInv'
    OBVIOUS
  <1>t. LifeTypes /\ ClosingType /\ (runner = "new" => NothingMade) /\ Whole /\ Apart /\ Ordered /\ OneCloser /\ StartedHasAll
    BY DEF LifeInv
  <1>e. F!Elements(<<>>) = {}
    BY DEF F!Elements
  (* Steps that only start, or go on to, something. *)
  <1>s. ASSUME UNCHANGED <<layers, layersOver, pipes, pipesOver, closing, rest, made, place, F!history>>,
               runner' # "new", started' => started \/ ~layersOver
        PROVE  LifeInv'
    <2>1. UNCHANGED <<layers, layersOver, pipes, pipesOver, closing, rest, made, place, closed, lost, dropped, cut>>
      BY <1>s DEF F!history
    <2>2. LifeTypes' /\ Whole' /\ Apart' /\ Ordered'
      BY <1>t, <2>1, LifeKept
    <2>4. ClosingType' /\ OneCloser'
      BY <1>t, <2>1 DEF OneCloser, ClosingType
    <2>3. StartedHasAll'
      BY <1>t, <1>s, <2>1 DEF StartedHasAll
    <2> QED
      BY <1>s, <2>2, <2>3, <2>4 DEF LifeInv
  <1>0. F!StartClient => (started' => started \/ ~layersOver)
    BY <1>t DEF F!StartClient, F!CanStart, OneCloser
  <1>1. CASE F!Assemble
    <2>1. runner = "new" /\ NothingMade
      BY <1>1, <1>t DEF F!Assemble
    <2>2. CASE runner' = "over" /\ UNCHANGED <<layers, made, place, pipes>>
      BY <1>1, <1>s, <1>t, <2>2 DEF F!Assemble
    <2>3. CASE /\ runner' = "assembled" /\ layers' = [i \in 1 .. Built |-> i]
               /\ made' = Built /\ place' = layers' /\ pipes' = Pipes
      <3>1. UNCHANGED <<started, layersOver, pipesOver, closing, rest, closed, lost, dropped, cut>>
        BY <1>1 DEF F!Assemble, F!history
      <3>2. \A t \in F!Tasks : rest[t] = <<>>
        BY <1>t, <2>1 DEF NothingMade, OneCloser
      <3>3. LifeTypes' /\ ClosingType'
        BY <1>t, <2>1, <2>3, <3>1, EdgesAssumption DEF LifeTypes, ClosingType, NothingMade
      <3>4. F!Elements(layers') = 1 .. Built
        BY <2>3 DEF F!Elements
      <3>5. Whole'
        BY <1>e, <2>1, <2>3, <3>1, <3>2, <3>4, ZenonT(40) DEF Whole, InHands, NothingMade
      <3>6. Apart'
        BY <1>e, <2>1, <2>3, <3>1, <3>2 DEF Apart, NothingMade
      <3>7. Ordered'
        BY <2>1, <2>3, <3>1, <3>2, EdgesAssumption DEF Ordered, Descending, NothingMade
      <3>8. OneCloser'
        BY <1>t, <2>1, <3>1, <3>2 DEF OneCloser, NothingMade
      <3>9. StartedHasAll'
        BY <2>1, <3>1 DEF StartedHasAll, NothingMade
      <3> QED
        BY <2>3, <3>3, <3>5, <3>6, <3>7, <3>8, <3>9 DEF LifeInv
    <2> QED
      BY <1>1, <2>2, <2>3 DEF F!Assemble
  <1>2. CASE F!RunnerStarts
    BY <1>2, <1>0, <1>s, <1>t DEF F!RunnerStarts, F!FailStart
  <1>3. CASE F!Signal
    BY <1>3, <1>s, <1>t DEF F!Signal
  <1>4. CASE F!SkipClose
    BY <1>4, <1>s, <1>t DEF F!SkipClose
  <1>5. ASSUME NEW t \in App, F!AppStarts(t) PROVE LifeInv'
    BY <1>5, <1>0, <1>s DEF F!AppStarts
  <1>6. CASE F!RegisterLayer
    <2>1. /\ ~layersOver /\ made' = made + 1 /\ runner \notin {"new", "assembled"}
          /\ UNCHANGED <<runner, started, layersOver, pipes, pipesOver, closing, rest, closed, dropped, cut>>
      BY <1>6 DEF F!RegisterLayer
    <2>2. closed = <<>> /\ dropped = {} /\ \A t \in F!Tasks : rest[t] = <<>>
      BY <1>t, <2>1 DEF OneCloser
    <2>3. InHands(rest) = {}
      BY <1>e, <2>2 DEF InHands
    <2>4. /\ F!Elements(layers) \union lost = 1 .. made /\ lost \intersect F!Elements(layers) = {}
          /\ layers \in Seq(Nat) /\ made \in Nat /\ made' \in Nat /\ place \in [1 .. made -> Nat]
          /\ lost \subseteq Nat
      BY <1>e, <1>t, <2>1, <2>2, <2>3 DEF Whole, Apart, LifeTypes
    <2> DEFINE Registered ==
          /\ layers' \in Seq(Nat) /\ place' \in [1 .. made + 1 -> Nat] /\ lost' \subseteq Nat
          /\ F!Elements(layers') \union lost' = 1 .. made + 1
          /\ lost' \intersect F!Elements(layers') = {}
          /\ \A i \in 1 .. Len(layers') : place'[layers'[i]] = i
    <2>5. Registered
      <3>1. Len(layers) \in Nat /\ \A i \in 1 .. Len(layers) : layers[i] \in 1 .. made /\ place[layers[i]] = i
        BY <1>t, <2>4, ElementsOf DEF Ordered
      <3>2. made + 1 \notin 1 .. made /\ 1 .. made + 1 = 1 .. made \union {made + 1} /\ made + 1 \in Nat
        BY <2>4
      <3>3. CASE layers' = Append(layers, made + 1) /\ place' = Append(place, Len(layers')) /\ lost' = lost
        <4>1. layers' \in Seq(Nat) /\ Len(layers') = Len(layers) + 1 /\ layers'[Len(layers) + 1] = made + 1
              /\ \A i \in 1 .. Len(layers) : layers'[i] = layers[i]
          BY <2>4, <3>2, <3>3
        <4>2. Len(layers') \in Nat
          BY <3>1, <4>1
        <4>3. place' \in [1 .. made + 1 -> Nat] /\ place'[made + 1] = Len(layers) + 1
              /\ \A k \in 1 .. made : place'[k] = place[k]
          <5> DEFINE last == Len(layers')
                     placed == Append(place, last)
          <5>1. placed \in [1 .. made + 1 -> Nat] /\ placed[made + 1] = last
                /\ \A k \in 1 .. made : placed[k] = place[k]
            <6> HIDE DEF last
            <6>1. last \in Nat
              BY <4>2 DEF last
            <6>2. made \in Nat /\ place \in [1 .. made -> Nat]
              BY <2>4
            <6> QED
              BY ONLY <6>1, <6>2, Placed
          <5>2. place' = placed /\ last = Len(layers) + 1
            BY <3>3, <4>1
          <5> HIDE DEF last, placed
          <5> QED
            BY <5>1, <5>2
        <4>4. F!Elements(layers') = F!Elements(layers) \union {made + 1}
          BY <2>4, <3>2, <3>3, ElementsOf
        <4>5. ASSUME NEW i \in 1 .. Len(layers') PROVE place'[layers'[i]] = i
          <5>1. i = Len(layers) + 1 \/ i \in 1 .. Len(layers)
            BY <3>1, <4>1, <4>5
          <5> QED
            BY <3>1, <4>1, <4>3, <5>1
        <4>6. F!Elements(layers') \union lost' = 1 .. made + 1 /\ lost' \intersect F!Elements(layers') = {}
          BY <2>4, <3>2, <3>3, <4>4
        <4> QED
          BY <2>4, <3>3, <4>1, <4>3, <4>5, <4>6
      <3>4. ASSUME NEW i \in 1 .. Len(layers), layers' = [layers EXCEPT ![i] = made + 1],
                   place' = Append(place, i), lost' = lost \union {layers[i]}
            PROVE  Registered
        <4>1. layers' \in Seq(Nat) /\ Len(layers') = Len(layers) /\ layers'[i] = made + 1
              /\ \A j \in 1 .. Len(layers) : j # i => layers'[j] = layers[j]
          BY <2>4, <3>2, <3>4
        <4>2. i \in Nat
          BY <3>4
        <4>3. place' \in [1 .. made + 1 -> Nat] /\ place'[made + 1] = i
              /\ \A k \in 1 .. made : place'[k] = place[k]
          <5> DEFINE placed == Append(place, i)
          <5>1. placed \in [1 .. made + 1 -> Nat] /\ placed[made + 1] = i
                /\ \A k \in 1 .. made : placed[k] = place[k]
            <6>1. made \in Nat /\ place \in [1 .. made -> Nat] /\ i \in Nat
              BY <2>4, <4>2
            <6> QED
              BY ONLY <6>1, Placed
          <5>2. place' = placed
            BY <3>4
          <5> HIDE DEF placed
          <5> QED
            BY <5>1, <5>2
        <4>4. \A j \in 1 .. Len(layers') : place'[layers'[j]] = j
          BY <3>1, <3>4, <4>1, <4>3
        <4>5. /\ F!Elements(layers) \union {made + 1} = F!Elements(layers') \union {layers[i]}
              /\ F!Elements(layers') \subseteq F!Elements(layers) \union {made + 1}
          BY <2>4, <3>2, <3>4, ElementsOf
        <4>7. layers[i] \notin F!Elements(layers')
          <5>1. ASSUME NEW j \in 1 .. Len(layers) PROVE layers'[j] # layers[i]
            <6>1. CASE j = i
              BY <3>1, <3>2, <4>1, <5>1, <6>1
            <6>2. CASE j # i
              <7>1. layers'[j] = layers[j] /\ place[layers[j]] = j /\ place[layers[i]] = i
                BY <3>1, <4>1, <5>1, <6>2
              <7> QED
                BY <6>2, <7>1
            <6> QED
              BY <6>1, <6>2
          <5>2. F!Elements(layers') = {layers'[j] : j \in 1 .. Len(layers')}
            BY <4>1, ElementsOf, <3>2
          <5> QED
            BY <4>1, <5>1, <5>2
        <4>8. layers[i] \in 1 .. made /\ layers[i] \in Nat
          BY <3>1, <3>4
        <4>9. F!Elements(layers') \union lost' = 1 .. made + 1
          BY <2>4, <3>2, <3>4, <4>5, <4>8
        <4>10. lost' \intersect F!Elements(layers') = {}
          BY <2>4, <3>2, <3>4, <4>5, <4>7
        <4> QED
          BY <2>4, <3>4, <4>1, <4>3, <4>4, <4>8, <4>9, <4>10
      <3>5. \/ layers' = Append(layers, made + 1) /\ place' = Append(place, Len(layers')) /\ lost' = lost
            \/ \E i \in 1 .. Len(layers) :
                 /\ layers' = [layers EXCEPT ![i] = made + 1]
                 /\ place' = Append(place, i) /\ lost' = lost \union {layers[i]}
        BY <1>6, <2>1, <2>4 DEF F!RegisterLayer, F!Replaced
      <3> QED
        BY <3>3, <3>4, <3>5
    <2>6. LifeTypes' /\ ClosingType'
      BY <1>t, <2>1, <2>4, <2>5 DEF LifeTypes, ClosingType
    <2>7. Whole' /\ Apart'
      BY <1>e, <2>1, <2>2, <2>3, <2>5 DEF Whole, Apart
    <2>8. Ordered'
      BY <2>1, <2>2, <2>5 DEF Ordered, Descending
    <2>9. OneCloser'
      BY <1>t, <2>1, <2>2 DEF OneCloser
    <2>10. StartedHasAll'
      BY <2>1 DEF StartedHasAll
    <2> QED
      BY <2>1, <2>6, <2>7, <2>8, <2>9, <2>10 DEF LifeInv
  <1>7. ASSUME NEW p \in Pipes, F!RegisterPipe(p) PROVE LifeInv'
    <2>1. /\ ~pipesOver /\ runner \notin {"new", "assembled"}
          /\ UNCHANGED <<runner, started, layers, layersOver, pipesOver, closing, rest, made, place>>
          /\ UNCHANGED <<closed, lost, dropped, cut>>
      BY <1>7 DEF F!RegisterPipe, F!history
    <2>2. ~layersOver
      BY <1>t, <2>1 DEF OneCloser
    <2>3. LifeTypes' /\ Whole' /\ Apart' /\ Ordered'
      BY <1>t, <2>1, LifeKept
    <2>4. ClosingType' /\ OneCloser' /\ StartedHasAll'
      BY <1>t, <2>1, <2>2 DEF ClosingType, OneCloser, StartedHasAll
    <2> QED
      BY <2>1, <2>3, <2>4 DEF LifeInv
  <1>8. ASSUME NEW t \in F!Tasks, F!BeginClose(t) PROVE LifeInv'
    <2>1. /\ started /\ ~closing[t] /\ pipes' = {} /\ pipesOver' = TRUE /\ layersOver' = TRUE
          /\ rest' = [rest EXCEPT ![t] = F!Reversed(layers)] /\ layers' = <<>>
          /\ closing' = [closing EXCEPT ![t] = TRUE]
          /\ UNCHANGED <<runner, started, made, place, closed, lost, dropped, cut>>
      BY <1>8 DEF F!BeginClose, F!ClosePipes, F!TakeLayers, F!history
    <2>2. runner # "new"
      BY <1>t, <2>1 DEF NothingMade
    <2>3. rest[t] = <<>> /\ layers \in Seq(Nat) /\ rest \in [F!Tasks -> Seq(Nat)]
      BY <1>t, <1>8, <2>1 DEF OneCloser, LifeTypes
    <2> DEFINE turned == F!Reversed(layers)
    <2>4. /\ turned \in Seq(Nat) /\ Len(turned) = Len(layers) /\ F!Elements(turned) = F!Elements(layers)
          /\ \A i \in 1 .. Len(layers) : turned[i] = layers[Len(layers) + 1 - i]
          /\ layers = <<>> => turned = <<>>
      BY <2>3, Turned
    <2> HIDE DEF turned
    <2>5. rest' = [rest EXCEPT ![t] = turned] /\ rest' \in [F!Tasks -> Seq(Nat)] /\ rest'[t] = turned
      BY <2>1, <2>3, <2>4 DEF turned
    <2>6. CASE layersOver
      <3>1. layers = <<>> /\ rest' = rest
        BY <1>t, <2>3, <2>4, <2>5, <2>6 DEF OneCloser
      <3>2. LifeTypes' /\ Whole' /\ Apart' /\ Ordered'
        BY <1>t, <2>1, <3>1, LifeKept
      <3>3. OneCloser'
        <4>1. \A u \in F!Tasks : ~closing'[u] => rest'[u] = <<>>
          BY <1>t, <2>1, <2>3, <3>1 DEF OneCloser, ClosingType
        <4> QED
          BY <1>t, <2>1, <3>1, <4>1 DEF OneCloser
      <3>4. StartedHasAll'
        BY <1>t, <1>8, <2>1 DEF StartedHasAll, ClosingType
      <3> QED
        BY <1>t, <2>1, <2>2, <3>2, <3>3, <3>4 DEF LifeInv, ClosingType
    <2>7. CASE ~layersOver
      <3>1. closed = <<>> /\ dropped = {} /\ \A u \in F!Tasks : rest[u] = <<>>
        BY <1>t, <2>7 DEF OneCloser
      <3>2. \A u \in F!Tasks : u # t => rest'[u] = <<>>
        BY <2>3, <2>5, <3>1
      <3>3. InHands(rest') = F!Elements(layers) /\ InHands(rest) = {}
        BY <1>e, <2>4, <2>5, <3>1, <3>2, OneHand DEF InHands
      <3>4. LifeTypes'
        BY <1>t, <2>1, <2>5 DEF LifeTypes
      <3>11. ClosingType'
        BY <1>t, <2>1 DEF ClosingType
      <3>5. Whole'
        BY <1>e, <1>t, <2>1, <3>1, <3>3 DEF Whole
      <3>6. Apart'
        BY <1>e, <1>t, <2>1, <2>4, <2>5, <3>1, <3>2 DEF Apart
      <3>7. Descending(place, turned)
        <4>1. Len(layers) \in Nat /\ \A i \in 1 .. Len(layers) : place[layers[i]] = i
          BY <1>t, <2>3 DEF Ordered
        <4>2. \A i \in 1 .. Len(layers) : Len(layers) + 1 - i \in 1 .. Len(layers)
          BY <4>1
        <4>3. \A i \in 1 .. Len(layers) : place[turned[i]] = Len(layers) + 1 - i
          BY <2>4, <4>1, <4>2
        <4> QED
          BY <2>4, <4>1, <4>3 DEF Descending
      <3>8. Ordered'
        <4>1. \A u \in F!Tasks : rest'[u] = turned \/ rest'[u] = <<>>
          BY <2>5, <3>2
        <4>2. Descending(place, <<>>)
          BY DEF Descending
        <4>3. \A u \in F!Tasks : Descending(place', rest'[u])
          BY <2>1, <3>7, <4>1, <4>2
        <4>4. Descending(place', closed')
          BY <2>1, <3>1, <4>2
        <4> QED
          BY <2>1, <3>1, <4>3, <4>4 DEF Ordered
      <3>9. OneCloser'
        <4>1. \A u \in F!Tasks : ~closing'[u] => rest'[u] = <<>>
          BY <1>t, <2>1, <3>2 DEF ClosingType
        <4> QED
          BY <2>1, <3>2, <4>1 DEF OneCloser
      <3>10. StartedHasAll'
        BY <1>t, <1>8, <2>1 DEF StartedHasAll, ClosingType
      <3> QED
        BY <2>1, <2>2, <3>4, <3>5, <3>6, <3>8, <3>9, <3>10, <3>11 DEF LifeInv
    <2> QED
      BY <2>6, <2>7
  <1>9. ASSUME NEW t \in F!Tasks, F!CloseNext(t) PROVE LifeInv'
    <2>1. /\ closing[t] /\ rest[t] # <<>>
          /\ closed' = Append(closed, Head(rest[t])) /\ rest' = [rest EXCEPT ![t] = Tail(rest[t])]
          /\ UNCHANGED <<runner, started, layers, layersOver, pipes, pipesOver, closing, made, place, lost, dropped, cut>>
      BY <1>9 DEF F!CloseNext
    <2> DEFINE q == rest[t]
               more == Append(closed, Head(q))
    <2>2. q \in Seq(Nat) /\ q # <<>> /\ rest \in [F!Tasks -> Seq(Nat)] /\ closed \in Seq(Nat)
      BY <1>t, <2>1 DEF LifeTypes
    <2>3. /\ Tail(q) \in Seq(Nat) /\ Head(q) = q[1] /\ q[1] \in Nat
          /\ F!Elements(q) = F!Elements(Tail(q)) \union {q[1]}
          /\ F!Elements(more) = F!Elements(closed) \union {q[1]}
      BY <2>2, ElementsOf
    <2>4. /\ Len(q) \in Nat \ {0} /\ Len(Tail(q)) = Len(q) - 1
          /\ \A i \in 1 .. Len(q) - 1 : Tail(q)[i] = q[i + 1] /\ i + 1 \in 1 .. Len(q)
      BY <2>2
    <2>5. /\ more \in Seq(Nat) /\ Len(more) = Len(closed) + 1 /\ Len(closed) \in Nat
          /\ more[Len(closed) + 1] = q[1] /\ \A i \in 1 .. Len(closed) : more[i] = closed[i]
      BY <2>2, <2>3
    <2>6. \A u \in F!Tasks : u # t => rest[u] = <<>> /\ rest'[u] = <<>>
      BY <1>t, <2>1, <2>2 DEF OneCloser
    <2>7. rest'[t] = Tail(q) /\ rest' \in [F!Tasks -> Seq(Nat)] /\ closed' = more
      BY <2>1, <2>2, <2>3
    <2>9. layersOver /\ layers = <<>>
      BY <1>t, <2>1 DEF OneCloser
    <2>8. InHands(rest) = F!Elements(q)
      BY <1>9, <2>2, <2>6, OneHand
    <2>10. /\ Descending(place, Tail(q)) /\ Descending(place, more)
           /\ \A i \in 1 .. Len(more), j \in 1 .. Len(Tail(q)) : place[more[i]] > place[Tail(q)[j]]
           /\ q[1] \notin F!Elements(Tail(q))
      <3>1. \A i \in 1 .. Len(q) : q[i] \in 1 .. made
        <4>1. F!Elements(q) \subseteq 1 .. made
          BY <1>t, <2>8 DEF Whole
        <4>2. F!Elements(q) = {q[i] : i \in 1 .. Len(q)}
          BY <2>2, <2>3, ElementsOf
        <4> QED
          BY <4>1, <4>2
      <3>2. \A i \in 1 .. Len(q) : place[q[i]] \in Nat
        BY <1>t, <3>1 DEF LifeTypes
      <3>3. /\ Descending(place, q) /\ Descending(place, closed)
            /\ \A i \in 1 .. Len(closed), j \in 1 .. Len(q) : place[closed[i]] > place[q[j]]
        BY <1>t, <1>9 DEF Ordered
      <3> HIDE DEF q
      <3> QED
        BY <2>2, <2>3, <3>2, <3>3, HeadMoves
    <2> DEFINE tail == Tail(q)
    <2> HIDE DEF q, more, tail
    <2>12. InHands(rest') = F!Elements(tail)
      BY <1>9, <2>6, <2>7, OneHand DEF q, tail
    <2>13. F!Elements(tail) \subseteq F!Elements(q) /\ F!Elements(q) = F!Elements(tail) \union {q[1]}
      BY <2>3 DEF tail
    <2>14. LifeTypes' /\ ClosingType'
      BY <1>t, <2>1, <2>5, <2>7 DEF LifeTypes, ClosingType
    <2>15. Whole'
      <3>1. F!Elements(closed') = F!Elements(closed) \union {q[1]}
        BY <2>3, <2>7
      <3> QED
        BY <1>t, <2>1, <2>8, <2>12, <2>13, <3>1 DEF Whole
    <2>16. Apart'
      <3>1. F!Elements(q) \intersect (lost \union dropped) = {}
        BY <1>t, <1>9 DEF Apart, q
      <3>2. \A u \in F!Tasks : F!Elements(rest'[u]) \intersect (lost \union dropped) = {}
        BY <1>e, <2>6, <2>7, <2>13, <3>1 DEF tail
      <3> QED
        BY <1>t, <2>1, <2>3, <2>7, <2>13, <3>1, <3>2 DEF Apart
    <2>17. Ordered'
      <3>1. rest'[t] = tail /\ \A u \in F!Tasks : u # t => rest'[u] = <<>>
        BY <2>6, <2>7 DEF tail
      <3>2. Descending(place, <<>>)
        BY DEF Descending
      <3>3. \A u \in F!Tasks : Descending(place', rest'[u])
        BY <2>1, <2>10, <3>1, <3>2 DEF tail
      <3>4. ASSUME NEW u \in F!Tasks, NEW i \in 1 .. Len(more), NEW j \in 1 .. Len(rest'[u])
            PROVE  place[more[i]] > place[rest'[u][j]]
        <4>1. CASE u = t
          <5>1. j \in 1 .. Len(tail) /\ rest'[u][j] = tail[j]
            BY <3>1, <3>4, <4>1
          <5> QED
            BY <2>10, <3>4, <5>1 DEF tail
        <4>2. CASE u # t
          BY <3>1, <3>4, <4>2
        <4> QED
          BY <4>1, <4>2
      <3>5. \A i \in 1 .. Len(layers') : place'[layers'[i]] = i
        BY <2>1, <2>9
      <3>6. Descending(place', closed')
        BY <2>1, <2>7, <2>10
      <3>7. \A u \in F!Tasks : \A i \in 1 .. Len(closed'), j \in 1 .. Len(rest'[u]) :
              place'[closed'[i]] > place'[rest'[u][j]]
        BY <2>1, <2>7, <3>4
      <3> QED
        BY <3>3, <3>5, <3>6, <3>7 DEF Ordered
    <2>18. OneCloser'
      <3>1. \A u \in F!Tasks : ~closing'[u] => rest'[u] = <<>>
        BY <2>1, <2>6
      <3> QED
        BY <1>t, <2>1, <2>6, <2>9, <3>1 DEF OneCloser
    <2>19. StartedHasAll'
      BY <1>t, <2>1 DEF StartedHasAll
    <2>20. runner' # "new"
      BY <1>t, <2>1, <2>9 DEF NothingMade
    <2> QED
      BY <2>14, <2>15, <2>16, <2>17, <2>18, <2>19, <2>20 DEF LifeInv
  <1>10. ASSUME NEW t \in F!Tasks, F!EndClose(t) PROVE LifeInv'
    <2>1. /\ closing[t] /\ rest[t] = <<>> /\ started' = FALSE /\ closing' = [closing EXCEPT ![t] = FALSE]
          /\ runner' \in {"over", runner}
          /\ UNCHANGED <<layers, layersOver, pipes, pipesOver, rest, made, place, closed, lost, dropped, cut>>
      BY <1>10 DEF F!EndClose, F!Leave, F!history
    <2>2. LifeTypes' /\ Whole' /\ Apart' /\ Ordered'
      BY <1>t, <2>1, LifeKept
    <2>5. ClosingType'
      BY <1>t, <2>1 DEF ClosingType
    <2>3. OneCloser'
      <3>1. \A u \in F!Tasks : ~closing'[u] => rest'[u] = <<>>
        BY <1>t, <2>1 DEF OneCloser, ClosingType
      <3> QED
        BY <1>t, <2>1, <3>1 DEF OneCloser
    <2>4. StartedHasAll' /\ (runner' = "new" => NothingMade')
      BY <1>t, <2>1 DEF StartedHasAll, NothingMade
    <2> QED
      BY <2>2, <2>3, <2>4, <2>5 DEF LifeInv
  <1>11. ASSUME NEW t \in F!Tasks, F!CancelClose(t) PROVE LifeInv'
    <2>1. /\ closing[t] /\ cut' = TRUE /\ closing' = [closing EXCEPT ![t] = FALSE]
          /\ runner' \in {"over", runner}
          /\ dropped' = dropped \union F!Elements(rest[t]) /\ rest' = [rest EXCEPT ![t] = <<>>]
          /\ UNCHANGED <<started, layers, layersOver, pipes, pipesOver, closed, made, place, lost>>
      BY <1>11 DEF F!CancelClose, F!Leave
    <2>2. rest \in [F!Tasks -> Seq(Nat)] /\ rest[t] \in Seq(Nat) /\ closed \in Seq(Nat)
      BY <1>t, <1>11 DEF LifeTypes
    <2>3. rest'[t] = <<>> /\ \A u \in F!Tasks : u # t => rest'[u] = rest[u]
      BY <2>1, <2>2
    <2>4. F!Elements(rest[t]) \subseteq Nat
      BY <2>2, ElementsOf
    <2>5. LifeTypes' /\ ClosingType'
      <3>0. <<>> \in Seq(Nat)
        OBVIOUS
      <3>1. rest' \in [F!Tasks -> Seq(Nat)]
        BY <2>1, <2>2, <3>0
      <3>2. dropped' \subseteq Nat
        BY <1>t, <2>1, <2>4 DEF LifeTypes
      <3> QED
        BY <1>t, <2>1, <3>1, <3>2 DEF LifeTypes, ClosingType
    <2>6. InHands(rest) = InHands(rest') \union F!Elements(rest[t])
      BY <1>e, <1>11, <2>1, <2>2, <2>3 DEF InHands
    <2>7. Whole'
      BY <1>t, <2>1, <2>6 DEF Whole
    <2>8. Apart'
      <3>1. /\ F!Elements(rest[t]) \intersect (lost \union dropped) = {}
            /\ \A u \in F!Tasks : F!Elements(rest'[u]) \intersect (lost \union dropped) = {}
        BY <1>e, <1>t, <1>11, <2>3 DEF Apart
      <3>2. F!Elements(rest[t]) \intersect F!Elements(closed) = {}
        <4>1. \A i \in 1 .. Len(closed), j \in 1 .. Len(rest[t]) :
                 place[closed[i]] > place[rest[t][j]]
          BY <1>t, <1>11 DEF Ordered
        <4>2. \A i \in 1 .. Len(closed), j \in 1 .. Len(rest[t]) : closed[i] # rest[t][j]
          <5>1. \A i \in 1 .. Len(closed) : place[closed[i]] \in Nat
            <6>1. \A i \in 1 .. Len(closed) : closed[i] \in F!Elements(closed)
              BY <2>2, ElementsOf
            <6> QED
              BY <1>t, <6>1 DEF Whole, LifeTypes
          <5> QED
            BY <4>1, <5>1
        <4>3. /\ F!Elements(closed) = {closed[i] : i \in 1 .. Len(closed)}
              /\ F!Elements(rest[t]) = {rest[t][i] : i \in 1 .. Len(rest[t])}
          BY <2>2, ElementsOf
        <4> QED
          BY <4>2, <4>3
      <3>3. \A u \in F!Tasks : F!Elements(rest'[u]) \intersect F!Elements(rest[t]) = {}
        <4>1. \A u \in F!Tasks : rest'[u] # <<>> => rest[t] = <<>>
          BY <1>t, <1>11, <2>3 DEF OneCloser
        <4> QED
          BY <1>e, <4>1
      <3> QED
        BY <1>t, <2>1, <3>1, <3>2, <3>3 DEF Apart
    <2>9. Ordered'
      <3>1. Descending(place, <<>>)
        BY DEF Descending
      <3>2. \A u \in F!Tasks : Descending(place', rest'[u])
        BY <1>t, <2>1, <2>3, <3>1 DEF Ordered
      <3> QED
        BY <1>t, <2>1, <2>3, <3>2 DEF Ordered
    <2>12. ~layersOver => dropped' = {}
      BY <1>e, <1>t, <1>11, <2>1 DEF OneCloser
    <2>10. OneCloser'
      <3>1. \A u \in F!Tasks : ~closing'[u] => rest'[u] = <<>>
        BY <1>t, <2>1, <2>3 DEF OneCloser, ClosingType
      <3> QED
        BY <1>t, <2>1, <2>3, <2>12, <3>1 DEF OneCloser
    <2>11. StartedHasAll' /\ (runner' = "new" => NothingMade')
      BY <1>t, <2>1, <2>12 DEF StartedHasAll, NothingMade
    <2> QED
      BY <2>5, <2>7, <2>8, <2>9, <2>10, <2>11 DEF LifeInv
  <1> QED
    BY <1>1, <1>2, <1>3, <1>4, <1>5, <1>6, <1>7, <1>8, <1>9, <1>10, <1>11 DEF F!Next

LEMMA LifeSafe == LifeInv => ShutdownInv
  <1> SUFFICES ASSUME LifeInv PROVE ShutdownInv
    OBVIOUS
  <1>t. LifeTypes /\ Whole /\ Apart /\ Ordered /\ OneCloser /\ StartedHasAll
    BY DEF LifeInv
  <1>e. F!Elements(<<>>) = {}
    BY DEF F!Elements
  <1> DEFINE hands == {F!Elements(rest[t]) : t \in F!Tasks}
             holders == {F!Elements(layers), F!Elements(closed), lost, dropped} \union hands
  <1>1. UNION holders = 1 .. made
    BY <1>t DEF Whole, InHands
  <1>2. F!Elements(layers) \intersect (F!Elements(closed) \union dropped) = {}
    BY <1>e, <1>t DEF OneCloser, LifeTypes
  <1>3. \A t \in F!Tasks : F!Elements(rest[t]) \intersect F!Elements(layers) = {}
    BY <1>e, <1>t DEF OneCloser, LifeTypes
  <1>4. \A t \in F!Tasks : F!Elements(rest[t]) \intersect F!Elements(closed) = {}
    <2> TAKE t \in F!Tasks
    <2>1. rest[t] \in Seq(Nat) /\ closed \in Seq(Nat)
      BY <1>t DEF LifeTypes
    <2>2. \A i \in 1 .. Len(closed) : closed[i] \in 1 .. made
      BY <1>t, <2>1, ElementsOf DEF Whole
    <2>3. \A i \in 1 .. Len(closed), j \in 1 .. Len(rest[t]) : closed[i] # rest[t][j]
      BY <1>t, <2>2 DEF Ordered, LifeTypes
    <2>4. /\ F!Elements(closed) = {closed[i] : i \in 1 .. Len(closed)}
          /\ F!Elements(rest[t]) = {rest[t][i] : i \in 1 .. Len(rest[t])}
      BY <2>1, ElementsOf
    <2> QED
      BY <2>3, <2>4
  <1>5. \A t, u \in F!Tasks : t # u => F!Elements(rest[t]) \intersect F!Elements(rest[u]) = {}
    BY <1>e, <1>t DEF OneCloser
  <1>6. \A a, b \in holders : a # b => a \intersect b = {}
    <2>1. ASSUME NEW a \in {F!Elements(layers), F!Elements(closed), lost, dropped},
                 NEW b \in {F!Elements(layers), F!Elements(closed), lost, dropped}, a # b
          PROVE  a \intersect b = {}
      BY <1>2, <1>t, <2>1 DEF Apart
    <2>2. ASSUME NEW a \in {F!Elements(layers), F!Elements(closed), lost, dropped}, NEW b \in hands
          PROVE  a \intersect b = {}
      BY <1>3, <1>4, <1>t, <2>2 DEF Apart
    <2>3. ASSUME NEW a \in hands, NEW b \in hands, a # b PROVE a \intersect b = {}
      BY <1>5, <2>3
    <2> HIDE DEF hands
    <2> QED
      BY <2>1, <2>2, <2>3
  <1>7. \A i, j \in DOMAIN closed : i < j => place[closed[i]] > place[closed[j]]
    <2>1. DOMAIN closed = 1 .. Len(closed)
      BY <1>t DEF LifeTypes
    <2> QED
      BY <1>t, <2>1 DEF Ordered, Descending
  <1>8. layersOver => pipes = {} /\ pipesOver
    BY <1>t DEF OneCloser
  <1>9. started => ~layersOver \/ cut \/ \E t \in F!Tasks : closing[t]
    BY <1>t DEF StartedHasAll
  <1> HIDE DEF hands
  <1> QED
    BY <1>1, <1>6, <1>7, <1>8, <1>9 DEF ShutdownInv, F!ShutdownInv, hands

LEMMA LifeStill == LifeInv /\ UNCHANGED fVars => LifeInv'
  <1> SUFFICES ASSUME LifeInv, UNCHANGED fVars PROVE LifeInv'
    OBVIOUS
  <1>1. UNCHANGED <<runner, started, layers, layersOver, pipes, pipesOver, closing, rest, closed, made, place,
                    lost, dropped, cut>>
    BY DEF fVars
  <1>2. LifeTypes' /\ Whole' /\ Apart' /\ Ordered'
    BY <1>1, LifeKept DEF LifeInv
  <1>3. ClosingType' /\ (runner' = "new" => NothingMade') /\ OneCloser' /\ StartedHasAll'
    BY <1>1 DEF LifeInv, ClosingType, NothingMade, OneCloser, StartedHasAll
  <1> QED
    BY <1>2, <1>3 DEF LifeInv

------------------------------------------------------------------------------
(* Streams: what came was yielded, each in its turn, but for a rest.        *)
StreamInv ==
  /\ came \in Seq(C!Chunks) /\ got \in Seq(Nat) /\ (ends # "raised" => ~broke)
  /\ \A j \in DOMAIN got : got[j] <= Len(came)
  /\ \A j, k \in DOMAIN got : j < k => got[j] < got[k]
  /\ client # "http" => \A i \in DOMAIN came : came[i] \notin C!CutPieces
  /\ ends # "raised" /\ client # "graphql" =>
       /\ \A i \in DOMAIN came : came[i] = "rest" \/ \E j \in DOMAIN got : got[j] = i
       /\ (\A i \in DOMAIN came : came[i] \notin C!CutPieces) => got = [i \in 1 .. Len(came) |-> i]

LEMMA StreamInit == C!Init => StreamInv
  BY DEF C!Init, StreamInv

LEMMA StreamStep == StreamInv /\ C!Next => StreamInv'
  <1> SUFFICES ASSUME StreamInv, C!Next PROVE StreamInv'
    OBVIOUS
  <1>t. came \in Seq(C!Chunks) /\ got \in Seq(Nat) /\ Len(came) \in Nat
    BY DEF StreamInv
  <1>1. ASSUME NEW kind \in C!Chunks, C!Chunk(kind) PROVE StreamInv'
    <2>0. PICK does \in C!OnChunk(client, kind) :
            /\ got' = IF does = "yield" THEN Append(got, Len(came) + 1) ELSE got
            /\ ends' = IF does = "raise" THEN "raised" ELSE ends
      BY <1>1 DEF C!Chunk
    <2>1. /\ came' = Append(came, kind) /\ broke' = broke /\ client' = client /\ ends = "open"
          /\ kind \in C!CutPieces => client = "http"
      BY <1>1 DEF C!Chunk, C!MayFollow
    <2>2. /\ came' \in Seq(C!Chunks) /\ got' \in Seq(Nat)
          /\ Len(came') = Len(came) + 1 /\ DOMAIN came' = 1 .. Len(came) + 1 /\ DOMAIN came = 1 .. Len(came)
          /\ came'[Len(came) + 1] = kind /\ \A i \in DOMAIN came : came'[i] = came[i]
      BY <1>t, <2>0, <2>1
    <2>3. ~broke'
      BY <2>1 DEF StreamInv
    <2>4. (\A j \in DOMAIN got' : got'[j] <= Len(came')) /\ (\A j, k \in DOMAIN got' : j < k => got'[j] < got'[k])
      <3>1. CASE does = "yield"
        <4>1. /\ DOMAIN got = 1 .. Len(got) /\ DOMAIN got' = 1 .. Len(got) + 1 /\ Len(got) \in Nat
              /\ got'[Len(got) + 1] = Len(came) + 1 /\ \A j \in DOMAIN got : got'[j] = got[j] /\ got[j] \in Nat
          BY <1>t, <2>0, <3>1
        <4>2. (\A j \in DOMAIN got : got[j] <= Len(came)) /\ (\A j, k \in DOMAIN got : j < k => got[j] < got[k])
          BY DEF StreamInv
        <4>3. \A j \in DOMAIN got' : got'[j] <= Len(came) + 1
          BY <1>t, <4>1, <4>2
        <4>4. ASSUME NEW j \in DOMAIN got', NEW k \in DOMAIN got', j < k PROVE got'[j] < got'[k]
          <5>1. j \in DOMAIN got /\ (k \in DOMAIN got \/ k = Len(got) + 1)
            BY <4>1, <4>4
          <5> QED
            BY <1>t, <4>1, <4>2, <4>4, <5>1
        <4> QED
          BY <2>2, <4>3, <4>4
      <3>2. CASE does # "yield"
        BY <1>t, <2>0, <2>2, <3>2 DEF StreamInv
      <3> QED
        BY <3>1, <3>2
    <2>5. client' # "http" => \A i \in DOMAIN came' : came'[i] \notin C!CutPieces
      <3> SUFFICES ASSUME client # "http", NEW i \in DOMAIN came' PROVE came'[i] \notin C!CutPieces
        BY <2>1
      <3>1. kind \notin C!CutPieces /\ \A n \in DOMAIN came : came[n] \notin C!CutPieces
        BY <2>1 DEF StreamInv
      <3>2. i \in DOMAIN came \/ i = Len(came) + 1
        BY <1>t, <2>2
      <3> QED
        BY <2>2, <3>1, <3>2
    <2>6. ASSUME ends' # "raised", client' # "graphql"
          PROVE  /\ \A i \in DOMAIN came' : came'[i] = "rest" \/ \E j \in DOMAIN got' : got'[j] = i
                 /\ (\A i \in DOMAIN came' : came'[i] \notin C!CutPieces) => got' = [i \in 1 .. Len(came') |-> i]
      <3>1. does = "yield" \/ (does = "skip" /\ kind = "rest")
        BY <1>1, <2>0, <2>1, <2>6 DEF C!OnChunk, C!OnHttp
      <3>2. /\ \A i \in DOMAIN came : came[i] = "rest" \/ \E j \in DOMAIN got : got[j] = i
            /\ (\A i \in DOMAIN came : came[i] \notin C!CutPieces) => got = [i \in 1 .. Len(came) |-> i]
        BY <2>1, <2>6 DEF StreamInv
      <3>3. CASE does = "yield"
        <4>1. /\ got' = Append(got, Len(came) + 1) /\ DOMAIN got \subseteq DOMAIN got'
              /\ Len(got) + 1 \in DOMAIN got' /\ got'[Len(got) + 1] = Len(came) + 1
              /\ \A j \in DOMAIN got : got'[j] = got[j]
          BY <1>t, <2>0, <3>3
        <4>2. \A i \in DOMAIN came' : came'[i] = "rest" \/ \E j \in DOMAIN got' : got'[j] = i
          BY <1>t, <2>2, <3>2, <4>1
        <4>3. ASSUME \A i \in DOMAIN came' : came'[i] \notin C!CutPieces
              PROVE  got' = [i \in 1 .. Len(came') |-> i]
          <5>1. got = [i \in 1 .. Len(came) |-> i]
            BY <1>t, <2>2, <3>2, <4>3
          <5> QED
            BY <1>t, <2>2, <4>1, <5>1
        <4> QED
          BY <4>2, <4>3
      <3>4. CASE does = "skip" /\ kind = "rest"
        <4>1. got' = got /\ kind \in C!CutPieces /\ came'[Len(came) + 1] = "rest" /\ Len(came) + 1 \in DOMAIN came'
          BY <1>t, <2>0, <2>2, <3>4 DEF C!CutPieces
        <4> QED
          BY <1>t, <2>2, <3>2, <3>4, <4>1
      <3> QED
        BY <3>1, <3>3, <3>4
    <2> QED
      BY <2>1, <2>2, <2>3, <2>4, <2>5, <2>6 DEF StreamInv
  <1>2. ASSUME NEW how \in {"quiet", "raised"}, C!End(how) PROVE StreamInv'
    <2>1. ends' = how /\ ends = "open" /\ UNCHANGED <<client, came, got>>
      BY <1>2 DEF C!End, C!EndsAs
    <2>2. how # "raised" => ~broke'
      BY <1>2 DEF C!End
    <2> QED
      BY <2>1, <2>2 DEF StreamInv
  <1> QED
    BY <1>1, <1>2 DEF C!Next

LEMMA StreamSafe == StreamInv => C!QuietMeansWhole
  <1> SUFFICES ASSUME StreamInv, ends = "quiet", client # "graphql"
               PROVE  /\ \A i \in DOMAIN came \ C!Given : came[i] = "rest"
                      /\ client = "http" \/ got = [i \in 1 .. Len(came) |-> i]
    BY DEF StreamInv, C!QuietMeansWhole
  <1>1. \A i \in DOMAIN came \ C!Given : came[i] = "rest"
    BY DEF StreamInv, C!Given
  <1>2. client = "http" \/ got = [i \in 1 .. Len(came) |-> i]
    BY DEF StreamInv
  <1> QED
    BY <1>1, <1>2

LEMMA StreamStill == StreamInv /\ UNCHANGED cVars => StreamInv'
  BY DEF cVars, StreamInv

------------------------------------------------------------------------------
(* Settings: a section that is no mapping gives nothing, and each component *)
(* has what was asked for.                                                  *)
Wanted == [
  pool |-> [max_size |-> B!Asked("pool_max_size"), idle_timeout |-> B!Asked("pool_idle_timeout")],
  router |-> [strategy |-> B!Strategy(B!Asked("load_balancer_strategy"))],
  registry |-> [default_ttl |-> B!Asked("default_ttl"), idle_timeout |-> B!Asked("idle_timeout"),
                eviction_interval |-> B!Asked("eviction_interval")],
  dispatcher |-> [max_failover_attempts |-> B!Asked("max_failover_attempts"),
                  failover_delay |-> B!Asked("failover_delay")],
  pipeline |-> [serializer |-> B!Serializer(B!Asked("serializer")), compressor |-> "None",
                min_compression_bytes |-> B!Asked("min_compression_bytes"),
                auto_detect_compression |-> B!Asked("auto_detect_compression")]]

Arrived ==
  /\ DOMAIN file.gives \subseteq {k \in B!Keys : file.section[B!Section(k)] = "mapping"}
  /\ step \notin {"load", "failed"} => \A k \in B!Keys : settings[k] = B!Asked(k)
  /\ \A c \in DOMAIN built : c \in DOMAIN Wanted /\ built[c] = Wanted[c]

LEMMA KeysAre ==
  /\ {"pool_max_size", "pool_idle_timeout", "load_balancer_strategy"} \subseteq B!Keys
  /\ {"default_ttl", "idle_timeout", "eviction_interval"} \subseteq B!Keys
  /\ {"max_failover_attempts", "failover_delay"} \subseteq B!Keys
  /\ {"serializer", "compressor", "min_compression_bytes", "auto_detect_compression"} \subseteq B!Keys
  <1>1. /\ B!Sections.network \subseteq B!Keys /\ B!Sections.session \subseteq B!Keys
        /\ B!Sections.presentation \subseteq B!Keys
    BY DEF B!Keys, B!Sections
  <1> QED
    BY <1>1 DEF B!Sections

LEMMA WiringInit == B!Init \/ B!Begin(B!NoFile) => Arrived
  <1>1. ASSUME B!Begin(B!NoFile) PROVE Arrived
    BY <1>1 DEF B!Begin, B!NoFile, Arrived
  <1>2. ASSUME B!Init PROVE Arrived
    <2>1. PICK form \in {"missing", "other", "mapping"},
               section \in [DOMAIN B!Sections -> {"none", "scalar", "mapping"}],
               protocols \in {"none", "null", "mapping"}, only \in B!Keys \union {"all"}, word \in B!Words :
            LET gives == {k \in B!Keys : section[B!Section(k)] = "mapping" /\ only \in {k, "all"}}
            IN B!Begin([form |-> form, section |-> section, protocols |-> protocols,
                        gives |-> [k \in gives |-> IF k \in B!Named THEN word ELSE "given"]])
      BY <1>2 DEF B!Init
    <2>2. /\ DOMAIN file.gives = {k \in B!Keys : section[B!Section(k)] = "mapping" /\ only \in {k, "all"}}
          /\ file.section = section /\ step = "load" /\ DOMAIN built = {}
      BY <2>1 DEF B!Begin
    <2> QED
      BY <2>2 DEF Arrived
  <1> QED
    BY <1>1, <1>2

LEMMA WiringStep == Arrived /\ B!Next => Arrived'
  <1> SUFFICES ASSUME Arrived, B!Next PROVE Arrived'
    OBVIOUS
  <1>f. file' = file /\ Wanted' = Wanted
    <2>1. file' = file
      BY DEF B!Next, B!LoadConfig, B!BuildPool, B!BuildRouter, B!BuildRegistry, B!BuildDispatcher,
             B!BuildPipeline
    <2> QED
      BY <2>1 DEF Wanted, B!Asked, B!Strategy, B!Serializer
  <1>s. step \notin {"load", "failed"} => \A k \in B!Keys : settings[k] = B!Asked(k)
    BY DEF Arrived
  <1>b. ASSUME step \notin {"load", "failed"}, settings' = settings, NEW c \in DOMAIN Wanted,
               B!Build(c, Wanted[c])
        PROVE  Arrived'
    <2>1. \A d \in DOMAIN built' : d \in DOMAIN Wanted /\ built'[d] = Wanted[d]
      BY <1>b DEF B!Build, Arrived
    <2> QED
      BY <1>b, <1>f, <1>s, <2>1 DEF Arrived, B!Asked
  <1>1. CASE B!LoadConfig
    <2>1. step = "load" /\ built' = built
      BY <1>1 DEF B!LoadConfig
    <2>2. step' \notin {"load", "failed"} => \A k \in B!Keys : settings'[k] = B!Asked(k)
      <3>1. CASE file.form # "mapping"
        BY <1>1, <3>1 DEF B!LoadConfig, B!Asked
      <3>2. ASSUME file.form = "mapping", step' # "failed", NEW k \in B!Keys
            PROVE  settings'[k] = B!Asked(k)
        <4>1. settings'[k] = IF file.section[B!Section(k)] = "mapping" THEN B!Given(k) ELSE B!Dataclass[k]
          BY <1>1, <3>2 DEF B!LoadConfig
        <4>2. B!Loader = B!Dataclass
          BY DEF B!Loader, B!Dataclass
        <4>3. k \in DOMAIN file.gives => file.section[B!Section(k)] = "mapping"
          BY DEF Arrived
        <4> QED
          BY <3>2, <4>1, <4>2, <4>3 DEF B!Given, B!Asked
      <3> QED
        BY <3>1, <3>2
    <2> QED
      BY <1>f, <2>1, <2>2 DEF Arrived, B!Asked
  <1>2. CASE B!BuildPool
    <2>1. step = "pool" /\ settings' = settings /\ B!Build("pool", B!PoolSettings)
      BY <1>2 DEF B!BuildPool
    <2>2. B!PoolSettings = Wanted["pool"]
      BY <1>s, <2>1, KeysAre DEF B!PoolSettings, Wanted
    <2>3. "pool" \in DOMAIN Wanted
      BY DEF Wanted
    <2> QED
      BY <1>b, <2>1, <2>2, <2>3
  <1>3. CASE B!BuildRouter
    <2>1. /\ step = "router" /\ settings' = settings
          /\ B!Build("router", [strategy |-> B!Strategy(settings.load_balancer_strategy)])
      BY <1>3 DEF B!BuildRouter
    <2>2. [strategy |-> B!Strategy(settings.load_balancer_strategy)] = Wanted["router"]
      BY <1>s, <2>1, KeysAre DEF Wanted
    <2>3. "router" \in DOMAIN Wanted
      BY DEF Wanted
    <2> QED
      BY <1>b, <2>1, <2>2, <2>3
  <1>4. CASE B!BuildRegistry
    <2>1. step = "registry" /\ settings' = settings /\ B!Build("registry", B!RegistrySettings)
      BY <1>4 DEF B!BuildRegistry
    <2>2. B!RegistrySettings = Wanted["registry"]
      BY <1>s, <2>1, KeysAre DEF B!RegistrySettings, Wanted
    <2>3. "registry" \in DOMAIN Wanted
      BY DEF Wanted
    <2> QED
      BY <1>b, <2>1, <2>2, <2>3
  <1>5. CASE B!BuildDispatcher
    <2> DEFINE with == [max_failover_attempts |-> settings.max_failover_attempts,
                        failover_delay |-> settings.failover_delay]
    <2>1. step = "dispatcher" /\ settings' = settings /\ B!Build("dispatcher", with)
      BY <1>5 DEF B!BuildDispatcher
    <2>2. with = Wanted["dispatcher"]
      BY <1>s, <2>1, KeysAre DEF Wanted
    <2>3. "dispatcher" \in DOMAIN Wanted
      BY DEF Wanted
    <2> HIDE DEF with
    <2> QED
      BY <1>b, <2>1, <2>2, <2>3
  <1>6. CASE B!BuildPipeline
    <2> DEFINE with == [serializer |-> B!Serializer(settings.serializer),
                        compressor |-> B!Compressor(settings.compressor),
                        min_compression_bytes |-> settings.min_compression_bytes,
                        auto_detect_compression |-> settings.auto_detect_compression]
    <2>1. step = "pipeline" /\ settings' = settings /\ B!Build("pipeline", with)
      BY <1>6 DEF B!BuildPipeline
    <2>2. with = Wanted["pipeline"]
      BY <1>s, <2>1, KeysAre DEF Wanted, B!Compressor
    <2>3. "pipeline" \in DOMAIN Wanted
      BY DEF Wanted
    <2> HIDE DEF with
    <2> QED
      BY <1>b, <2>1, <2>2, <2>3
  <1> QED
    BY <1>1, <1>2, <1>3, <1>4, <1>5, <1>6 DEF B!Next

LEMMA WiringSafe == Arrived => B!SettingsArrive
  <1> SUFFICES ASSUME Arrived, NEW c \in DOMAIN built, NEW p \in DOMAIN B!AskedOf[c]
               PROVE  built[c][p] = CASE p = "strategy" -> B!Strategy(B!Asked(B!AskedOf[c][p]))
                                      [] p = "serializer" -> B!Serializer(B!Asked(B!AskedOf[c][p]))
                                      [] OTHER -> B!Asked(B!AskedOf[c][p])
    BY DEF B!SettingsArrive
  <1>1. c \in {"pool", "router", "registry", "dispatcher", "pipeline"} /\ built[c] = Wanted[c]
    BY DEF Arrived, Wanted
  <1>2. CASE c = "pool"
    BY <1>1, <1>2 DEF Wanted, B!AskedOf
  <1>3. CASE c = "router"
    BY <1>1, <1>3 DEF Wanted, B!AskedOf
  <1>4. CASE c = "registry"
    BY <1>1, <1>4 DEF Wanted, B!AskedOf
  <1>5. CASE c = "dispatcher"
    BY <1>1, <1>5 DEF Wanted, B!AskedOf
  <1>6. CASE c = "pipeline"
    BY <1>1, <1>6 DEF Wanted, B!AskedOf
  <1> QED
    BY <1>1, <1>2, <1>3, <1>4, <1>5, <1>6

LEMMA WiringStill == Arrived /\ UNCHANGED nVars => Arrived'
  BY DEF nVars, Arrived, Wanted, B!Asked, B!Strategy, B!Serializer

------------------------------------------------------------------------------
(* Entries: the handlers so far are those of the entries before the one in  *)
(* turn.                                                                    *)
InTurn ==
  /\ next \in Nat \ {0} /\ entries \in Seq(E!Forms)
  /\ caller = "handlers" => DOMAIN handlers = {entries[i].name : i \in 1 .. next - 1} \intersect E!Known
  /\ caller # "handlers" => DOMAIN handlers = {}
  /\ \A n \in DOMAIN handlers : handlers[n].channel \in {n, "_default", "none", "unused"}
  /\ caller = "handlers" => next <= Len(entries) + 1
  /\ caller = "factory" => IF next = 1 THEN outcome = "none" ELSE E!HookKept

LEMMA EntriesInit == E!Init \/ E!Begin("factory", <<>>, {}, E!NoRequest) => InTurn
  <1>1. ASSUME NEW who, NEW list, NEW with, NEW r, E!Begin(who, list, with, r), list \in Seq(E!Forms)
        PROVE  InTurn
    <2>1. /\ caller = who /\ entries = list /\ channels = with /\ request = r
          /\ next = 1 /\ DOMAIN handlers = {} /\ outcome = "none" /\ Len(entries) \in Nat
      BY <1>1 DEF E!Begin
    <2>2. 1 .. next - 1 = {}
      BY <2>1
    <2> QED
      BY <1>1, <2>1, <2>2 DEF InTurn
  <1>2. <<>> \in Seq(E!Forms)
    OBVIOUS
  <1>3. ASSUME NEW s \in E!Lists PROVE s \in Seq(E!Forms)
    <2>1. PICK n \in 1 .. MaxEntries : s \in [1 .. n -> E!Forms]
      BY DEF E!Lists
    <2> QED
      BY <2>1
  <1> QED
    BY <1>1, <1>2, <1>3 DEF E!Init

LEMMA EntriesStep == InTurn /\ E!Next => InTurn'
  <1> SUFFICES ASSUME InTurn, E!Next PROVE InTurn'
    OBVIOUS
  <1>1. CASE E!Create
    <2>1. /\ caller = "factory" /\ next = 1 /\ next' = 2
          /\ outcome' = IF ~request.config THEN "configuration" ELSE E!ResolveRetryHook(request)
          /\ UNCHANGED <<caller, entries, handlers, request>>
      BY <1>1 DEF E!Create
    <2>2. E!HookKept'
      <3>1. ASSUME outcome' = "none", request.importable, request.declared # "none"
            PROVE  FALSE
        <4>1. E!ResolveRetryHook(request) = "none"
          BY <2>1, <3>1
        <4> QED
          BY <3>1, <4>1 DEF E!ResolveRetryHook, E!Registered
      <3> QED
        BY <2>1, <3>1 DEF E!HookKept
    <2> QED
      BY <2>1, <2>2 DEF InTurn
  <1>2. CASE E!BuildChannel
    BY <1>2 DEF E!BuildChannel, InTurn
  <1>3. CASE E!BuildInbound
    BY <1>3 DEF E!BuildInbound, InTurn
  <1>4. CASE E!BuildHandler
    <2> DEFINE e == entries[next]
    <2>1. /\ caller = "handlers" /\ next <= Len(entries) /\ next' = next + 1
          /\ UNCHANGED <<caller, entries>>
          /\ IF e.name \in E!Known
             THEN handlers' = [n \in DOMAIN handlers \union {e.name} |->
                                 IF n = e.name THEN E!BuildProtocolHandler(e) ELSE handlers[n]]
             ELSE handlers' = handlers
      BY <1>4 DEF E!BuildHandler, E!PassOver
    <2> HIDE DEF e
    <2>2. next \in Nat \ {0} /\ next' \in Nat \ {0} /\ 1 .. next' - 1 = 1 .. next - 1 \union {next}
      BY <2>1 DEF InTurn
    <2>3. DOMAIN handlers' = {entries[i].name : i \in 1 .. next' - 1} \intersect E!Known
      <3>1. {entries[i].name : i \in 1 .. next' - 1} = {entries[i].name : i \in 1 .. next - 1} \union {e.name}
        BY <2>2 DEF e
      <3> QED
        BY <2>1, <3>1 DEF InTurn
    <2>4. E!BuildProtocolHandler(e).channel \in {e.name, "_default", "none", "unused"}
      BY DEF E!BuildProtocolHandler, E!ChannelOf
    <2>5. \A n \in DOMAIN handlers' : handlers'[n].channel \in {n, "_default", "none", "unused"}
      BY <2>1, <2>4 DEF InTurn
    <2>6. next' <= Len(entries') + 1
      BY <2>1, <2>2
    <2> QED
      BY <2>1, <2>2, <2>3, <2>5, <2>6 DEF InTurn
  <1> QED
    BY <1>1, <1>2, <1>3, <1>4 DEF E!Next

LEMMA EntriesSafe == InTurn => E!EntriesInv
  <1> SUFFICES ASSUME InTurn PROVE E!EntriesInv
    OBVIOUS
  <1>1. caller = "handlers" /\ next > Len(entries) =>
          DOMAIN handlers = {entries[i].name : i \in DOMAIN entries} \intersect E!Known
    <2> HAVE caller = "handlers" /\ next > Len(entries)
    <2>1. next - 1 = Len(entries) /\ DOMAIN entries = 1 .. Len(entries)
      BY DEF InTurn
    <2> QED
      BY <2>1 DEF InTurn
  <1>2. E!HookKept
    BY DEF InTurn, E!HookKept
  <1> QED
    BY <1>1, <1>2 DEF InTurn, E!EntriesInv, E!EachByItself

LEMMA EntriesStill == InTurn /\ UNCHANGED eVars => InTurn'
  BY DEF eVars, InTurn, E!HookKept

------------------------------------------------------------------------------
(* The inbound sides: what is sent and what is still to be sent make up one *)
(* answer until a write fails, and the pieces that begin an answer come     *)
(* first, or second after a failure.                                        *)
Pieces == [what : {"none", "start", "body", "answer", "close", "reply"}, status : Int]
Owes(r) == r.id # 0 \/ r.kind = "invalid"
Begins(piece) == piece.what \in {"start", "answer"}
FirstPlaces == IF failed THEN {1, 2} ELSE {1}

ServerTypes ==
  /\ protocol \in S!Protocols
  /\ stage \in {"ready", "work", "write", "last", "over", "crashed", "ended"}
  /\ message \in Seq(S!Requests)
  /\ worked \in Seq([answer : Pieces, real : BOOLEAN])
  /\ todo \in Seq(Pieces) /\ sent \in Seq(Pieces)

InHand ==
  /\ stage = "work" => sent = <<>> /\ ~failed
  /\ stage = "work" /\ protocol # "cli" => message = <<S!Call>>
  /\ failed => stage \in {"last", "over", "crashed", "ended"}
  /\ stage = "over" => todo = <<>>
  /\ Len(worked) <= Len(message)
  /\ protocol = "cli" => \A i \in 1 .. Len(worked) : worked[i].answer # S!NoAnswer <=> Owes(message[i])

Parted(whole) ==
  \/ sent = <<>> /\ todo = whole
  \/ sent = whole /\ todo = <<>>
  \/ \E a, b \in Pieces : whole = <<a, b>> /\ sent = <<a>> /\ todo = <<b>>

Replies == {<<>>} \union {S!Pieces(status) : status \in Int}

Answered(whole) == Len(worked) = Len(message) /\ whole = IF S!Answers = {} THEN <<>> ELSE S!Pieces(0)

OneAnswer ==
  stage \in {"write", "last", "over"} /\ ~failed =>
    \E whole \in Replies :
      Parted(whole) /\ (protocol = "cli" /\ message # <<>> /\ ~untyped => Answered(whole))

Beginnings ==
  /\ \A i \in 1 .. Len(sent) : Begins(sent[i]) => i \in FirstPlaces
  /\ \A i \in 1 .. Len(todo) : Begins(todo[i]) => i = 1 /\ (stage \in {"write", "last"} => Len(sent) + 1 \in FirstPlaces)

CrashExcused == stage \in {"crashed", "ended"} /\ message # <<>> => failed \/ untyped

ServerInv == ServerTypes /\ InHand /\ OneAnswer /\ Beginnings /\ CrashExcused /\ S!NoFalseSuccess

(* What an answer consists of, and what the errors are answered with.       *)
LEMMA PiecesAre ==
  ASSUME NEW status \in Int
  PROVE  /\ S!Pieces(status) \in Seq(Pieces) /\ S!Pieces(status) # <<>>
         /\ S!Pieces(status)[1].status = status
         /\ \A i \in 1 .. Len(S!Pieces(status)) : Begins(S!Pieces(status)[i]) => i = 1
         /\ (\E a \in Pieces : S!Pieces(status) = <<a>>) \/ (\E a, b \in Pieces : S!Pieces(status) = <<a, b>>)
         /\ protocol = "cli" => Len(S!Pieces(status)) = 1
  <1> DEFINE one == S!Piece("answer", status)
             start == S!Piece("start", status)
             body == S!Piece("body", status)
             close == S!Piece("close", 0)
  <1>1. one \in Pieces /\ start \in Pieces /\ body \in Pieces /\ close \in Pieces
    BY DEF S!Piece, Pieces
  <1>2. one.status = status /\ start.status = status /\ ~Begins(body) /\ ~Begins(close)
    BY DEF S!Piece, Begins
  <1>3. \/ protocol # "cli" /\ S!Pieces(status) = <<start, body>>
        \/ protocol # "cli" /\ S!Pieces(status) = <<one, close>>
        \/ S!Pieces(status) = <<one>>
    BY DEF S!Pieces
  <1> HIDE DEF one, start, body, close
  <1>4. ASSUME NEW a \in Pieces, NEW b \in Pieces
        PROVE  /\ <<a>> \in Seq(Pieces) /\ <<a, b>> \in Seq(Pieces) /\ <<a>> # <<>> /\ <<a, b>> # <<>>
               /\ <<a>>[1] = a /\ <<a, b>>[1] = a /\ <<a, b>>[2] = b /\ Len(<<a>>) = 1 /\ Len(<<a, b>>) = 2
               /\ \A i \in 1 .. Len(<<a>>) : i = 1
               /\ \A i \in 1 .. Len(<<a, b>>) : i = 1 \/ i = 2
    OBVIOUS
  <1>5. CASE protocol # "cli" /\ S!Pieces(status) = <<start, body>>
    BY <1>1, <1>2, <1>4, <1>5
  <1>6. CASE protocol # "cli" /\ S!Pieces(status) = <<one, close>>
    BY <1>1, <1>2, <1>4, <1>6
  <1>7. CASE S!Pieces(status) = <<one>>
    BY <1>1, <1>2, <1>4, <1>7
  <1> QED
    BY <1>3, <1>5, <1>6, <1>7

LEMMA RepliesAre ==
  ASSUME NEW w \in Replies
  PROVE  /\ w \in Seq(Pieces)
         /\ \A i \in 1 .. Len(w) : Begins(w[i]) => i = 1
         /\ w = <<>> \/ (\E a \in Pieces : w = <<a>>) \/ (\E a, b \in Pieces : w = <<a, b>>)
  <1>1. CASE w = <<>>
    BY <1>1
  <1>2. ASSUME NEW status \in Int, w = S!Pieces(status)
        PROVE  /\ w \in Seq(Pieces)
               /\ \A i \in 1 .. Len(w) : Begins(w[i]) => i = 1
               /\ w = <<>> \/ (\E a \in Pieces : w = <<a>>) \/ (\E a, b \in Pieces : w = <<a, b>>)
    BY <1>2, PiecesAre
  <1> QED
    BY <1>1, <1>2 DEF Replies

(* What the errors are answered with: never with a status of success.       *)
LEMMA StatusOfErrors ==
  ASSUME NEW e \in S!Errors
  PROVE  /\ \A r : S!RpcStatus(r, e) \in Int \ {0, 200}
         /\ S!Status(e) \in Int \ {0, 200} /\ e.type # "ok"
  <1>1. /\ e.type \in S!ErrorTypes \union {"untyped", "presentation", "unknown"}
        /\ e.status \in {0, 503}
    BY DEF S!Errors, S!Error, S!Untyped, S!Presentation, S!Unknown
  <1>2. e.type # "ok"
    BY <1>1 DEF S!ErrorTypes
  <1>3. S!Map(e, "cli").status \in {1, 2, 3}
    BY DEF S!Map, S!ToCli, S!Answer
  <1>4. S!Map(e, "http").status \in {400, 500, 503}
    BY <1>1 DEF S!Map, S!ToHttp, S!Answer
  <1> QED
    BY <1>2, <1>3, <1>4 DEF S!RpcStatus, S!Status

LEMMA StatusOfOk ==
  /\ \A r : S!RpcStatus(r, S!Ok) = 0
  /\ S!Status(S!Ok) \in {0, 200}
  BY DEF S!RpcStatus, S!Status, S!Ok, S!Error, S!ErrorTypes

(* A client that reads its peer's answer has no result before the peer is   *)
(* done.                                                                    *)
LEMMA OutcomesAre ==
  ASSUME NEW c \in S!Clients, NEW fate \in S!Fates, NEW below \in S!Errors, NEW e \in S!Outcomes(c, fate, below)
  PROVE  /\ e \in S!Errors \union {S!Ok}
         /\ e = S!Ok => fate = "done" \/ (fate = "garbled" /\ ~S!Reads(c)) \/ c = "webhook"
  <1>1. S!Untyped \in S!Errors /\ S!Unknown \in S!Errors /\ S!Presentation \in S!Errors
    BY DEF S!Errors
  <1>2. S!Ok \notin S!Errors
    BY StatusOfErrors DEF S!Ok, S!Error
  <1>3. ASSUME NEW d \in S!Errors PROVE S!Raised(d) \in S!Errors /\ S!Passed(d) \in S!Errors
    BY <1>1 DEF S!Raised, S!Passed
  <1>4. S!GraphqlErrors \in S!Errors
    BY <1>1, <1>3 DEF S!GraphqlErrors
  <1>5. CASE c = "http"
    <2>1. e \in S!Http(below)[fate]
      BY <1>5 DEF S!Outcomes
    <2> QED
      BY <1>1, <1>2, <2>1 DEF S!Http, S!Fates
  <1>6. CASE c = "grpc"
    <2>1. e \in S!Grpc(below)[fate]
      BY <1>6 DEF S!Outcomes
    <2> QED
      BY <1>1, <1>2, <2>1 DEF S!Grpc
  <1>7. CASE c = "cli"
    <2>1. e \in S!Cli(below)[fate]
      BY <1>7 DEF S!Outcomes
    <2> QED
      BY <1>1, <1>2, <1>3, <1>7, <2>1 DEF S!Cli, S!Fates, S!Reads
  <1>8. CASE c = "graphql"
    <2>1. e \in S!Graphql(below)[fate]
      BY <1>8 DEF S!Outcomes
    <2> QED
      BY <1>1, <1>2, <1>3, <1>4, <2>1 DEF S!Graphql, S!Fates
  <1>9. CASE c = "ipc"
    <2>1. e \in S!LocalIpc(below)[fate]
      BY <1>9 DEF S!Outcomes
    <2> QED
      BY <1>1, <1>2, <1>3, <1>9, <2>1 DEF S!LocalIpc, S!Fates, S!Reads
  <1>10. CASE c = "webhook"
    <2>1. e \in S!Webhook(below)[fate]
      BY <1>10 DEF S!Outcomes
    <2> QED
      BY <1>1, <1>10, <2>1 DEF S!Webhook, S!Fates
  <1>11. CASE c = "inprocess"
    <2>1. e \in S!Inprocess(below)[fate]
      BY <1>11 DEF S!Outcomes
    <2> QED
      BY <1>1, <1>2, <1>3, <2>1 DEF S!Inprocess, S!Fates
  <1> QED
    BY <1>5, <1>6, <1>7, <1>8, <1>9, <1>10, <1>11 DEF S!Clients


LEMMA ServerInit == S!Init => ServerInv
  <1> SUFFICES ASSUME S!Init PROVE ServerInv
    OBVIOUS
  <1>1. /\ protocol \in S!Protocols /\ stage = "ready" /\ message = <<>> /\ worked = <<>> /\ todo = <<>>
        /\ sent = <<>> /\ ~failed /\ Len(<<>>) = 0 /\ 1 .. 0 = {}
    BY DEF S!Init
  <1>2. ServerTypes
    <2>1. \A D : <<>> \in Seq(D)
      OBVIOUS
    <2> QED
      BY <1>1, <2>1 DEF ServerTypes
  <1>3. InHand /\ OneAnswer /\ Beginnings /\ CrashExcused
    BY <1>1 DEF InHand, OneAnswer, Beginnings, CrashExcused
  <1>4. S!NoFalseSuccess
    BY <1>1 DEF S!NoFalseSuccess
  <1> QED
    BY <1>2, <1>3, <1>4 DEF ServerInv

(* A message that begins, with what is already to be written.               *)
LEMMA Fresh ==
  ASSUME ServerTypes, protocol' = protocol, worked' = <<>>, sent' = <<>>, ~failed',
         message' \in Seq(S!Requests), todo' \in Replies,
         \/ stage' = "work" /\ todo' = <<>> /\ (protocol # "cli" => message' = <<S!Call>>)
         \/ stage' \in {"write", "last"} /\ message' = <<>>
  PROVE  ServerInv'
  <1>1. Len(worked') = 0 /\ Len(sent') = 0 /\ 1 .. 0 = {} /\ DOMAIN worked' = {} /\ Len(message') \in Nat
    OBVIOUS
  <1>2. todo' \in Seq(Pieces) /\ \A i \in 1 .. Len(todo') : Begins(todo'[i]) => i = 1
    BY RepliesAre
  <1>3. ServerTypes'
    <2>1. \A D : <<>> \in Seq(D)
      OBVIOUS
    <2> QED
      BY <1>2, <2>1 DEF ServerTypes
  <1>4. InHand'
    BY <1>1 DEF InHand
  <1>5. Replies' = Replies
    BY DEF Replies, S!Pieces
  <1>6. OneAnswer'
    <2>0. PICK w \in Replies : w = todo'
      OBVIOUS
    <2>1. Parted(w)'
      BY <2>0 DEF Parted
    <2>2. stage' \in {"write", "last", "over"} => message' = <<>>
      OBVIOUS
    <2> QED
      BY <1>5, <2>1, <2>2 DEF OneAnswer
  <1>7. Beginnings'
    BY <1>1, <1>2 DEF Beginnings, FirstPlaces, Begins
  <1>8. CrashExcused' /\ S!NoFalseSuccess'
    BY <1>1 DEF CrashExcused, S!NoFalseSuccess
  <1> QED
    BY <1>3, <1>4, <1>6, <1>7, <1>8 DEF ServerInv

LEMMA ReceiveStep == ServerInv /\ S!Receive => ServerInv'
  <1> SUFFICES ASSUME ServerInv, S!Receive PROVE ServerInv'
    OBVIOUS
  <1>1. ServerTypes
    BY DEF ServerInv
  <1>2. worked' = <<>> /\ sent' = <<>> /\ ~failed' /\ protocol' = protocol
    BY DEF S!Receive
  <1>3. <<>> \in Replies /\ S!Pieces(501) \in Replies /\ S!Pieces(-32700) \in Replies
    <2>1. 501 \in Int /\ -32700 \in Int
      OBVIOUS
    <2> QED
      BY <2>1 DEF Replies
  <1>4. <<>> \in Seq(S!Requests) /\ <<S!Call>> \in Seq(S!Requests)
    BY DEF S!Call, S!Requests
  <1>5. CASE message' = <<>> /\ todo' = S!Pieces(501) /\ stage' = "last"
    <2>1. todo' \in Replies /\ message' \in Seq(S!Requests)
      BY <1>3, <1>4, <1>5
    <2> QED
      BY <1>1, <1>2, <1>5, <2>1, Fresh
  <1>6. CASE message' = <<S!Call>> /\ todo' = <<>> /\ stage' = "work"
    BY <1>1, <1>2, <1>3, <1>4, <1>6, Fresh
  <1>7. CASE /\ protocol = "cli" /\ message' \in UNION {[1 .. n -> S!Requests] : n \in 0 .. MaxBatch}
             /\ todo' = <<>> /\ stage' = "work"
    <2>1. PICK n \in 0 .. MaxBatch : message' \in [1 .. n -> S!Requests]
      BY <1>7
    <2>2. message' \in Seq(S!Requests)
      BY <2>1
    <2> QED
      BY <1>1, <1>2, <1>3, <1>7, <2>2, Fresh
  <1>8. CASE message' = <<>> /\ todo' = S!Pieces(-32700) /\ stage' = "write"
    <2>1. todo' \in Replies /\ message' \in Seq(S!Requests)
      BY <1>3, <1>4, <1>8
    <2> QED
      BY <1>1, <1>2, <1>8, <2>1, Fresh
  <1> QED
    BY <1>5, <1>6, <1>7, <1>8 DEF S!Receive

LEMMA AcceptFailsStep == ServerInv /\ S!AcceptFails => ServerInv'
  <1> SUFFICES ASSUME ServerInv, S!AcceptFails PROVE ServerInv'
    OBVIOUS
  <1>1. /\ protocol = "websocket" /\ stage = "work" /\ stage' = "crashed" /\ failed'
        /\ UNCHANGED <<protocol, message, worked, todo, sent, untyped>>
    BY DEF S!AcceptFails
  <1>2. ServerTypes'
    BY <1>1 DEF ServerInv, ServerTypes
  <1>3. InHand' /\ OneAnswer' /\ CrashExcused'
    BY <1>1 DEF ServerInv, InHand, OneAnswer, CrashExcused
  <1>4. Beginnings'
    BY <1>1 DEF ServerInv, InHand, Beginnings, FirstPlaces, Begins
  <1>5. S!NoFalseSuccess'
    BY <1>1 DEF ServerInv, S!NoFalseSuccess, S!NoAnswer, S!Piece
  <1> QED
    BY <1>2, <1>3, <1>4, <1>5 DEF ServerInv

LEMMA InputEndsStep == ServerInv /\ S!InputEnds => ServerInv'
  <1> SUFFICES ASSUME ServerInv, S!InputEnds PROVE ServerInv'
    OBVIOUS
  <1>1. /\ stage' = "ended" /\ message' = <<>> /\ worked' = <<>> /\ sent' = <<>> /\ ~failed'
        /\ UNCHANGED <<protocol, todo>>
    BY DEF S!InputEnds
  <1>2. Len(worked') = 0 /\ Len(sent') = 0 /\ 1 .. 0 = {} /\ DOMAIN worked' = {} /\ Len(message') = 0
    BY <1>1
  <1>3. ServerTypes'
    <2>1. \A D : <<>> \in Seq(D)
      OBVIOUS
    <2> QED
      BY <1>1, <2>1 DEF ServerInv, ServerTypes
  <1>4. InHand' /\ OneAnswer' /\ CrashExcused'
    BY <1>1, <1>2 DEF InHand, OneAnswer, CrashExcused
  <1>5. Beginnings'
    BY <1>1, <1>2 DEF ServerInv, Beginnings, FirstPlaces, Begins
  <1>6. S!NoFalseSuccess'
    BY <1>2 DEF S!NoFalseSuccess
  <1> QED
    BY <1>3, <1>4, <1>5, <1>6 DEF ServerInv

(* One request is worked on; a success is one that was real.                *)
LEMMA WorkStep ==
  ASSUME ServerInv, NEW e \in S!Errors \union {S!Ok}, NEW done \in BOOLEAN, e = S!Ok => done, S!Work(e, done)
  PROVE  ServerInv'
  <1>t. /\ ServerTypes /\ InHand /\ Beginnings /\ S!NoFalseSuccess
        /\ worked \in Seq([answer : Pieces, real : BOOLEAN]) /\ message \in Seq(S!Requests)
    BY DEF ServerInv, ServerTypes
  <1> DEFINE k == Len(worked) + 1
             r == message[k]
             works == r.kind = "call"
             answer == IF protocol = "cli" THEN S!RpcAnswer(r, e) ELSE S!Piece("answer", S!Status(e))
             entry == [answer |-> answer, real |-> ~works \/ done]
             Untold == /\ works /\ e.type = "untyped" /\ worked' = worked
                       /\ IF protocol = "cli" THEN stage' = "last" /\ todo' = S!Pieces(-32603)
                                              ELSE stage' = "crashed" /\ todo' = todo
             Told == worked' = Append(worked, entry) /\ todo' = todo /\ stage' = stage
  <1>1. /\ stage = "work" /\ Len(worked) < Len(message)
        /\ works \/ e = S!Ok
        /\ works /\ e.type = "untyped" => untyped'
        /\ UNCHANGED <<protocol, message, sent, failed>>
        /\ Untold \/ Told
    <2>1. /\ stage = "work" /\ Len(worked) < Len(message)
          /\ works \/ e = S!Ok
          /\ untyped' = (untyped \/ (works /\ e.type = "untyped"))
          /\ IF works /\ ~S!Mappable(e) /\ S!MapsErrorOf(r)
             THEN /\ UNCHANGED worked
                  /\ IF protocol = "cli" THEN stage' = "last" /\ todo' = S!Pieces(-32603)
                                         ELSE stage' = "crashed" /\ UNCHANGED todo
             ELSE worked' = Append(worked, entry) /\ UNCHANGED todo /\ stage' = stage
          /\ UNCHANGED <<protocol, message, sent, failed>>
      BY DEF S!Work
    <2>2. ~S!Mappable(e) => e.type = "untyped"
      BY DEF S!Mappable
    <2>3. works /\ e.type = "untyped" => untyped'
      <3> DEFINE hot == works /\ e.type = "untyped"
      <3>1. untyped' = (untyped \/ hot)
        BY ONLY <2>1
      <3> HIDE DEF hot
      <3>2. hot => untyped'
        BY ONLY <3>1, Zenon
      <3> QED
        BY ONLY <3>2 DEF hot
    <2>4. CASE works /\ ~S!Mappable(e) /\ S!MapsErrorOf(r)
      <3>1. Untold
        BY ONLY <2>1, <2>2, <2>4
      <3> QED
        BY ONLY <2>1, <2>3, <3>1
    <2>5. CASE ~(works /\ ~S!Mappable(e) /\ S!MapsErrorOf(r))
      <3>1. Told
        BY ONLY <2>1, <2>5
      <3> QED
        BY ONLY <2>1, <2>3, <3>1
    <2> QED
      BY ONLY <2>4, <2>5
  <1>a. works => r.kind = "call"
    OBVIOUS
  <1>b. entry.answer = answer /\ (answer \in Pieces => entry \in [answer : Pieces, real : BOOLEAN])
    OBVIOUS
  <1>c. works /\ e = S!Ok => entry.real
    OBVIOUS
  <1>d. ~works => entry.real
    OBVIOUS
  <1>k. k = Len(worked) + 1
    OBVIOUS
  <1>2. r \in S!Requests
    BY <1>t, <1>1
  <1>e. answer = IF protocol = "cli" THEN S!RpcAnswer(r, e) ELSE S!Piece("answer", S!Status(e))
    OBVIOUS
  <1>v. r = message[k]
    OBVIOUS
  <1> HIDE DEF k, r, works, answer, entry
  <1>n. Len(worked) \in Nat /\ Len(message) \in Nat /\ k \in 1 .. Len(message)
    BY <1>t, <1>1, <1>k
  <1>3. sent = <<>> /\ Len(sent) = 0 /\ 1 .. 0 = {} /\ ~failed /\ ~failed'
    BY <1>t, <1>1 DEF InHand
  <1>4. CASE Untold
    <2>1. untyped'
      BY <1>1, <1>4
    <2>2. -32603 \in Int
      OBVIOUS
    <2>3. todo' \in Seq(Pieces) /\ \A i \in 1 .. Len(todo') : Begins(todo'[i]) => i = 1
      <3>1. CASE protocol = "cli"
        BY <1>4, <2>2, <3>1, PiecesAre
      <3>2. CASE protocol # "cli"
        BY <1>t, <1>4, <3>2 DEF ServerTypes, Beginnings
      <3> QED
        BY <3>1, <3>2
    <2>4. ServerTypes'
      BY <1>t, <1>1, <1>4, <2>3 DEF ServerTypes
    <2>5. InHand'
      BY <1>t, <1>1, <1>3, <1>4 DEF InHand, S!NoAnswer, S!Piece
    <2>6. OneAnswer'
      <3>1. CASE protocol = "cli"
        <4>0. PICK w : w = S!Pieces(-32603)
          OBVIOUS
        <4>1. S!Pieces(-32603)' = S!Pieces(-32603)
          BY <1>1 DEF S!Pieces
        <4>2. w \in Replies' /\ todo' = w
          BY <1>4, <2>2, <3>1, <4>0, <4>1 DEF Replies
        <4>3. Parted(w)'
          BY <1>1, <1>3, <4>2 DEF Parted
        <4> QED
          BY <2>1, <4>2, <4>3 DEF OneAnswer
      <3>2. CASE protocol # "cli"
        BY <1>4, <3>2 DEF OneAnswer
      <3> QED
        BY <3>1, <3>2
    <2>7. Beginnings'
      BY <1>1, <1>3, <2>3 DEF Beginnings, FirstPlaces, Begins
    <2>8. CrashExcused'
      BY <2>1 DEF CrashExcused
    <2>9. S!NoFalseSuccess'
      BY <1>t, <1>4 DEF S!NoFalseSuccess, S!NoAnswer, S!Piece
    <2> QED
      BY <2>4, <2>5, <2>6, <2>7, <2>8, <2>9 DEF ServerInv
  <1>5. CASE Told
    <2>1. S!Status(e) \in Int /\ \A q : S!RpcStatus(q, e) \in Int
      BY StatusOfErrors, StatusOfOk
    <2>2. answer \in Pieces
      <3>1. S!RpcAnswer(r, e) \in Pieces
        BY <2>1 DEF S!RpcAnswer, S!Piece, S!NoAnswer, Pieces
      <3>2. S!Piece("answer", S!Status(e)) \in Pieces
        BY <2>1 DEF S!Piece, Pieces
      <3> QED
        BY <1>e, <3>1, <3>2
    <2>3. protocol = "cli" => (answer # S!NoAnswer <=> Owes(r))
      BY <1>e DEF S!RpcAnswer, S!Piece, S!NoAnswer, S!Notification, Owes
    <2>4. answer.status \in {0, 200} => entry.real \/ answer = S!NoAnswer
      <3>1. CASE e = S!Ok
        BY <1>1, <1>c, <1>d, <3>1
      <3>2. ASSUME e # S!Ok, answer.status \in {0, 200} PROVE answer = S!NoAnswer
        <4>1. S!Status(e) \notin {0, 200} /\ \A q : S!RpcStatus(q, e) \notin {0, 200}
          BY <3>2, StatusOfErrors
        <4>2. r.kind = "call"
          BY <1>1, <1>a, <3>2
        <4>3. S!Piece("answer", S!Status(e)).status = S!Status(e)
          BY DEF S!Piece
        <4> QED
          BY <1>e, <3>2, <4>1, <4>2, <4>3 DEF S!RpcAnswer, S!Piece
      <3> QED
        BY <3>1, <3>2
    <2>5. entry \in [answer : Pieces, real : BOOLEAN] /\ entry.answer = answer
      BY <1>b, <2>2
    <2>6. /\ worked' \in Seq([answer : Pieces, real : BOOLEAN]) /\ Len(worked') = k /\ worked'[k] = entry
          /\ \A i \in 1 .. Len(worked) : worked'[i] = worked[i]
          /\ DOMAIN worked' = 1 .. k /\ DOMAIN worked = 1 .. Len(worked)
      BY <1>t, <1>k, <1>5, <2>5
    <2>7. \A i \in 1 .. k : i \in 1 .. Len(worked) \/ i = k
      BY <1>n, <1>k
    <2>8. ServerTypes'
      BY <1>t, <1>1, <1>5, <2>6 DEF ServerTypes
    <2>9. InHand'
      <3>1. protocol = "cli" => \A i \in 1 .. k : worked'[i].answer # S!NoAnswer <=> Owes(message[i])
        BY <1>t, <1>v, <2>3, <2>5, <2>6, <2>7 DEF InHand
      <3>2. k <= Len(message)
        BY <1>n
      <3> QED
        BY <1>t, <1>1, <1>3, <1>5, <2>6, <3>1, <3>2 DEF InHand, S!NoAnswer, S!Piece
    <2>10. OneAnswer' /\ CrashExcused'
      BY <1>1, <1>5 DEF OneAnswer, CrashExcused
    <2>11. Beginnings'
      BY <1>t, <1>1, <1>5 DEF Beginnings, FirstPlaces, Begins
    <2>12. S!NoFalseSuccess'
      BY <1>t, <2>4, <2>5, <2>6, <2>7 DEF S!NoFalseSuccess, S!NoAnswer, S!Piece
    <2> QED
      BY <2>8, <2>9, <2>10, <2>11, <2>12 DEF ServerInv
  <1> QED
    BY <1>1, <1>4, <1>5

LEMMA ReplyStep == ServerInv /\ S!Reply => ServerInv'
  <1> SUFFICES ASSUME ServerInv, S!Reply PROVE ServerInv'
    OBVIOUS
  <1>t. ServerTypes /\ InHand /\ S!NoFalseSuccess
    BY DEF ServerInv
  <1>1. /\ stage = "work" /\ Len(worked) = Len(message) /\ stage' \in {"write", "last"}
        /\ UNCHANGED <<protocol, message, worked, sent, failed, untyped>>
        /\ todo' = IF protocol = "cli" THEN (IF S!Answers = {} THEN <<>> ELSE S!Pieces(0))
                                       ELSE S!Pieces(worked[1].answer.status)
    BY DEF S!Reply
  <1>2. sent = <<>> /\ Len(sent) = 0 /\ 1 .. 0 = {} /\ ~failed
    BY <1>t, <1>1 DEF InHand
  <1>3. protocol # "cli" => worked[1].answer.status \in Int
    <2> HAVE protocol # "cli"
    <2>1. Len(message) = 1
      BY <1>t, <1>1 DEF InHand
    <2>2. worked \in Seq([answer : Pieces, real : BOOLEAN]) /\ 1 \in 1 .. Len(worked)
      BY <1>t, <1>1, <2>1 DEF ServerTypes
    <2>3. worked[1] \in [answer : Pieces, real : BOOLEAN]
      BY <2>2, ElementOfSeq
    <2> QED
      BY <2>3 DEF Pieces
  <1>4. todo' \in Replies
    BY <1>1, <1>3 DEF Replies
  <1>5. PICK w \in Replies : w = todo'
    BY <1>4
  <1>6. w \in Seq(Pieces) /\ \A i \in 1 .. Len(w) : Begins(w[i]) => i = 1
    BY RepliesAre
  <1>7. ServerTypes'
    BY <1>t, <1>1, <1>5, <1>6 DEF ServerTypes
  <1>8. InHand'
    BY <1>t, <1>1, <1>2 DEF InHand, S!NoAnswer, S!Piece
  <1>9. OneAnswer'
    <2>1. Replies' = Replies
      BY <1>1 DEF Replies, S!Pieces
    <2>2. Parted(w)'
      BY <1>1, <1>2, <1>5 DEF Parted
    <2>3. protocol = "cli" => Answered(w)'
      <3> HAVE protocol = "cli"
      <3>1. w = IF S!Answers = {} THEN <<>> ELSE S!Pieces(0)
        BY <1>1, <1>5
      <3>2. S!Answers' = S!Answers /\ S!Pieces(0)' = S!Pieces(0)
        BY <1>1 DEF S!Answers, S!Pieces, S!NoAnswer, S!Piece
      <3> QED
        BY <1>1, <3>1, <3>2 DEF Answered
    <2> QED
      BY <1>1, <1>5, <2>1, <2>2, <2>3 DEF OneAnswer
  <1>10. Beginnings'
    <2>1. Len(sent') = 0 /\ ~failed'
      BY <1>1, <1>2
    <2> QED
      BY <1>2, <1>5, <1>6, <2>1 DEF Beginnings, FirstPlaces, Begins
  <1>11. CrashExcused' /\ S!NoFalseSuccess'
    BY <1>t, <1>1 DEF CrashExcused, S!NoFalseSuccess, S!NoAnswer, S!Piece
  <1> QED
    BY <1>7, <1>8, <1>9, <1>10, <1>11 DEF ServerInv

(* The next piece of a whole is written.                                    *)
LEMMA Equal ==
  ASSUME NEW s \in Seq(Pieces), NEW t \in Seq(Pieces), Len(s) = Len(t), Len(s) \in {0, 1, 2},
         Len(s) >= 1 => s[1] = t[1], Len(s) = 2 => s[2] = t[2]
  PROVE  s = t
  <1>1. \A i \in 1 .. Len(s) : i = 1 \/ (i = 2 /\ Len(s) = 2)
    OBVIOUS
  <1>2. \A i \in 1 .. Len(s) : s[i] = t[i]
    BY <1>1
  <1> QED
    BY <1>2, SeqEqual

LEMMA OneMore ==
  ASSUME NEW w, w = <<>> \/ (\E a \in Pieces : w = <<a>>) \/ (\E a, b \in Pieces : w = <<a, b>>),
         NEW s, NEW q, q # <<>>,
         \/ s = <<>> /\ q = w
         \/ s = w /\ q = <<>>
         \/ \E a, b \in Pieces : w = <<a, b>> /\ s = <<a>> /\ q = <<b>>
  PROVE  \/ Append(s, Head(q)) = w /\ Tail(q) = <<>>
         \/ \E a, b \in Pieces : w = <<a, b>> /\ Append(s, Head(q)) = <<a>> /\ Tail(q) = <<b>>
  <1>1. ASSUME NEW a \in Pieces, NEW b \in Pieces
        PROVE  /\ Head(<<a>>) = a /\ Tail(<<a>>) = <<>> /\ Append(<<>>, a) = <<a>>
               /\ Head(<<a, b>>) = a /\ Tail(<<a, b>>) = <<b>> /\ Append(<<a>>, b) = <<a, b>>
    <2>1. <<>> \in Seq(Pieces) /\ <<a>> \in Seq(Pieces) /\ <<b>> \in Seq(Pieces) /\ <<a, b>> \in Seq(Pieces)
      OBVIOUS
    <2>2. /\ Len(<<>>) = 0 /\ Len(<<a>>) = 1 /\ Len(<<b>>) = 1 /\ Len(<<a, b>>) = 2 /\ <<a>> # <<>> /\ <<a, b>> # <<>>
          /\ <<a>>[1] = a /\ <<a, b>>[1] = a /\ <<a, b>>[2] = b /\ <<b>>[1] = b
      OBVIOUS
    <2>3. Head(<<a>>) = a /\ Head(<<a, b>>) = a
      OBVIOUS
    <2> DEFINE one == <<a>>
               two == <<a, b>>
               last == <<b>>
               none == <<>>
    <2> HIDE DEF one, two, last, none
    <2>4. Tail(one) = none
      <3>1. Tail(one) \in Seq(Pieces) /\ Len(Tail(one)) = 0
        BY <2>1, <2>2, HeadTailProperties DEF one
      <3>2. none \in Seq(Pieces) /\ Len(none) = 0
        BY <2>1, <2>2 DEF none
      <3>3. \A t \in Seq(Pieces) : Len(t) = 0 => t = none
        BY ONLY <3>2, Equal
      <3> QED
        BY ONLY <3>1, <3>3, Zenon
    <2>5. Tail(two) = last
      <3>1. Tail(two) \in Seq(Pieces) /\ Len(Tail(two)) = 1 /\ Tail(two)[1] = two[2]
        BY <2>1, <2>2, HeadTailProperties DEF two
      <3>2. last \in Seq(Pieces) /\ Len(last) = 1 /\ last[1] = two[2]
        BY <2>1, <2>2 DEF last, two
      <3> QED
        BY ONLY <3>1, <3>2, Equal
    <2>6. Append(none, a) = one
      <3>1. Append(none, a) \in Seq(Pieces) /\ Len(Append(none, a)) = 1 /\ Append(none, a)[1] = a
        BY <2>1, <2>2, AppendProperties DEF none
      <3>2. one \in Seq(Pieces) /\ Len(one) = 1 /\ one[1] = a
        BY <2>1, <2>2 DEF one
      <3>3. \A t \in Seq(Pieces) : Len(t) = 1 /\ t[1] = a => t = one
        BY ONLY <3>2, Equal
      <3> QED
        BY ONLY <3>1, <3>3, Zenon
    <2>7. Append(one, b) = two
      <3>1. one \in Seq(Pieces) /\ Len(one) = 1 /\ one[1] = a
        BY <2>1, <2>2 DEF one
      <3>2. /\ Append(one, b) \in Seq(Pieces) /\ Len(Append(one, b)) = 2
            /\ Append(one, b)[1] = a /\ Append(one, b)[2] = b
        <4> DEFINE longer == Append(one, b)
        <4>1. /\ longer \in Seq(Pieces) /\ Len(longer) = Len(one) + 1 /\ longer[Len(one) + 1] = b
              /\ \A i \in 1 .. Len(one) : longer[i] = one[i]
          BY ONLY <1>1, <3>1
        <4> HIDE DEF longer
        <4>2. longer \in Seq(Pieces) /\ Len(longer) = 2 /\ longer[2] = b /\ longer[1] = one[1]
          BY ONLY <3>1, <4>1
        <4> QED
          BY ONLY <3>1, <4>2 DEF longer
      <3>3. two \in Seq(Pieces) /\ Len(two) = 2 /\ two[1] = a /\ two[2] = b
        BY <2>1, <2>2 DEF two
      <3>4. \A t \in Seq(Pieces) : Len(t) = 2 /\ t[1] = a /\ t[2] = b => t = two
        BY ONLY <3>3, Equal
      <3> QED
        BY ONLY <3>2, <3>4, Zenon
    <2> QED
      BY <2>3, <2>4, <2>5, <2>6, <2>7 DEF one, two, last, none
  <1>2. CASE s = <<>> /\ q = w
    <2>1. ASSUME NEW a \in Pieces, w = <<a>> PROVE Append(s, Head(q)) = w /\ Tail(q) = <<>>
      <3>1. Head(<<a>>) = a /\ Tail(<<a>>) = <<>> /\ Append(<<>>, a) = <<a>>
        BY <1>1
      <3> QED
        BY ONLY <1>2, <2>1, <3>1, Zenon
    <2>2. ASSUME NEW a \in Pieces, NEW b \in Pieces, w = <<a, b>>
          PROVE  Append(s, Head(q)) = <<a>> /\ Tail(q) = <<b>>
      <3>1. Head(<<a, b>>) = a /\ Tail(<<a, b>>) = <<b>> /\ Append(<<>>, a) = <<a>>
        BY <1>1
      <3> QED
        BY ONLY <1>2, <2>2, <3>1, Zenon
    <2> QED
      BY <1>2, <2>1, <2>2
  <1>3. CASE \E a, b \in Pieces : w = <<a, b>> /\ s = <<a>> /\ q = <<b>>
    BY <1>1, <1>3
  <1> QED
    BY <1>2, <1>3

LEMMA WriteStep == ServerInv /\ S!Write => ServerInv'
  <1> SUFFICES ASSUME ServerInv, S!Write PROVE ServerInv'
    OBVIOUS
  <1>t. /\ ServerTypes /\ InHand /\ OneAnswer /\ Beginnings /\ CrashExcused /\ S!NoFalseSuccess
        /\ todo \in Seq(Pieces) /\ sent \in Seq(Pieces)
    BY DEF ServerInv, ServerTypes
  <1> DEFINE more == Append(sent, Head(todo))
             left == Tail(todo)
  <1>1. /\ stage \in {"write", "last"} /\ todo # <<>> /\ sent' = more /\ todo' = left
        /\ UNCHANGED <<protocol, stage, message, worked, failed, untyped>>
    BY DEF S!Write
  <1>2. /\ more \in Seq(Pieces) /\ left \in Seq(Pieces)
        /\ Len(more) = Len(sent) + 1 /\ more[Len(sent) + 1] = todo[1] /\ 1 \in 1 .. Len(todo)
        /\ \A i \in 1 .. Len(sent) : more[i] = sent[i]
        /\ Len(left) = Len(todo) - 1 /\ \A i \in 1 .. Len(left) : left[i] = todo[i + 1]
        /\ Len(sent) \in Nat /\ Len(todo) \in Nat
    BY <1>t, <1>1
  <1>m. \A w : w \in Replies /\ Parted(w) =>
           \/ more = w /\ left = <<>>
           \/ \E a, b \in Pieces : w = <<a, b>> /\ more = <<a>> /\ left = <<b>>
    BY <1>1, OneMore, RepliesAre DEF Parted
  <1> HIDE DEF more, left
  <1>3. ServerTypes' /\ CrashExcused' /\ S!NoFalseSuccess'
    BY <1>t, <1>1, <1>2 DEF ServerTypes, CrashExcused, S!NoFalseSuccess, S!NoAnswer, S!Piece
  <1>4. InHand'
    BY <1>t, <1>1 DEF InHand, S!NoAnswer, S!Piece
  <1>5. OneAnswer'
    <2> SUFFICES ASSUME ~failed
                 PROVE  \E w \in Replies' : Parted(w)' /\ (protocol = "cli" /\ message # <<>> /\ ~untyped => Answered(w)')
      BY <1>1 DEF OneAnswer
    <2>1. PICK w \in Replies : Parted(w) /\ (protocol = "cli" /\ message # <<>> /\ ~untyped => Answered(w))
      BY <1>t, <1>1 DEF OneAnswer
    <2>2. Parted(w)'
      BY <1>1, <1>m, <2>1 DEF Parted
    <2>3. Replies' = Replies
      BY <1>1 DEF Replies, S!Pieces
    <2>4. Answered(w) => Answered(w)'
      BY <1>1 DEF Answered, S!Answers, S!Pieces, S!NoAnswer, S!Piece
    <2> QED
      BY <2>1, <2>2, <2>3, <2>4
  <1>6. Beginnings'
    <2>1. FirstPlaces' = FirstPlaces
      BY <1>1 DEF FirstPlaces
    <2>2. ASSUME NEW i \in 1 .. Len(more), Begins(more[i]) PROVE i \in FirstPlaces
      <3>1. CASE i = Len(sent) + 1
        BY <1>t, <1>1, <1>2, <2>2, <3>1 DEF Beginnings
      <3>2. CASE i # Len(sent) + 1
        <4>1. i \in 1 .. Len(sent)
          BY <1>2, <2>2, <3>2
        <4> QED
          BY <1>t, <1>2, <2>2, <4>1 DEF Beginnings
      <3> QED
        BY <3>1, <3>2
    <2>3. \A i \in 1 .. Len(left) : ~Begins(left[i])
      <3> TAKE i \in 1 .. Len(left)
      <3>1. i + 1 \in 1 .. Len(todo) /\ i + 1 # 1
        BY <1>2
      <3> QED
        BY <1>t, <1>2, <3>1 DEF Beginnings
    <2> QED
      BY <1>1, <2>1, <2>2, <2>3 DEF Beginnings, Begins
  <1> QED
    BY <1>3, <1>4, <1>5, <1>6 DEF ServerInv

LEMMA WriteFailsStep == ServerInv /\ S!WriteFails => ServerInv'
  <1> SUFFICES ASSUME ServerInv, S!WriteFails PROVE ServerInv'
    OBVIOUS
  <1>t. /\ ServerTypes /\ InHand /\ OneAnswer /\ Beginnings /\ S!NoFalseSuccess
        /\ todo \in Seq(Pieces) /\ sent \in Seq(Pieces)
    BY DEF ServerInv, ServerTypes
  <1> DEFINE answer == S!Pieces(IF protocol = "cli" THEN -32603 ELSE 500)
  <1>1. /\ stage \in {"write", "last"} /\ todo # <<>> /\ failed'
        /\ UNCHANGED <<protocol, message, worked, sent, untyped>>
        /\ \/ stage = "write" /\ stage' = "last" /\ todo' = answer
           \/ stage' \in {"ended", "crashed"} /\ todo' = <<>>
    BY DEF S!WriteFails
  <1>2. answer \in Seq(Pieces) /\ \A i \in 1 .. Len(answer) : Begins(answer[i]) => i = 1
    <2>1. 500 \in Int /\ -32603 \in Int
      OBVIOUS
    <2> QED
      BY <2>1, PiecesAre
  <1> HIDE DEF answer
  <1>3. todo' \in Seq(Pieces) /\ \A i \in 1 .. Len(todo') : Begins(todo'[i]) => i = 1
    <2>1. <<>> \in Seq(Pieces) /\ Len(<<>>) = 0 /\ 1 .. 0 = {}
      OBVIOUS
    <2> QED
      BY <1>1, <1>2, <2>1
  <1>4. ServerTypes'
    BY <1>t, <1>1, <1>3 DEF ServerTypes
  <1>5. InHand' /\ OneAnswer' /\ CrashExcused' /\ S!NoFalseSuccess'
    BY <1>t, <1>1 DEF InHand, OneAnswer, CrashExcused, S!NoFalseSuccess, S!NoAnswer, S!Piece
  <1>6. stage' \in {"write", "last"} => Len(sent) + 1 \in {1, 2}
    <2> HAVE stage' \in {"write", "last"}
    <2>1. ~failed
      BY <1>t, <1>1 DEF InHand
    <2>2. PICK w \in Replies : Parted(w)
      BY <1>t, <1>1, <2>1 DEF OneAnswer
    <2>3. sent = <<>> \/ \E a \in Pieces : sent = <<a>>
      BY <1>1, <2>2 DEF Parted
    <2>4. Len(<<>>) = 0 /\ \A a \in Pieces : Len(<<a>>) = 1
      OBVIOUS
    <2>5. Len(sent) = 0 \/ Len(sent) = 1
      BY <2>3, <2>4
    <2>6. \A n : n = 0 \/ n = 1 => n + 1 \in {1, 2}
      OBVIOUS
    <2> QED
      BY <2>5, <2>6
  <1>7. Beginnings'
    <2>1. FirstPlaces' = {1, 2} /\ \A i : i \in FirstPlaces => i \in {1, 2}
      BY <1>1 DEF FirstPlaces
    <2> QED
      BY <1>t, <1>1, <1>3, <1>6, <2>1 DEF Beginnings, Begins
  <1> QED
    BY <1>4, <1>5, <1>7 DEF ServerInv

LEMMA WrittenStep == ServerInv /\ S!Written => ServerInv'
  <1> SUFFICES ASSUME ServerInv, S!Written PROVE ServerInv'
    OBVIOUS
  <1>t. ServerTypes /\ InHand /\ OneAnswer /\ Beginnings /\ S!NoFalseSuccess
    BY DEF ServerInv
  <1>1. /\ stage \in {"write", "last"} /\ todo = <<>> /\ stage' = "over"
        /\ UNCHANGED <<protocol, message, worked, todo, sent, failed, untyped>>
    BY DEF S!Written
  <1>2. ServerTypes' /\ CrashExcused' /\ S!NoFalseSuccess'
    BY <1>t, <1>1 DEF ServerTypes, CrashExcused, S!NoFalseSuccess, S!NoAnswer, S!Piece
  <1>3. InHand'
    BY <1>t, <1>1 DEF InHand, S!NoAnswer, S!Piece
  <1>4. OneAnswer'
    BY <1>t, <1>1 DEF OneAnswer, Parted, Replies, Answered, S!Answers, S!Pieces, S!NoAnswer, S!Piece
  <1>5. Beginnings'
    BY <1>t, <1>1 DEF Beginnings, FirstPlaces, Begins
  <1> QED
    BY <1>2, <1>3, <1>4, <1>5 DEF ServerInv

LEMMA ServerStep == ServerInv /\ S!Next => ServerInv'
  <1> SUFFICES ASSUME ServerInv, S!Next PROVE ServerInv'
    OBVIOUS
  <1>1. CASE S!Serve
    <2>1. PICK e \in S!Errors \union {S!Ok} : S!Work(e, e = S!Ok)
      BY <1>1 DEF S!Serve
    <2> QED
      BY <2>1, WorkStep
  <1>2. CASE S!Relay
    <2>1. PICK c \in S!Clients, fate \in S!Fates, below \in S!Errors : \E e \in S!Outcomes(c, fate, below) :
            S!Work(e, fate = "done" \/ (fate = "garbled" /\ ~S!Reads(c)) \/ c = "webhook")
      BY <1>2 DEF S!Relay
    <2>2. PICK e \in S!Outcomes(c, fate, below) :
            S!Work(e, fate = "done" \/ (fate = "garbled" /\ ~S!Reads(c)) \/ c = "webhook")
      BY <2>1
    <2> DEFINE done == fate = "done" \/ (fate = "garbled" /\ ~S!Reads(c)) \/ c = "webhook"
    <2>3. e \in S!Errors \union {S!Ok} /\ (e = S!Ok => done) /\ done \in BOOLEAN
      BY OutcomesAre
    <2>4. S!Work(e, done)
      BY <2>2
    <2> HIDE DEF done
    <2> QED
      BY <2>3, <2>4, WorkStep
  <1> QED
    BY <1>1, <1>2, ReceiveStep, AcceptFailsStep, InputEndsStep, ReplyStep, WriteStep, WriteFailsStep, WrittenStep
    DEF S!Next

(* A message that is over was answered whole; and of what was sent, no more *)
(* begin an answer than there are first places.                             *)
LEMMA ServerSafe == ServerInv => AnsweredOnce /\ S!NoFalseSuccess
  <1> SUFFICES ASSUME ServerInv PROVE AnsweredOnce
    BY DEF ServerInv
  <1>t. /\ ServerTypes /\ InHand /\ OneAnswer /\ Beginnings /\ CrashExcused
        /\ sent \in Seq(Pieces) /\ worked \in Seq([answer : Pieces, real : BOOLEAN])
        /\ message \in Seq(S!Requests)
    BY DEF ServerInv, ServerTypes
  <1>1. ASSUME stage = "over", ~failed, ~untyped
        PROVE  IF protocol = "cli" /\ message # <<>>
               THEN S!Answers = S!Owed /\ Len(sent) = (IF S!Owed = {} THEN 0 ELSE 1)
               ELSE sent = <<>> \/ \E status \in {sent[1].status} : sent = S!Pieces(status)
    <2>1. PICK w \in Replies : Parted(w) /\ (protocol = "cli" /\ message # <<>> => Answered(w))
      BY <1>t, <1>1 DEF OneAnswer
    <2>2. sent = w
      BY <1>t, <1>1, <2>1 DEF Parted, InHand
    <2>3. CASE protocol = "cli" /\ message # <<>>
      <3>1. Len(worked) = Len(message) /\ sent = IF S!Answers = {} THEN <<>> ELSE S!Pieces(0)
        BY <2>1, <2>2, <2>3 DEF Answered
      <3>2. S!Answers = S!Owed
        <4>1. DOMAIN worked = 1 .. Len(worked) /\ DOMAIN message = 1 .. Len(worked)
          BY <1>t, <3>1
        <4> QED
          BY <1>t, <2>3, <4>1 DEF InHand, Owes, S!Answers, S!Owed
      <3>3. Len(S!Pieces(0)) = 1 /\ Len(<<>>) = 0
        BY <2>3, PiecesAre
      <3>4. Len(sent) = IF S!Owed = {} THEN 0 ELSE 1
        <4>1. CASE S!Owed = {}
          <5>1. sent = <<>>
            BY ONLY <3>1, <3>2, <4>1
          <5> QED
            BY ONLY <4>1, <5>1
        <4>2. CASE S!Owed # {}
          <5>1. sent = S!Pieces(0)
            BY ONLY <3>1, <3>2, <4>2
          <5> QED
            BY ONLY <3>3, <4>2, <5>1
        <4> QED
          BY <4>1, <4>2
      <3> QED
        BY ONLY <2>3, <3>2, <3>4, Zenon
    <2>4. CASE ~(protocol = "cli" /\ message # <<>>)
      <3>1. ASSUME NEW status \in Int, w = S!Pieces(status) PROVE sent[1].status = status
        BY <2>2, <3>1, PiecesAre
      <3> QED
        BY <2>2, <2>4, <3>1 DEF Replies
    <2> QED
      BY <2>3, <2>4
  <1>2. Cardinality({i \in DOMAIN sent : sent[i].what \in {"start", "answer"}}) <= 1 + (IF failed THEN 1 ELSE 0)
    <2> DEFINE begun == {i \in DOMAIN sent : sent[i].what \in {"start", "answer"}}
    <2>1. begun \subseteq FirstPlaces
      <3>1. DOMAIN sent = 1 .. Len(sent)
        BY <1>t
      <3> QED
        BY <1>t, <3>1 DEF Beginnings, Begins
    <2>2. IsFiniteSet(1 .. 2) /\ Cardinality(1 .. 2) = 2 /\ IsFiniteSet(1 .. 1) /\ Cardinality(1 .. 1) = 1
      <3>1. /\ IsFiniteSet(1 .. 2) /\ Cardinality(1 .. 2) = IF 1 > 2 THEN 0 ELSE 2 - 1 + 1
            /\ IsFiniteSet(1 .. 1) /\ Cardinality(1 .. 1) = IF 1 > 1 THEN 0 ELSE 1 - 1 + 1
        <4>1. 1 \in Int /\ 2 \in Int
          OBVIOUS
        <4> QED
          BY ONLY <4>1, FS_Interval, Zenon
      <3> QED
        BY <3>1
    <2>3. FirstPlaces = IF failed THEN 1 .. 2 ELSE 1 .. 1
      BY DEF FirstPlaces
    <2> HIDE DEF begun
    <2>4. CASE failed
      <3>1. begun \subseteq 1 .. 2
        BY <2>1, <2>3, <2>4
      <3>2. IsFiniteSet(begun) /\ Cardinality(begun) <= 2
        <4>1. IsFiniteSet(begun) /\ Cardinality(begun) <= Cardinality(1 .. 2)
          BY ONLY <2>2, <3>1, FS_Subset
        <4> QED
          BY <2>2, <4>1
      <3> QED
        BY <2>4, <3>2 DEF begun
    <2>5. CASE ~failed
      <3>1. begun \subseteq 1 .. 1
        BY <2>1, <2>3, <2>5
      <3>2. IsFiniteSet(begun) /\ Cardinality(begun) <= 1
        <4>1. IsFiniteSet(begun) /\ Cardinality(begun) <= Cardinality(1 .. 1)
          BY ONLY <2>2, <3>1, FS_Subset
        <4> QED
          BY <2>2, <4>1
      <3> QED
        BY <2>5, <3>2 DEF begun
    <2> QED
      BY <2>4, <2>5
  <1>3. \A X : S!Cardinality(X) = Cardinality(X)
    BY DEF S!Cardinality, Cardinality
  <1>4. stage \in {"crashed", "ended"} /\ message # <<>> => failed \/ untyped
    BY <1>t DEF CrashExcused
  <1> QED
    BY <1>1, <1>2, <1>3, <1>4 DEF AnsweredOnce, S!AnsweredOnce

LEMMA ServerStill == ServerInv /\ UNCHANGED sVars => ServerInv'
  <1> SUFFICES ASSUME ServerInv, UNCHANGED sVars PROVE ServerInv'
    OBVIOUS
  <1>1. UNCHANGED <<protocol, stage, message, worked, todo, sent, failed, untyped>>
    BY DEF sVars
  <1>2. ServerTypes' /\ CrashExcused' /\ S!NoFalseSuccess'
    BY <1>1 DEF ServerInv, ServerTypes, CrashExcused, S!NoFalseSuccess, S!NoAnswer, S!Piece
  <1>3. InHand' /\ Beginnings'
    BY <1>1 DEF ServerInv, InHand, Beginnings, FirstPlaces, Begins, S!NoAnswer, S!Piece
  <1>4. OneAnswer'
    BY <1>1, SMTT(20) DEF ServerInv, OneAnswer, Parted, Replies, Answered, S!Answers, S!Pieces, S!NoAnswer, S!Piece
  <1> QED
    BY <1>2, <1>3, <1>4 DEF ServerInv

------------------------------------------------------------------------------
(* Routes: a request that is worked on has a route that fits, and the one   *)
(* of the streams has nothing but streams.                                  *)
Routed ==
  /\ at \in {"ready", "routed", "streaming", "over"} /\ R!RouterHonest
  /\ at = "routed" => R!Route # "stream"

LEMMA RoutedInit == R!Init \/ R!Begin({}, {}, CHOOSE r \in R!Requests : TRUE) => Routed
  <1>1. ASSUME NEW routes, NEW with, NEW r, R!Begin(routes, with, r) PROVE Routed
    BY <1>1 DEF R!Begin, Routed, R!RouterHonest
  <1> QED
    BY <1>1 DEF R!Init

(* What a request comes to: an outcome with whether it was done; a stream   *)
(* that is served never succeeds undone.                                    *)
LEMMA OutcomesOfRoutes ==
  ASSUME NEW route, NEW o \in R!Outcomes(route)
  PROVE  /\ \E e \in R!Errors \union {R!Ok}, d \in BOOLEAN : o = <<e, d>>
         /\ route = "stream" /\ "app" \in parts => o # <<R!Ok, FALSE>>
  <1> DEFINE done == {<<R!Ok, TRUE>>}
             nothing == {<<R!Ok, FALSE>>}
             errors == R!Errors \X {FALSE}
             either == R!Errors \X BOOLEAN
             nameless == {<<R!Untyped, FALSE>>}
             unheard == {<<R!Unknown, FALSE>>}
             pairs == (R!Errors \union {R!Ok}) \X BOOLEAN
  <1>1. /\ R!Untyped \in R!Errors /\ R!Unknown \in R!Errors /\ R!Ok \notin R!Errors
    <2>1. \A e \in R!Errors : e.type # "ok"
      BY DEF R!Errors, R!Error, R!ErrorTypes, R!Untyped, R!Presentation, R!Unknown
    <2> QED
      BY <2>1 DEF R!Errors, R!Ok, R!Error
  <1>2. /\ done \subseteq pairs /\ nothing \subseteq pairs /\ errors \subseteq pairs /\ either \subseteq pairs
        /\ <<R!Ok, FALSE>> \notin done \union errors
        /\ \A x \in R!Errors : <<x, FALSE>> \in errors
        /\ \A p \in pairs : \E e \in R!Errors \union {R!Ok}, d \in BOOLEAN : p = <<e, d>>
    <2> DEFINE yes == TRUE
               no == FALSE
               Bools == BOOLEAN
    <2>1. yes \in Bools /\ no \in Bools /\ yes # no
      OBVIOUS
    <2> HIDE DEF yes, no, Bools
    <2>2. /\ {<<R!Ok, yes>>} \subseteq (R!Errors \union {R!Ok}) \X Bools
          /\ {<<R!Ok, no>>} \subseteq (R!Errors \union {R!Ok}) \X Bools
      BY <2>1
    <2>3. R!Errors \X {no} \subseteq (R!Errors \union {R!Ok}) \X Bools /\ R!Errors \X Bools \subseteq (R!Errors \union {R!Ok}) \X Bools
      BY <2>1
    <2>4. /\ <<R!Ok, no>> \notin {<<R!Ok, yes>>} \union (R!Errors \X {no})
          /\ \A x \in R!Errors : <<x, no>> \in R!Errors \X {no}
      BY <1>1, <2>1
    <2>5. \A p \in (R!Errors \union {R!Ok}) \X Bools : \E e \in R!Errors \union {R!Ok}, d \in Bools : p = <<e, d>>
      OBVIOUS
    <2> QED
      BY <2>2, <2>3, <2>4, <2>5, Zenon DEF yes, no, Bools
  <1>3. nameless \subseteq errors /\ unheard \subseteq errors
    BY <1>1, <1>2, Zenon
  <1>4. /\ R!Outcomes(route) \subseteq pairs
        /\ route = "stream" /\ "app" \in parts => R!Outcomes(route) \subseteq done \union errors
    <2> HIDE DEF done, nothing, errors, either, nameless, unheard, pairs
    <2>1. CASE route = "http" /\ "http" \in parts
      <3>1. R!Outcomes(route) = IF asked.body THEN done \union either ELSE errors
        BY <2>1 DEF R!Outcomes, done, errors, either
      <3> QED
        BY <1>2, <2>1, <3>1
    <2>2. CASE route = "stream" \/ (route = "http" /\ "http" \notin parts)
      <3>1. R!Outcomes(route) =
              IF route = "stream" /\ asked.method = "POST" /\ ~asked.body THEN unheard
              ELSE IF "app" \in parts THEN done \union errors ELSE nothing
        BY <2>2 DEF R!Outcomes, done, errors, unheard, nothing
      <3> QED
        BY <1>2, <1>3, <2>2, <3>1
    <2>3. CASE route = "webhooks"
      <3>1. R!Outcomes(route) =
              IF "webhook" \notin parts THEN nameless
              ELSE (nameless \union unheard) \union (IF "app" \in parts THEN done ELSE {})
        <4>1. {<<R!Untyped, FALSE>>, <<R!Unknown, FALSE>>} = nameless \union unheard
          BY DEF nameless, unheard
        <4> QED
          BY <2>3, <4>1 DEF R!Outcomes, done, nameless
      <3> QED
        BY <1>2, <1>3, <2>3, <3>1
    <2>4. CASE route \notin {"http", "stream", "webhooks"}
      <3>1. R!Outcomes(route) = IF asked.body THEN nameless ELSE unheard
        BY <2>4 DEF R!Outcomes, nameless, unheard
      <3> QED
        BY <1>2, <1>3, <2>4, <3>1
    <2> QED
      BY <2>1, <2>2, <2>3, <2>4
  <1>5. o \in pairs /\ (route = "stream" /\ "app" \in parts => o \in done \union errors)
    <2> HIDE DEF done, errors, pairs
    <2> QED
      BY <1>4
  <1> QED
    BY <1>2, <1>5, Zenon

LEMMA RoutedStep == Routed /\ R!Next => Routed'
  <1> SUFFICES ASSUME Routed, R!Next PROVE Routed'
    OBVIOUS
  <1>u. UNCHANGED <<enabled, parts, asked>>
    BY DEF R!Next, R!NotHandled, R!Accept, R!Respond, R!Stream
  <1>f. R!Fitting' = R!Fitting /\ R!Route' = R!Route
    BY <1>u DEF R!Fitting, R!Fits, R!Route
  <1>h. ASSUME at' = "over",
               \A i \in DOMAIN response' : response'[i].body = "result" => real',
               escaped' /\ asked.ids => response' \in {<<>>, R!Reply(500, "error")},
               R!Fitting # {} /\ R!Route = "stream" /\ "app" \in parts /\ ~escaped' =>
                 response'[Len(response')].body = "done"
        PROVE  Routed'
    BY <1>f, <1>h, <1>u DEF Routed, R!RouterHonest, R!Reply
  <1>e. ASSUME NEW st, NEW body, body # "result"
        PROVE  \A i \in DOMAIN R!Reply(st, body) : R!Reply(st, body)[i].body # "result"
    BY <1>e DEF R!Reply
  <1>1. CASE R!NotHandled
    <2>1. at' = "over" /\ \E st : response' = R!Reply(st, "error")
      BY <1>1 DEF R!NotHandled
    <2>2. \/ R!Fitting = {} /\ ~escaped'
          \/ R!Fitting # {} /\ ~asked.ids /\ escaped'
      BY <1>1 DEF R!NotHandled
    <2> QED
      BY <1>e, <1>h, <2>1, <2>2
  <1>2. CASE R!Accept
    BY <1>2, <1>f DEF R!Accept, Routed, R!RouterHonest
  <1>3. CASE R!Respond
    <2>1. at' = "over" /\ R!Route # "stream"
      BY <1>3 DEF R!Respond, Routed
    <2>2. CASE R!Route = "graphql" /\ "graphql" \in parts /\ asked.body
      <3>1. response' = R!Reply(200, "errors") /\ ~escaped'
        BY <1>3, <2>2 DEF R!Respond, R!Executed
      <3> QED
        BY <1>e, <1>h, <2>1, <3>1
    <2>3. CASE ~(R!Route = "graphql" /\ "graphql" \in parts /\ asked.body)
      <3>1. PICK o \in R!Outcomes(R!Route) :
              /\ real' = o[2] /\ escaped' = ~R!Mappable(o[1])
              /\ response' = CASE o = <<R!Ok, TRUE>> -> R!Reply(200, "result")
                               [] o = <<R!Ok, FALSE>> -> R!Reply(200, "unhandled")
                               [] OTHER -> R!Reply(R!Status(R!Route, o[1]), "error")
        BY <1>3, <2>3 DEF R!Respond
      <3>2. PICK e \in R!Errors \union {R!Ok}, d \in BOOLEAN : o = <<e, d>>
        BY OutcomesOfRoutes
      <3>3. o[1] = e /\ o[2] = d
        BY <3>2
      <3>4. R!Mappable(R!Ok)
        BY DEF R!Mappable, R!Ok, R!Error
      <3>5. CASE e = R!Ok /\ d
        <4>1. response' = R!Reply(200, "result") /\ real' /\ ~escaped'
          BY <3>1, <3>2, <3>3, <3>4, <3>5
        <4> QED
          BY <1>h, <2>1, <4>1
      <3>6. CASE e = R!Ok /\ ~d
        <4>1. response' = R!Reply(200, "unhandled") /\ ~escaped'
          BY <3>1, <3>2, <3>3, <3>4, <3>6
        <4>2. \A i \in DOMAIN response' : response'[i].body # "result"
          BY <1>e, <4>1
        <4> QED
          BY <1>h, <2>1, <4>1, <4>2
      <3>7. CASE e # R!Ok
        <4>1. response' = R!Reply(R!Status(R!Route, e), "error")
          BY <3>1, <3>2, <3>3, <3>7
        <4>2. escaped' => ~R!Mappable(e)
          BY <3>1, <3>3
        <4>3. ~R!Mappable(e) => R!Status(R!Route, e) = 500
          BY DEF R!Status
        <4> QED
          BY <1>e, <1>h, <2>1, <4>1, <4>2, <4>3
      <3> QED
        BY <3>5, <3>6, <3>7
    <2> QED
      BY <2>2, <2>3
  <1>4. CASE R!Stream
    <2>1. at' = "over"
      BY <1>4 DEF R!Stream
    <2>2. PICK o \in R!Outcomes("stream") :
            /\ real' = o[2] /\ escaped' = ~R!Mappable(o[1])
            /\ response' = CASE o = <<R!Ok, TRUE>> -> <<R!Event("result"), R!Event("done")>>
                             [] o = <<R!Ok, FALSE>> -> <<R!Event("disabled")>>
                             [] OTHER -> R!Marked(o[1])
      BY <1>4 DEF R!Stream
    <2>3. PICK e \in R!Errors \union {R!Ok}, d \in BOOLEAN : o = <<e, d>>
      BY OutcomesOfRoutes
    <2>4. o[1] = e /\ o[2] = d
      BY <2>3
    <2>5. R!Mappable(R!Ok)
      BY DEF R!Mappable, R!Ok, R!Error
    <2>6. CASE e = R!Ok /\ d
      <3>1. response' = <<R!Event("result"), R!Event("done")>> /\ real' /\ ~escaped'
        BY <2>2, <2>3, <2>4, <2>5, <2>6
      <3>2. response'[Len(response')].body = "done"
        BY <3>1 DEF R!Event
      <3> QED
        BY <1>h, <2>1, <3>1, <3>2
    <2>7. CASE e = R!Ok /\ ~d
      <3>1. response' = <<R!Event("disabled")>> /\ ~escaped'
        BY <2>2, <2>3, <2>4, <2>5, <2>7
      <3>2. "app" \notin parts
        BY <2>2, <2>3, <2>7, OutcomesOfRoutes
      <3>3. \A i \in DOMAIN response' : response'[i].body # "result"
        BY <3>1 DEF R!Event
      <3> QED
        BY <1>h, <2>1, <3>1, <3>2, <3>3
    <2>8. CASE e # R!Ok
      <3>1. response' = IF R!Mappable(e) THEN <<R!Event("error"), R!Event("done")>> ELSE <<>>
        BY <2>2, <2>3, <2>4, <2>8 DEF R!Marked
      <3>2. escaped' <=> ~R!Mappable(e)
        BY <2>2, <2>4
      <3>3. \A i \in DOMAIN response' : response'[i].body # "result"
        BY <3>1 DEF R!Event
      <3>4. R!Mappable(e) => response'[Len(response')].body = "done"
        BY <3>1 DEF R!Event
      <3> QED
        BY <1>h, <2>1, <3>1, <3>2, <3>3, <3>4
    <2> QED
      BY <2>6, <2>7, <2>8
  <1> QED
    BY <1>1, <1>2, <1>3, <1>4 DEF R!Next

LEMMA RoutedStill == Routed /\ UNCHANGED rVars => Routed'
  BY DEF rVars, Routed, R!RouterHonest, R!Fitting, R!Fits, R!Route, R!Reply

------------------------------------------------------------------------------
(* The parts together: one runs, and the others stand still.                *)
EdgesInv == DeliveriesInv /\ LifeInv /\ StreamInv /\ Arrived /\ InTurn /\ ServerInv /\ Routed

LEMMA EdgesInit == Init => EdgesInv
  <1> SUFFICES ASSUME Init PROVE EdgesInv
    OBVIOUS
  <1>1. S!Init /\ C!Init /\ W!Init /\ F!Init
    BY DEF Init
  <1>2. B!Init \/ B!Begin(B!NoFile)
    BY DEF Init
  <1>3. E!Init \/ E!Begin("factory", <<>>, {}, E!NoRequest)
    BY DEF Init
  <1>4. R!Init \/ R!Begin({}, {}, CHOOSE r \in R!Requests : TRUE)
    BY DEF Init
  <1> QED
    BY <1>1, <1>2, <1>3, <1>4, DeliveriesInit, LifeInit, StreamInit, WiringInit, EntriesInit, ServerInit, RoutedInit
    DEF EdgesInv

LEMMA EdgesStep == EdgesInv /\ [Next]_vars => EdgesInv'
  <1> SUFFICES ASSUME EdgesInv, [Next]_vars PROVE EdgesInv'
    OBVIOUS
  <1>1. S!Next \/ UNCHANGED sVars
    BY DEF Next, vars
  <1>2. C!Next \/ UNCHANGED cVars
    BY DEF Next, vars
  <1>3. W!Next \/ UNCHANGED wVars
    BY DEF Next, vars
  <1>4. F!Next \/ UNCHANGED fVars
    BY DEF Next, vars
  <1>5. B!Next \/ UNCHANGED nVars
    BY DEF Next, vars
  <1>6. E!Next \/ UNCHANGED eVars
    BY DEF Next, vars
  <1>7. R!Next \/ UNCHANGED rVars
    BY DEF Next, vars
  <1>8. ServerInv' /\ StreamInv' /\ DeliveriesInv'
    BY <1>1, <1>2, <1>3, ServerStep, ServerStill, StreamStep, StreamStill, DeliveriesStep, DeliveriesStill DEF EdgesInv
  <1>9. LifeInv' /\ Arrived'
    BY <1>4, <1>5, LifeStep, LifeStill, WiringStep, WiringStill DEF EdgesInv
  <1>10. InTurn' /\ Routed'
    BY <1>6, <1>7, EntriesStep, EntriesStill, RoutedStep, RoutedStill DEF EdgesInv
  <1> QED
    BY <1>8, <1>9, <1>10 DEF EdgesInv

LEMMA EdgesAlways == Spec => []EdgesInv
  BY EdgesInit, EdgesStep, PTL DEF Spec

(* WebhookHandler: a webhook with an id is handed to the application once,  *)
(* unless its deliveries overlap or its id was forgotten between them.      *)
THEOREM HandledOnce == Spec => []WebhookInv
  <1>1. EdgesInv => WebhookInv
    BY DeliveriesSafe DEF EdgesInv
  <1> QED
    BY <1>1, EdgesAlways, PTL

(* Fabric: every component that was made is held in one place, the closed   *)
(* ones were closed in the reverse order of their places in the registry,   *)
(* and a fabric that counts as started has all of them, or is being closed, *)
(* or its closing was cut off.                                              *)
THEOREM ClosedInOrder == Spec => []ShutdownInv
  <1>1. EdgesInv => ShutdownInv
    BY LifeSafe DEF EdgesInv
  <1> QED
    BY <1>1, EdgesAlways, PTL

(* Wiring and Entries: every component has the settings that were asked     *)
(* for; every entry with a known name has its own handler, whatever the     *)
(* others are; and a hook that was declared is not lost.                    *)
THEOREM WiredAsAsked == Spec => []WiringInv
  <1>1. EdgesInv => WiringInv
    BY WiringSafe, EntriesSafe DEF EdgesInv, WiringInv
  <1> QED
    BY <1>1, EdgesAlways, PTL

(* ServerEdges: a message is answered once and completely, or a write of it *)
(* failed, or its work raised an error without a type.                      *)
THEOREM MessagesAnsweredOnce == Spec => []AnsweredOnce
  <1>1. EdgesInv => AnsweredOnce
    BY ServerSafe DEF EdgesInv
  <1> QED
    BY <1>1, EdgesAlways, PTL

(* ServerEdges, ClientStream, Router: nothing is answered as done that was  *)
(* not done, on any of the ways to the application or to a peer.            *)
THEOREM SuccessIsReal == Spec => []NoFalseSuccess
  <1>1. EdgesInv => NoFalseSuccess
    BY ServerSafe, StreamSafe DEF EdgesInv, Routed, NoFalseSuccess
  <1> QED
    BY <1>1, EdgesAlways, PTL
================================================================================
