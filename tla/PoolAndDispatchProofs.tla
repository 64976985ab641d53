-------------------------- MODULE PoolAndDispatchProofs -------------------------
(***************************************************************************)
(* Theorems about ChannelPool and about SessionDispatch, which uses it,    *)
(* for any tasks, sessions, channels and size of the queue.                *)
(* The pool: however acquire, release, the health check and shutdown       *)
(* interleave, and whatever fails, every channel is in one place, and an   *)
(* open one is in some place.  What the code keeps apart by where a task   *)
(* is (a channel is held exactly at some of the places) strengthens that   *)
(* to an inductive invariant.                                              *)
(* The dispatcher never asks whether a channel is somebody else's: that no *)
(* two sessions are routed to one rests on the pool handing out only idle  *)
(* or new channels, and on every release being preceded, in the same step, *)
(* by the removal of the route.                                            *)
(***************************************************************************)
EXTENDS SessionDispatch, TLAPS

(* What taking from the front and putting at the end do to a queue that     *)
(* holds nothing twice, as the pool's asyncio queue of idle channels does.  *)
Elems(q) == {q[i] : i \in DOMAIN q}

Distinct(q) == \A i, j \in DOMAIN q : q[i] = q[j] => i = j

(* Taking the first element out of a queue that holds every element once. *)
LEMMA TakeFirst ==
  ASSUME NEW S, NEW q \in Seq(S), q # <<>>, Distinct(q)
  PROVE  /\ Head(q) \in S /\ Head(q) \in Elems(q)
         /\ Tail(q) \in Seq(S) /\ Len(Tail(q)) = Len(q) - 1
         /\ Distinct(Tail(q))
         /\ Elems(Tail(q)) = Elems(q) \ {Head(q)}
  <1>1. /\ Len(q) \in Nat /\ Len(q) > 0 /\ DOMAIN q = 1..Len(q)
        /\ \A i \in DOMAIN q : q[i] \in S
    OBVIOUS
  <1>2. /\ Tail(q) \in Seq(S) /\ Len(Tail(q)) = Len(q) - 1
        /\ DOMAIN Tail(q) = 1..(Len(q) - 1)
        /\ \A i \in 1..(Len(q) - 1) : Tail(q)[i] = q[i + 1]
        /\ Head(q) = q[1]
    OBVIOUS
  <1>3. Distinct(Tail(q))
    BY <1>1, <1>2 DEF Distinct
  <1>4. Elems(Tail(q)) = Elems(q) \ {Head(q)}
    <2>1. ASSUME NEW c \in Elems(Tail(q))
          PROVE  c \in Elems(q) \ {Head(q)}
      BY <1>1, <1>2, <2>1 DEF Elems, Distinct
    <2>2. ASSUME NEW c \in Elems(q), c # Head(q)
          PROVE  c \in Elems(Tail(q))
      <3>1. PICK i \in 1..Len(q) : c = q[i]
        BY <1>1 DEF Elems
      <3>2. i # 1 /\ i - 1 \in 1..(Len(q) - 1)
        BY <1>1, <1>2, <2>2, <3>1
      <3>3. Tail(q)[i - 1] = c
        BY <1>2, <3>1, <3>2
      <3>4. QED
        BY <1>2, <3>2, <3>3 DEF Elems
    <2>3. QED
      BY <2>1, <2>2
  <1>5. Head(q) \in Elems(q)
    BY <1>1, <1>2, 1 \in DOMAIN q DEF Elems
  <1>6. QED
    BY <1>1, <1>2, <1>3, <1>4, <1>5

(* Putting an element that is not in the queue at its end. *)
LEMMA PutLast ==
  ASSUME NEW S, NEW q \in Seq(S), Distinct(q), NEW c \in S, c \notin Elems(q)
  PROVE  /\ Append(q, c) \in Seq(S) /\ Len(Append(q, c)) = Len(q) + 1
         /\ Distinct(Append(q, c))
         /\ Elems(Append(q, c)) = Elems(q) \cup {c}
  <1>1. /\ Len(q) \in Nat /\ DOMAIN q = 1..Len(q)
        /\ Append(q, c) \in Seq(S) /\ Len(Append(q, c)) = Len(q) + 1
        /\ DOMAIN Append(q, c) = 1..(Len(q) + 1)
        /\ \A i \in 1..Len(q) : Append(q, c)[i] = q[i]
        /\ Append(q, c)[Len(q) + 1] = c
    OBVIOUS
  <1>2. Distinct(Append(q, c))
    BY <1>1 DEF Distinct, Elems
  <1>3. Elems(Append(q, c)) = Elems(q) \cup {c}
    BY <1>1 DEF Elems
  <1>4. QED
    BY <1>1, <1>2, <1>3

(* Moving the first element to the end keeps what is in the queue. *)
LEMMA Rotate ==
  ASSUME NEW S, NEW q \in Seq(S), q # <<>>, Distinct(q)
  PROVE  /\ Append(Tail(q), Head(q)) \in Seq(S)
         /\ Len(Append(Tail(q), Head(q))) = Len(q)
         /\ Distinct(Append(Tail(q), Head(q)))
         /\ Elems(Append(Tail(q), Head(q))) = Elems(q)
  <1> DEFINE h == Head(q)
             r == Tail(q)
  <1>1. /\ h \in S /\ h \in Elems(q) /\ r \in Seq(S) /\ Distinct(r)
        /\ Len(r) = Len(q) - 1 /\ Elems(r) = Elems(q) \ {h}
    BY TakeFirst
  <1>2. Len(q) \in Nat
    OBVIOUS
  <1>3. h \notin Elems(r)
    BY <1>1
  <1> HIDE DEF h, r
  <1>4. /\ Append(r, h) \in Seq(S) /\ Len(Append(r, h)) = Len(r) + 1
        /\ Distinct(Append(r, h)) /\ Elems(Append(r, h)) = Elems(r) \cup {h}
    BY <1>1, <1>3, PutLast
  <1>5. Len(Append(r, h)) = Len(q) /\ Elems(Append(r, h)) = Elems(q)
    <2>1. Len(Append(r, h)) = Len(q)
      BY <1>1, <1>2, <1>4
    <2>2. Elems(Append(r, h)) = Elems(q)
      BY <1>1, <1>4
    <2>3. QED
      BY <2>1, <2>2
  <1>6. QED
    BY <1>4, <1>5 DEF h, r

------------------------------------------------------------------------------
(* A call, the health check and the shutdown hold a channel exactly at the  *)
(* places where the code has one in a local variable.                       *)
Held ==
  /\ \A u \in Tasks : op[u].ch # NoChannel <=> op[u].at \in {"got", "putting", "discarding"}
  /\ check.ch # NoChannel <=> check.at = "closing"
  /\ drain.ch # NoChannel <=> drain.at = "closing"

Apart ==
  /\ Elems(queue) \cap borrowed = {}
  /\ \A u \in Tasks : op[u].ch # NoChannel => op[u].ch \in borrowed
  /\ \A u, v \in Tasks : op[u].ch = op[v].ch => u = v \/ op[u].ch = NoChannel
  /\ check.ch \notin Elems(queue) \cup borrowed
  /\ drain.ch \notin Elems(queue) \cup borrowed
  /\ check.ch = drain.ch => check.ch = NoChannel
  /\ \A c \in Elems(queue) \cup borrowed \cup ({check.ch, drain.ch} \ {NoChannel}) :
       chan[c] # "unborn"
  /\ \A c \in Channels :
       chan[c] = "active" => c \in Elems(queue) \cup borrowed \cup {check.ch, drain.ch}

PoolIInv == PoolTypes /\ Distinct(queue) /\ Held /\ Apart

(* The inductive invariant is what the run checks and where tasks are.      *)
LEMMA IInvPoolInv == PoolIInv <=> PoolInv /\ Held
  BY DEF PoolIInv, PoolInv, OnePlace, NoneLost, Apart, Distinct, Elems, Idle

(* Closing a channel leaves it neither active nor unborn, others alone. *)
LEMMA Closing ==
  ASSUME PoolTypes, NEW c \in Channels, chan[c] # "unborn", NEW ok, CloseChannel(c, ok)
  PROVE  /\ chan' \in [Channels -> ChannelStates]
         /\ chan'[c] \notin {"active", "unborn"}
         /\ \A d \in Channels : d # c => chan'[d] = chan[d]
  <1>1. CASE chan[c] \in {"closed", "draining"} /\ UNCHANGED chan
    BY <1>1 DEF PoolTypes
  <1>2. CASE chan' = [chan EXCEPT ![c] = IF ok THEN "closed" ELSE "failed"]
    BY <1>2 DEF PoolTypes, ChannelStates
  <1>3. QED
    BY <1>1, <1>2 DEF CloseChannel

(* An empty pool has it.                                                    *)
LEMMA PoolInitIInv == PoolInit => PoolIInv
  <1> SUFFICES ASSUME PoolInit
               PROVE  PoolIInv
    OBVIOUS
  <1> USE DEF PoolInit, Out
  <1>1. PoolTypes
    <2>1. <<>> \in Seq(Channels) /\ Len(<<>>) <= MaxSize
      BY PoolAssumption, DispatchAssumption
    <2>2. op \in [Tasks -> [at : {"out"}, ch : {NoChannel}]]
      OBVIOUS
    <2>3. QED
      BY <2>1, <2>2 DEF PoolTypes, ChannelStates
  <1>2. Distinct(queue) /\ Elems(queue) = {}
    <2>1. DOMAIN queue = {}
      OBVIOUS
    <2>2. QED
      BY <2>1 DEF Distinct, Elems
  <1>3. Held
    BY DEF Held
  <1>4. Apart
    BY <1>2 DEF Apart
  <1>5. QED
    BY <1>1, <1>2, <1>3, <1>4 DEF PoolIInv

(* What every step may use: the facts of the queue and of the places.       *)
LEMMA PoolNextIInv == PoolIInv /\ [PoolNext]_(poolVars) => PoolIInv'
  <1> SUFFICES ASSUME PoolIInv, [PoolNext]_(poolVars)
               PROVE  PoolIInv'
    OBVIOUS
  <1> USE PoolAssumption, DispatchAssumption
  <1>t. PoolTypes /\ Distinct(queue) /\ Held /\ Apart
    BY DEF PoolIInv
  <1>q. queue # <<>> =>
          /\ Head(queue) \in Channels /\ Head(queue) \in Elems(queue)
          /\ Tail(queue) \in Seq(Channels) /\ Len(Tail(queue)) = Len(queue) - 1
          /\ Distinct(Tail(queue))
          /\ Elems(Tail(queue)) = Elems(queue) \ {Head(queue)}
    BY <1>t, TakeFirst DEF PoolTypes
  <1>p. \A c \in Channels : c \notin Elems(queue) =>
          /\ Append(queue, c) \in Seq(Channels) /\ Len(Append(queue, c)) = Len(queue) + 1
          /\ Distinct(Append(queue, c))
          /\ Elems(Append(queue, c)) = Elems(queue) \cup {c}
    BY <1>t, PutLast DEF PoolTypes
  <1>e. Elems(queue) \subseteq Channels
    BY <1>t DEF PoolTypes, Elems
  <1>1. ASSUME NEW u \in Tasks, TakeIdle(u)
        PROVE  PoolIInv'
    <2>1. PoolTypes'
      BY <1>1, <1>t, <1>q DEF TakeIdle, Goto, PoolTypes
    <2>2. QED
      BY <1>1, <1>t, <1>q, <2>1 DEF TakeIdle, Goto, PoolTypes, PoolIInv, Held, Apart
  <1>2. ASSUME NEW u \in Tasks, StartCreate(u)
        PROVE  PoolIInv'
    BY <1>2, <1>t DEF StartCreate, Goto, PoolTypes, PoolIInv, Held, Apart
  <1>3. ASSUME NEW u \in Tasks, NEW c \in Channels, Created(u, c)
        PROVE  PoolIInv'
    BY <1>3, <1>t DEF Created, Goto, PoolTypes, ChannelStates, PoolIInv, Held, Apart
  <1>4. ASSUME NEW u \in Tasks, CreateFailed(u) \/ Leave(u)
        PROVE  PoolIInv'
    BY <1>4, <1>t DEF CreateFailed, Leave, Out, PoolTypes, PoolIInv, Held, Apart
  <1>5. ASSUME NEW u \in Tasks, NEW c \in Channels, Put(u, c), HasRoom, Scheduled,
               c \in borrowed, op[u].at \in {"out", "putting"},
               \A v \in Tasks : v # u => op[v].ch # c
        PROVE  PoolIInv'
    <2>1. c \notin Elems(queue)
      BY <1>5, <1>t DEF Apart
    <2>2. PoolTypes'
      BY <1>5, <1>t, <1>p, <2>1 DEF Put, HasRoom, Out, PoolTypes
    <2>3. QED
      BY <1>5, <1>t, <1>p, <2>1, <2>2 DEF Put, Out, PoolTypes, PoolIInv, Held, Apart
  <1>6. ASSUME NEW u \in Tasks, ReleaseOwn(u)
        PROVE  PoolIInv'
    <2>1. PICK c \in borrowed : (\A v \in Tasks : op[v].ch # c) /\ Release(u, c)
      BY <1>6 DEF ReleaseOwn
    <2>2. c \in Channels
      BY <1>t DEF PoolTypes
    <2>3. CASE ~Unfit(c) /\ Len(queue) < MaxSize /\ Put(u, c)
      BY <2>1, <2>2, <2>3, <1>5 DEF Release, HasRoom
    <2>4. CASE \E place \in {"discarding", "putting"} :
                 Goto(u, place, c)
                 /\ UNCHANGED <<chan, queue, closed, stamp, borrowed, check, drain>>
      BY <2>1, <2>2, <2>4, <1>t DEF Release, Goto, PoolTypes, PoolIInv, Held, Apart
    <2>5. QED
      BY <2>1, <2>3, <2>4 DEF Release
  <1>7. ASSUME NEW u \in Tasks, BlockedPut(u)
        PROVE  PoolIInv'
    BY <1>7, <1>t, <1>5 DEF BlockedPut, PoolTypes, Held, Apart
  <1>8. ASSUME NEW u \in Tasks, NEW ok \in BOOLEAN, Discarded(u, ok)
        PROVE  PoolIInv'
    <2>1. op[u].ch \in Channels /\ chan[op[u].ch] # "unborn"
      BY <1>8, <1>t DEF Discarded, PoolTypes, Held, Apart
    <2>2. /\ chan' \in [Channels -> ChannelStates]
          /\ chan'[op[u].ch] \notin {"active", "unborn"}
          /\ \A d \in Channels : d # op[u].ch => chan'[d] = chan[d]
      BY <1>8, <1>t, <2>1, Closing DEF Discarded
    <2>3. PoolTypes'
      BY <1>8, <1>t, <2>2 DEF Discarded, Out, PoolTypes
    <2>4. Held'
      BY <1>8, <1>t, <2>1 DEF Discarded, Out, PoolTypes, Held
    <2>5. Distinct(queue)' /\ Apart'
      BY <1>8, <1>t, <1>e, <2>1, <2>2 DEF Discarded, Out, PoolTypes, Held, Apart
    <2>6. QED
      BY <2>3, <2>4, <2>5 DEF PoolIInv
  <1>9. CASE StartCheck
    BY <1>9, <1>t DEF StartCheck, StaleIds, PoolTypes, PoolIInv, Held, Apart
  <1>10. CASE PutBack
    <2>1. /\ Append(Tail(queue), Head(queue)) \in Seq(Channels)
          /\ Len(Append(Tail(queue), Head(queue))) = Len(queue)
          /\ Distinct(Append(Tail(queue), Head(queue)))
          /\ Elems(Append(Tail(queue), Head(queue))) = Elems(queue)
      BY <1>10, <1>t, Rotate DEF PutBack, PoolTypes
    <2>2. QED
      BY <1>10, <1>t, <2>1 DEF PutBack, PoolTypes, PoolIInv, Held, Apart
  <1>11. CASE CheckClose
    <2>1. PoolTypes'
      <3>1. check' = [check EXCEPT !.at = "closing", !.ch = Head(queue)] /\ Head(queue) \in Channels
        BY <1>11, <1>q DEF CheckClose
      <3>2. queue' \in Seq(Channels) /\ Len(queue') <= MaxSize
        BY <1>11, <1>t, <1>q DEF CheckClose, PoolTypes
      <3>3. QED
        BY <1>11, <1>t, <3>1, <3>2 DEF CheckClose, PoolTypes
    <2>2. Held'
      BY <1>11, <1>t, <1>q DEF CheckClose, PoolTypes, Held
    <2>3. Distinct(queue)' /\ Apart'
      BY <1>11, <1>t, <1>q DEF CheckClose, PoolTypes, Held, Apart
    <2>4. QED
      BY <2>1, <2>2, <2>3 DEF PoolIInv
  <1>12. ASSUME NEW ok \in BOOLEAN, CheckClosed(ok)
         PROVE  PoolIInv'
    <2>1. check.ch \in Channels /\ chan[check.ch] # "unborn"
      BY <1>12, <1>t DEF CheckClosed, PoolTypes, Held, Apart
    <2>2. /\ chan' \in [Channels -> ChannelStates]
          /\ chan'[check.ch] \notin {"active", "unborn"}
          /\ \A d \in Channels : d # check.ch => chan'[d] = chan[d]
      BY <1>12, <1>t, <2>1, Closing DEF CheckClosed
    <2>3. PoolTypes'
      BY <1>12, <1>t, <2>2 DEF CheckClosed, PoolTypes
    <2>4. Held'
      BY <1>12, <1>t, <2>1 DEF CheckClosed, PoolTypes, Held
    <2>5. Distinct(queue)' /\ Apart'
      BY <1>12, <1>t, <1>e, <2>1, <2>2 DEF CheckClosed, PoolTypes, Held, Apart
    <2>6. QED
      BY <2>3, <2>4, <2>5 DEF PoolIInv
  <1>13. CASE EndCheck
    BY <1>13, <1>t DEF EndCheck, PoolTypes, PoolIInv, Held, Apart
  <1>14. CASE StartDrain
    BY <1>14, <1>t DEF StartDrain, PoolTypes, PoolIInv, Held, Apart
  <1>15. CASE DrainNext
    <2>1. PoolTypes'
      <3>1. drain' = [drain EXCEPT !.at = "closing", !.ch = Head(queue)] /\ Head(queue) \in Channels
        BY <1>15, <1>q DEF DrainNext
      <3>2. queue' \in Seq(Channels) /\ Len(queue') <= MaxSize
        BY <1>15, <1>t, <1>q DEF DrainNext, PoolTypes
      <3>3. QED
        BY <1>15, <1>t, <3>1, <3>2 DEF DrainNext, PoolTypes
    <2>2. Held'
      BY <1>15, <1>t, <1>q DEF DrainNext, PoolTypes, Held
    <2>3. Distinct(queue)' /\ Apart'
      BY <1>15, <1>t, <1>q DEF DrainNext, PoolTypes, Held, Apart
    <2>4. QED
      BY <2>1, <2>2, <2>3 DEF PoolIInv
  <1>16. ASSUME NEW ok \in BOOLEAN, Drained(ok)
         PROVE  PoolIInv'
    <2>1. drain.ch \in Channels /\ chan[drain.ch] # "unborn"
      BY <1>16, <1>t DEF Drained, PoolTypes, Held, Apart
    <2>2. /\ chan' \in [Channels -> ChannelStates]
          /\ chan'[drain.ch] \notin {"active", "unborn"}
          /\ \A d \in Channels : d # drain.ch => chan'[d] = chan[d]
      BY <1>16, <1>t, <2>1, Closing DEF Drained
    <2>3. PoolTypes'
      BY <1>16, <1>t, <2>2 DEF Drained, PoolTypes
    <2>4. Held'
      BY <1>16, <1>t, <2>1 DEF Drained, PoolTypes, Held
    <2>5. Distinct(queue)' /\ Apart'
      BY <1>16, <1>t, <1>e, <2>1, <2>2 DEF Drained, PoolTypes, Held, Apart
    <2>6. QED
      BY <2>3, <2>4, <2>5 DEF PoolIInv
  <1>17. CASE EndDrain
    BY <1>17, <1>t DEF EndDrain, PoolTypes, PoolIInv, Held, Apart
  <1>18. ASSUME NEW c \in Channels, NEW s \in ChannelStates, Break(c, s)
         PROVE  PoolIInv'
    BY <1>18, <1>t DEF Break, ChannelStates, PoolTypes, PoolIInv, Held, Apart
  <1>19. ASSUME NEW c \in Channels, Age(c)
         PROVE  PoolIInv'
    BY <1>19, <1>t DEF Age, PoolTypes, PoolIInv, Held, Apart
  <1>20. CASE UNCHANGED poolVars
    BY <1>20, <1>t DEF poolVars, PoolTypes, PoolIInv, Held, Apart
  <1>21. QED
    BY <1>1, <1>2, <1>3, <1>4, <1>6, <1>7, <1>8, <1>9, <1>10, <1>11, <1>12, <1>13,
       <1>14, <1>15, <1>16, <1>17, <1>18, <1>19, <1>20
    DEF PoolNext, Create, Discard, Check, Drain

(* Every channel is in one place and no open one is lost, for any number of *)
(* users and channels: no two users are ever given the same channel, and    *)
(* neither the health check nor shutdown closes one that is in use.         *)
THEOREM PoolInvariant == PoolSpec => []PoolInv
  BY PoolInitIInv, PoolNextIInv, IInvPoolInv, PTL DEF PoolSpec

------------------------------------------------------------------------------
(* What shutdown leaves behind.  Once the pool is closed no release() starts *)
(* to wait for room, so only those that waited before can still fill it.     *)
LatePuts ==
  /\ drain.at # "off" => closed
  /\ closed => \A u \in Tasks : op[u].at = "putting" => op[u].ch \in drain.late
  /\ drain.at = "done" => Elems(queue) \subseteq drain.late

(* Nobody waits for room in a pool that is not closed,                      *)
LEMMA InitLatePuts == PoolInit => LatePuts
  BY DEF PoolInit, LatePuts

(* and a step that closes it notes who does.                                *)
LEMMA NextLatePuts == PoolIInv /\ LatePuts /\ [PoolNext]_(poolVars) => LatePuts'
  <1> SUFFICES ASSUME PoolIInv, LatePuts, [PoolNext]_(poolVars)
               PROVE  LatePuts'
    OBVIOUS
  <1>t. PoolTypes /\ Distinct(queue) /\ Held /\ Apart
    BY DEF PoolIInv
  <1>q. queue # <<>> =>
          /\ Tail(queue) \in Seq(Channels) /\ Head(queue) \in Elems(queue)
          /\ Head(queue) \in Channels /\ Distinct(Tail(queue))
          /\ Elems(Tail(queue)) = Elems(queue) \ {Head(queue)}
    BY <1>t, TakeFirst DEF PoolTypes
  <1>1. ASSUME NEW u \in Tasks,
               TakeIdle(u) \/ StartCreate(u) \/ Create(u) \/ Leave(u) \/ Discard(u)
        PROVE  LatePuts'
    BY <1>1, <1>t, <1>q
    DEF TakeIdle, StartCreate, Create, Created, CreateFailed, Leave,
        Discard, Discarded,
        Goto, Out, PoolTypes, LatePuts
  <1>2. ASSUME NEW u \in Tasks, NEW c \in Channels, Put(u, c), c \notin Elems(queue),
               drain.at = "done" => c \in drain.late
        PROVE  LatePuts'
    <2>1. Elems(queue') = Elems(queue) \cup {c}
      BY <1>2, <1>t, PutLast DEF Put, PoolTypes
    <2>2. QED
      BY <1>2, <1>t, <2>1 DEF Put, Out, PoolTypes, LatePuts
  <1>3. ASSUME NEW u \in Tasks, BlockedPut(u)
        PROVE  LatePuts'
    <2>1. op[u].ch \in Channels /\ op[u].ch \notin Elems(queue)
      BY <1>3, <1>t DEF BlockedPut, PoolTypes, Held, Apart
    <2>2. drain.at = "done" => op[u].ch \in drain.late
      BY <1>3 DEF BlockedPut, LatePuts
    <2>3. QED
      BY <1>2, <1>3, <2>1, <2>2 DEF BlockedPut
  <1>4. ASSUME NEW u \in Tasks, ReleaseOwn(u)
        PROVE  LatePuts'
    <2>1. PICK c \in borrowed : Release(u, c)
      BY <1>4 DEF ReleaseOwn
    <2>2. c \in Channels /\ c \notin Elems(queue)
      BY <2>1, <1>t DEF PoolTypes, Apart
    <2>3. CASE ~Unfit(c) /\ Put(u, c)
      <3>1. drain.at # "done"
        BY <2>3 DEF Unfit, LatePuts
      <3>2. QED
        BY <1>2, <2>2, <2>3, <3>1
    <2>4. CASE Unfit(c) /\ Goto(u, "discarding", c)
               /\ UNCHANGED <<chan, queue, closed, stamp, borrowed, check, drain>>
      BY <2>4, <1>t DEF Goto, PoolTypes, LatePuts
    <2>5. CASE ~closed /\ Goto(u, "putting", c)
               /\ UNCHANGED <<chan, queue, closed, stamp, borrowed, check, drain>>
      BY <2>5, <1>t DEF Goto, PoolTypes, LatePuts
    <2>6. QED
      BY <2>1, <2>3, <2>4, <2>5 DEF Release, Unfit
  <1>5. CASE PutBack
    <2>1. Elems(Append(Tail(queue), Head(queue))) = Elems(queue)
      BY <1>5, <1>t, Rotate DEF PutBack, PoolTypes
    <2>2. QED
      BY <1>5, <2>1 DEF PutBack, LatePuts
  <1>6. CASE StartCheck \/ CheckClose \/ EndCheck \/ \E ok \in BOOLEAN : CheckClosed(ok)
    <2>1. CASE CheckClose
      BY <2>1, <1>q DEF CheckClose, LatePuts
    <2>2. CASE StartCheck \/ EndCheck \/ \E ok \in BOOLEAN : CheckClosed(ok)
      <3>1. UNCHANGED <<queue, closed, op, drain>>
        BY <2>2 DEF StartCheck, EndCheck, CheckClosed
      <3>2. QED
        BY <3>1 DEF LatePuts
    <2>3. QED
      BY <1>6, <2>1, <2>2
  <1>7. CASE StartDrain
    BY <1>7, <1>t DEF StartDrain, PoolTypes, LatePuts
  <1>8. CASE DrainNext \/ \E ok \in BOOLEAN : Drained(ok)
    BY <1>8, <1>t DEF DrainNext, Drained, PoolTypes, LatePuts
  <1>9. CASE EndDrain
    <2>1. Elems(queue) = {}
      BY <1>9 DEF EndDrain, Elems
    <2>2. QED
      BY <1>9, <1>t, <2>1 DEF EndDrain, PoolTypes, LatePuts
  <1>10. CASE \E c \in Channels : Age(c) \/ \E s \in ChannelStates : Break(c, s)
    BY <1>10 DEF Age, Break, LatePuts
  <1>11. CASE UNCHANGED poolVars
    BY <1>11 DEF poolVars, LatePuts
  <1>12. QED
    BY <1>1, <1>3, <1>4, <1>5, <1>6, <1>7, <1>8, <1>9, <1>10, <1>11
    DEF PoolNext, Check, Drain

(* When close() has run to its end, the only channels left in the queue are *)
(* those of release() calls that were waiting for room when it began.       *)
THEOREM PoolDrainReclaims == PoolSpec => []DrainReclaims
  <1>1. LatePuts => DrainReclaims
    BY DEF LatePuts, DrainReclaims, Elems, Idle
  <1>2. QED
    BY PoolInitIInv, PoolNextIInv, InitLatePuts, NextLatePuts, <1>1, PTL DEF PoolSpec

------------------------------------------------------------------------------
(* A creation or a hand-out is of a channel that was in nobody's hands.     *)
Born == \A c \in borrowed \cup Elems(queue) : chan[c] # "unborn"

(* Only close_all() leaves a task with sessions to release. *)
TodoOnlyAfterCloseAll == \A t \in Tasks : todo[t] # {} => closedAll

IInv == DispatchInv /\ Born /\ TodoOnlyAfterCloseAll

(* The idle channels are those in the queue.                                *)
LEMMA IdleIsElems == Idle = Elems(queue)
  BY DEF Idle, Elems

(* At first nothing is bound or routed.                                     *)
LEMMA InitIInv == Init => IInv
  <1> SUFFICES ASSUME Init
               PROVE  IInv
    OBVIOUS
  <1> USE PoolAssumption, DispatchAssumption
  <1>1. /\ chan = [c \in Channels |-> "unborn"] /\ queue = <<>> /\ closed = FALSE
        /\ stamp = [c \in Channels |-> "none"] /\ borrowed = {}
        /\ op = [t \in Tasks |-> [at |-> "out", ch |-> NoChannel]]
        /\ check = [at |-> "off", stale |-> {}, ch |-> NoChannel]
        /\ drain = [at |-> "off", ch |-> NoChannel, late |-> {}]
    BY DEF Init, PoolInit, Out
  <1>2. DOMAIN queue = {} /\ Elems(queue) = {} /\ queue \in Seq(Channels) /\ Len(queue) <= MaxSize
    <2>1. DOMAIN queue = {} /\ queue \in Seq(Channels) /\ Len(queue) = 0
      BY <1>1
    <2>2. QED
      BY <2>1 DEF Elems
  <1>3. PoolTypes
    <2>1. op \in [Tasks -> [at : {"out"}, ch : {NoChannel}]]
      BY <1>1
    <2>2. QED
      BY <1>1, <1>2, <2>1 DEF PoolTypes, ChannelStates
  <1>4. TypeOK
    BY <1>1, <1>3 DEF Init, TypeOK, Unbound
  <1>5. LockHeld
    BY <1>1 DEF Init, LockHeld
  <1>6. RouterExclusive
    BY <1>1, <1>2, IdleIsElems DEF Init, RouterExclusive, Routed, Unbound
  <1>7. BindingsAreRoutes /\ Born /\ TodoOnlyAfterCloseAll
    BY <1>1, <1>2 DEF Init, BindingsAreRoutes, Born, TodoOnlyAfterCloseAll
  <1>8. QED
    BY <1>4, <1>5, <1>6, <1>7 DEF IInv, DispatchInv

------------------------------------------------------------------------------
(* The conjuncts of the invariant, in the form the steps use.               *)
Separate ==
  /\ \A s, r \in Sessions : routes[s] = routes[r] /\ routes[s] # NoChannel => s = r
  /\ \A s \in Sessions : routes[s] # NoChannel => routes[s] \in borrowed
  /\ Elems(queue) \cap borrowed = {}
  /\ Distinct(queue)
  /\ \A t \in Tasks : op[t].at = "putting" =>
       op[t].ch \in borrowed /\ \A s \in Sessions : routes[s] # op[t].ch
  /\ \A t, u \in Tasks :
       op[t].at = "putting" /\ op[u].at = "putting" /\ op[t].ch = op[u].ch => t = u

(* What the run says of routes and channels, taken apart.                   *)
LEMMA RouterIsSeparate == TypeOK => (RouterExclusive <=> Separate)
  <1> SUFFICES ASSUME TypeOK
               PROVE  RouterExclusive <=> Separate
    OBVIOUS
  <1>1. Routed = {routes[s] : s \in Sessions} \ {NoChannel}
    BY DEF Routed
  <1>2. borrowed \subseteq Channels /\ NoChannel \notin Channels
    BY PoolAssumption, DispatchAssumption DEF TypeOK, PoolTypes
  <1>3. QED
    BY <1>1, <1>2, IdleIsElems DEF RouterExclusive, Separate, Distinct

(* The types, with the pool's spelled out. *)
Types ==
  /\ chan \in [Channels -> ChannelStates]
  /\ queue \in Seq(Channels) /\ Len(queue) <= MaxSize
  /\ stamp \in [Channels -> {"none", "fresh", "stale"}]
  /\ op \in [Tasks -> [at : {"out", "creating", "got", "putting", "discarding"},
                       ch : Channels \cup {NoChannel}]]
  /\ borrowed \subseteq Channels
  /\ lock \in Tasks \cup {NoTask}
  /\ bindings \in [Sessions -> Channels \cup {NoChannel}]
  /\ routes \in [Sessions -> Channels \cup {NoChannel}]
  /\ serving \in [Tasks -> Sessions]
  /\ todo \in [Tasks -> SUBSET Sessions]
  /\ closedAll \in BOOLEAN

Aside ==
  /\ closed = FALSE
  /\ check \in [at : {"off", "loop", "closing"}, stale : SUBSET Channels,
                ch : Channels \cup {NoChannel}]
  /\ drain \in [at : {"off", "loop", "closing", "done", "raised"},
                ch : Channels \cup {NoChannel}, late : SUBSET Channels]
  /\ check.at = "off" /\ drain.at = "off"
  /\ lookup \in BOOLEAN

(* The types, apart from those of the health check and close() of the pool, *)
(* which the dispatcher never starts,                                       *)
LEMMA TypesAside == TypeOK <=> Types /\ Aside
  BY DEF TypeOK, PoolTypes, Types, Aside

Rest == LockHeld /\ BindingsAreRoutes /\ Born /\ TodoOnlyAfterCloseAll

(* and the invariant as parts that steps disturb separately.                *)
LEMMA IInvParts == IInv <=> Types /\ Aside /\ Separate /\ Rest
  BY TypesAside, RouterIsSeparate DEF IInv, DispatchInv, Rest

(* Putting a channel back that is routed to nobody and in nobody else's     *)
(* hands, whichever call does it.                                           *)
LEMMA PutKeeps ==
  ASSUME Types, Separate, Born, NEW t \in Tasks, NEW c \in borrowed, Put(t, c),
         Len(queue) < MaxSize,
         \A s \in Sessions : routes'[s] # NoChannel => routes'[s] = routes[s] /\ routes[s] # c,
         \A u \in Tasks : u # t /\ op[u].at = "putting" => op[u].ch # c
  PROVE  /\ chan' \in [Channels -> ChannelStates]
         /\ queue' \in Seq(Channels) /\ Len(queue') <= MaxSize
         /\ stamp' \in [Channels -> {"none", "fresh", "stale"}]
         /\ op' = [op EXCEPT ![t] = [at |-> "out", ch |-> NoChannel]]
         /\ borrowed' \subseteq Channels
         /\ Separate' /\ Born'
  <1>1. c \in Channels /\ c \notin Elems(queue)
    BY DEF Types, Separate
  <1>2. /\ queue' \in Seq(Channels) /\ Len(queue') = Len(queue) + 1
        /\ Distinct(queue') /\ Elems(queue') = Elems(queue) \cup {c}
    BY <1>1, PutLast DEF Put, Types, Separate
  <1>3. Len(queue') <= MaxSize
    BY <1>2, PoolAssumption, DispatchAssumption DEF Types
  <1>4. /\ op' = [op EXCEPT ![t] = [at |-> "out", ch |-> NoChannel]]
        /\ borrowed' = borrowed \ {c} /\ chan' = chan
        /\ stamp' = [stamp EXCEPT ![c] = "fresh"]
    BY DEF Put, Out
  <1>5. \A u \in Tasks : op'[u].at = "putting" => u # t /\ op'[u] = op[u]
    BY <1>4 DEF Types
  <1>6. Separate'
    <2>1. Distinct(queue') /\ Elems(queue') \cap borrowed' = {}
      BY <1>2, <1>4 DEF Separate
    <2>2. /\ \A s, r \in Sessions : routes'[s] = routes'[r] /\ routes'[s] # NoChannel => s = r
          /\ \A s \in Sessions : routes'[s] # NoChannel => routes'[s] \in borrowed'
      BY <1>4 DEF Separate
    <2>3. ASSUME NEW u \in Tasks, op'[u].at = "putting"
          PROVE  op'[u].ch \in borrowed' /\ \A s \in Sessions : routes'[s] # op'[u].ch
      <3>1. op[u].at = "putting" /\ op'[u].ch = op[u].ch /\ op[u].ch # c
        BY <1>5, <2>3
      <3>2. op[u].ch \in borrowed /\ op[u].ch # NoChannel
        BY <3>1, PoolAssumption, DispatchAssumption DEF Separate, Types
      <3>3. QED
        BY <1>4, <3>1, <3>2 DEF Separate
    <2>4. \A u, v \in Tasks :
            op'[u].at = "putting" /\ op'[v].at = "putting" /\ op'[u].ch = op'[v].ch => u = v
      BY <1>5 DEF Separate
    <2>5. QED
      BY <2>1, <2>2, <2>3, <2>4 DEF Separate
  <1>7. Born'
    BY <1>2, <1>4 DEF Born
  <1>8. QED
    BY <1>2, <1>3, <1>4, <1>6, <1>7 DEF Types

(* What the release of a session's channel does, in release_session and in  *)
(* close_all: nothing, or the channel is put back, or the task waits for    *)
(* room with a channel that is no longer routed.                            *)
PooledTypes ==
  /\ chan \in [Channels -> ChannelStates]
  /\ queue \in Seq(Channels) /\ Len(queue) <= MaxSize
  /\ stamp \in [Channels -> {"none", "fresh", "stale"}]
  /\ op \in [Tasks -> [at : {"out", "creating", "got", "putting", "discarding"},
                       ch : Channels \cup {NoChannel}]]
  /\ borrowed \subseteq Channels

(* Letting go of a channel keeps it: its route goes in the same step.       *)
LEMMA LetGoKeeps ==
  ASSUME Types, Aside, Separate, Born, NEW t \in Tasks, NEW s \in Sessions,
         op[t].at = "out", routes' = Drop(routes, s),
         IF Resolves(s) THEN Release(t, routes[s]) ELSE UNCHANGED poolVars
  PROVE  /\ PooledTypes' /\ Separate' /\ Born'
         /\ closed' = closed /\ check' = check /\ drain' = drain
         /\ \A u \in Tasks : u # t => op'[u] = op[u]
         /\ op'[t] = [at |-> "out", ch |-> NoChannel] \/ op'[t].at = "putting" \/ op'[t] = op[t]
  <1>1. /\ \A r \in Sessions : r # s => routes'[r] = routes[r]
        /\ routes'[s] = NoChannel
    BY DEF Drop, Types
  <1>2. CASE ~Resolves(s)
    <2>1. UNCHANGED poolVars
      BY <1>2
    <2>2. PooledTypes' /\ Born'
      BY <2>1 DEF poolVars, Types, PooledTypes, Born
    <2>3. Separate'
      <3>1. \A u \in Tasks : op[u].at = "putting" => op[u].ch # NoChannel
        BY PoolAssumption, DispatchAssumption DEF Types, Separate
      <3>2. QED
        BY <1>1, <2>1, <3>1 DEF poolVars, Separate
    <2>4. QED
      BY <2>1, <2>2, <2>3 DEF poolVars
  <1>3. ASSUME Resolves(s)
        PROVE  /\ routes[s] \in borrowed /\ routes[s] \in Channels /\ ~Unfit(routes[s])
               /\ \A u \in Tasks : op[u].at = "putting" => op[u].ch # routes[s]
               /\ \A r \in Sessions : routes'[r] # NoChannel =>
                    routes'[r] = routes[r] /\ routes[r] # routes[s]
    BY <1>1, <1>3 DEF Resolves, Unfit, Separate, Types, Aside
  <1>4. CASE Resolves(s) /\ Len(queue) < MaxSize /\ Put(t, routes[s])
    <2>1. /\ PooledTypes' /\ Separate' /\ Born'
          /\ op' = [op EXCEPT ![t] = [at |-> "out", ch |-> NoChannel]]
      <3>1. /\ chan' \in [Channels -> ChannelStates]
            /\ queue' \in Seq(Channels) /\ Len(queue') <= MaxSize
            /\ stamp' \in [Channels -> {"none", "fresh", "stale"}]
            /\ op' = [op EXCEPT ![t] = [at |-> "out", ch |-> NoChannel]]
            /\ borrowed' \subseteq Channels
            /\ Separate' /\ Born'
        BY <1>3, <1>4, PutKeeps
      <3>2. QED
        BY <3>1 DEF Types, PooledTypes
    <2>2. QED
      BY <1>4, <2>1 DEF Put, Types
  <1>5. CASE Resolves(s) /\ Goto(t, "putting", routes[s])
             /\ UNCHANGED <<chan, queue, closed, stamp, borrowed, check, drain>>
    <2>1. op' = [op EXCEPT ![t] = [at |-> "putting", ch |-> routes[s]]]
      BY <1>5 DEF Goto
    <2>2. PooledTypes' /\ Born'
      BY <1>3, <1>5, <2>1 DEF Types, PooledTypes, Born
    <2>3. Separate'
      <3>1. /\ op'[t].ch = routes[s]
            /\ \A u \in Tasks : u # t => op'[u] = op[u]
        BY <2>1 DEF Types
      <3>2. routes[s] # NoChannel
        BY <1>5 DEF Resolves
      <3>3. \A u \in Tasks : op[u].at = "putting" => op[u].ch # NoChannel
        BY PoolAssumption, DispatchAssumption DEF Types, Separate
      <3>4. ASSUME NEW u \in Tasks, op'[u].at = "putting"
            PROVE  op'[u].ch \in borrowed' /\ \A r \in Sessions : routes'[r] # op'[u].ch
        BY <1>1, <1>3, <1>5, <3>1, <3>2, <3>3, <3>4 DEF Separate
      <3>5. \A u, v \in Tasks :
              op'[u].at = "putting" /\ op'[v].at = "putting" /\ op'[u].ch = op'[v].ch => u = v
        BY <1>3, <3>1 DEF Separate
      <3>6. QED
        BY <1>1, <1>5, <3>4, <3>5 DEF Separate
    <2>4. QED
      BY <1>5, <2>1, <2>2, <2>3 DEF Types
  <1>6. QED
    BY <1>2, <1>3, <1>4, <1>5 DEF Release

------------------------------------------------------------------------------
(* Every step keeps the invariant.                                          *)
LEMMA NextIInv == IInv /\ [Next]_vars => IInv'
  <1> SUFFICES ASSUME IInv, [Next]_vars
               PROVE  IInv'
    OBVIOUS
  <1> USE PoolAssumption, DispatchAssumption
  <1>i. Types /\ Aside /\ Separate /\ Rest
    BY IInvParts
  <1>q. IInv' <=> Types' /\ Aside' /\ Separate' /\ Rest'
    BY IInvParts, PTL
  <1>1. ASSUME NEW t \in Tasks, NEW s \in Sessions, RouteBound(t, s)
        PROVE  IInv'
    <2>1. op' = [op EXCEPT ![t] = [at |-> "got", ch |-> routes[s]]]
      BY <1>1 DEF RouteBound
    <2>2. Types' /\ Aside'
      BY <1>1, <1>i, <2>1 DEF RouteBound, Types, Aside
    <2>3. Separate'
      BY <1>1, <1>i, <2>1 DEF RouteBound, Types, Separate
    <2>4. Rest'
      <3>1. /\ lock = NoTask /\ lock' = t /\ todo[t] = {} /\ Bound(s) /\ routes[s] # NoChannel
            /\ serving' = [serving EXCEPT ![t] = s]
            /\ UNCHANGED <<queue, borrowed, chan, bindings, routes, todo, closedAll>>
        BY <1>1 DEF RouteBound, Begin, Resolves
      <3>2. bindings[s] = routes[s]
        BY <1>i, <3>1 DEF Rest, BindingsAreRoutes, Bound
      <3>3. LockHeld'
        BY <1>i, <2>1, <3>1, <3>2 DEF Types, Rest, LockHeld
      <3>4. QED
        BY <1>i, <3>1, <3>3 DEF Rest, BindingsAreRoutes, Born, TodoOnlyAfterCloseAll
    <2>5. QED
      BY <1>q, <2>2, <2>3, <2>4
  <1>2. ASSUME NEW t \in Tasks, NEW s \in Sessions, RouteAnew(t, s)
        PROVE  IInv'
    <2>1. CASE TakeIdle(t) /\ Bind(s, Head(queue))
      <3> DEFINE c == Head(queue)
      <3>1. /\ c \in Channels /\ c \in Elems(queue) /\ queue' = Tail(queue)
            /\ queue' \in Seq(Channels) /\ Len(queue') = Len(queue) - 1
            /\ Distinct(queue') /\ Elems(queue') = Elems(queue) \ {c}
        BY <2>1, <1>i, TakeFirst DEF TakeIdle, Types, Separate
      <3> HIDE DEF c
      <3>2. /\ op' = [op EXCEPT ![t] = [at |-> "got", ch |-> c]]
            /\ stamp' = [stamp EXCEPT ![c] = "fresh"]
            /\ borrowed' = borrowed \cup {c}
            /\ bindings' = [bindings EXCEPT ![s] = c] /\ routes' = [routes EXCEPT ![s] = c]
            /\ UNCHANGED <<chan, closed, check, drain, todo, lookup, closedAll>>
            /\ serving' = [serving EXCEPT ![t] = s] /\ lock = NoTask /\ op[t].at = "out"
            /\ lock' = t /\ todo[t] = {}
        BY <1>2, <2>1 DEF RouteAnew, Begin, Bind, TakeIdle, Goto, c
      <3>3. Len(queue') <= MaxSize
        BY <1>i, <3>1 DEF Types
      <3>4. Types' /\ Aside'
        BY <1>i, <3>1, <3>2, <3>3 DEF Types, Aside
      <3>5. Separate'
        BY <1>i, <3>1, <3>2 DEF Types, Separate
      <3>6. Rest'
        BY <1>i, <3>1, <3>2
        DEF Types, Rest, LockHeld, BindingsAreRoutes, Born, TodoOnlyAfterCloseAll
      <3>7. QED
        BY <1>q, <3>4, <3>5, <3>6
    <2>2. CASE /\ StartCreate(t)
               /\ bindings' = Drop(bindings, s)
               /\ routes' = IF Bound(s) THEN Drop(routes, s) ELSE routes
      <3>1. /\ op' = [op EXCEPT ![t] = [at |-> "creating", ch |-> NoChannel]]
            /\ UNCHANGED <<chan, queue, closed, stamp, borrowed, check, drain,
                            todo, lookup, closedAll>>
            /\ serving' = [serving EXCEPT ![t] = s] /\ lock = NoTask
            /\ lock' = t /\ todo[t] = {}
        BY <1>2, <2>2 DEF RouteAnew, Begin, StartCreate, Goto
      <3>2. /\ \A r \in Sessions : r # s => routes'[r] = routes[r]
            /\ routes'[s] \in {routes[s], NoChannel}
            /\ routes' \in [Sessions -> Channels \cup {NoChannel}]
            /\ bindings' \in [Sessions -> Channels \cup {NoChannel}]
            /\ bindings'[s] = NoChannel
            /\ \A r \in Sessions : r # s => bindings'[r] = bindings[r]
        BY <1>i, <2>2 DEF Drop, Types
      <3>3. Types' /\ Aside'
        BY <1>i, <2>2, <3>1, <3>2 DEF Types, Aside
      <3>4. Separate'
        <4>1. \A u \in Tasks : op[u].at = "putting" => op[u].ch # NoChannel
          BY <1>i DEF Types, Separate
        <4>2. \A u \in Tasks : op'[u].at = "putting" => op[u] = op'[u]
          BY <1>i, <3>1 DEF Types
        <4>3. QED
          BY <1>i, <3>1, <3>2, <4>1, <4>2 DEF Separate
      <3>5. BindingsAreRoutes'
        <4>1. ~closedAll' => bindings' = routes'
          <5>1. CASE Bound(s)
            BY <1>i, <2>2, <3>1, <5>1 DEF Rest, BindingsAreRoutes
          <5>2. CASE ~Bound(s)
            <6>1. bindings' = bindings
              BY <1>i, <2>2, <5>2 DEF Bound, Drop, Types
            <6>2. QED
              BY <1>i, <2>2, <3>1, <5>2, <6>1 DEF Rest, BindingsAreRoutes
          <5>3. QED
            BY <5>1, <5>2
        <4>2. \A r \in Sessions : bindings'[r] \in {NoChannel, routes'[r]} \/ routes'[r] = NoChannel
          BY <1>i, <3>2 DEF Rest, BindingsAreRoutes
        <4>3. QED
          BY <4>1, <4>2 DEF BindingsAreRoutes
      <3>6. Rest'
        <4>1. /\ \A u \in Tasks : u # t => op'[u] = op[u]
              /\ op'[t].at = "creating" /\ serving'[t] = s
          BY <1>i, <3>1 DEF Types
        <4>2. LockHeld'
          BY <1>i, <3>1, <3>2, <4>1 DEF Types, Rest, LockHeld
        <4>3. QED
          BY <1>i, <2>2, <3>1, <3>5, <4>2 DEF Types, Rest, Born, TodoOnlyAfterCloseAll
      <3>7. QED
        BY <1>q, <3>3, <3>4, <3>6
    <2>3. QED
      BY <1>2, <2>1, <2>2 DEF RouteAnew
  <1>3. ASSUME NEW t \in Tasks, RouteCreated(t)
        PROVE  IInv'
    <2>1. PICK c \in Channels : Created(t, c) /\ Bind(serving[t], c)
      BY <1>3 DEF RouteCreated
    <2>2. /\ op' = [op EXCEPT ![t] = [at |-> "got", ch |-> c]]
          /\ chan' = [chan EXCEPT ![c] = "active"] /\ chan[c] = "unborn"
          /\ stamp' = [stamp EXCEPT ![c] = "fresh"]
          /\ borrowed' = borrowed \cup {c}
          /\ bindings' = [bindings EXCEPT ![serving[t]] = c]
          /\ routes' = [routes EXCEPT ![serving[t]] = c]
          /\ UNCHANGED <<queue, closed, check, drain, serving, todo, lookup, closedAll>>
          /\ lock' = lock /\ op[t].at = "creating"
      BY <1>3, <2>1 DEF RouteCreated, Bind, Created, Goto
    <2>3. c \notin borrowed /\ c \notin Elems(queue)
      BY <1>i, <2>2 DEF Rest, Born
    <2>4. Types' /\ Aside'
      BY <1>i, <2>2 DEF Types, Aside, ChannelStates
    <2>5. Separate'
      BY <1>i, <2>2, <2>3 DEF Types, Separate
    <2>6. LockHeld'
      BY <1>i, <2>2 DEF Types, Rest, LockHeld
    <2>7. BindingsAreRoutes' /\ TodoOnlyAfterCloseAll'
      BY <1>i, <2>2 DEF Types, Rest, BindingsAreRoutes, TodoOnlyAfterCloseAll
    <2>8. Born'
      <3>1. Elems(queue) \subseteq Channels
        BY <1>i DEF Types, Elems
      <3>2. QED
        BY <1>i, <2>2, <3>1 DEF Types, Rest, Born
    <2>9. QED
      BY <1>q, <2>4, <2>5, <2>6, <2>7, <2>8 DEF Rest
  <1>4. ASSUME NEW t \in Tasks, RouteFailed(t) \/ LeaveSession(t) \/ HandleFailure(t)
        PROVE  IInv'
    <2>1. /\ op' = [op EXCEPT ![t] = [at |-> "out", ch |-> NoChannel]]
          /\ UNCHANGED <<chan, queue, closed, stamp, borrowed, check, drain,
                          bindings, routes, serving, todo, lookup, closedAll>>
          /\ op[t].at \in {"creating", "got"}
          /\ IF op[t].at = "creating" THEN lock' = NoTask ELSE (lock' = lock /\ lock # t)
      BY <1>4, <1>i
      DEF RouteFailed, LeaveSession, HandleFailure, dispatchVars, CreateFailed, Leave, Out,
          Types
    <2>2. Types' /\ Aside'
      BY <1>i, <2>1 DEF Types, Aside
    <2>3. Separate'
      BY <1>i, <2>1 DEF Types, Separate
    <2>4. LockHeld'
      BY <1>i, <2>1 DEF Types, Rest, LockHeld
    <2>5. QED
      BY <1>q, <1>i, <2>1, <2>2, <2>3, <2>4
      DEF Rest, BindingsAreRoutes, Born, TodoOnlyAfterCloseAll
  <1>5. ASSUME NEW t \in Tasks, NEW s \in Sessions, ReleaseSession(t, s)
        PROVE  IInv'
    <2>1. /\ PooledTypes' /\ Separate' /\ Born'
          /\ closed' = closed /\ check' = check /\ drain' = drain
          /\ \A u \in Tasks : u # t => op'[u] = op[u]
          /\ op'[t] = [at |-> "out", ch |-> NoChannel] \/ op'[t].at = "putting" \/ op'[t] = op[t]
      <3>1. /\ op[t].at = "out" /\ routes' = Drop(routes, s)
            /\ IF Resolves(s) THEN Release(t, routes[s]) ELSE UNCHANGED poolVars
        BY <1>5 DEF ReleaseSession, Begin
      <3>2. Types /\ Aside /\ Separate /\ Born
        BY <1>i DEF Rest
      <3>3. QED
        BY <3>1, <3>2, LetGoKeeps
    <2>2. /\ op[t].at = "out" /\ lock = NoTask /\ lock' = t /\ todo[t] = {}
          /\ UNCHANGED <<todo, lookup, closedAll>>
          /\ serving' = [serving EXCEPT ![t] = s]
          /\ bindings' = [bindings EXCEPT ![s] = NoChannel]
          /\ routes' = [routes EXCEPT ![s] = NoChannel]
      BY <1>5 DEF ReleaseSession, Begin, Out, Drop
    <2>3. Types' /\ Aside'
      BY <1>i, <2>1, <2>2 DEF PooledTypes, Types, Aside
    <2>4. bindings'[s] = NoChannel /\ serving'[t] = s /\ op'[t].at \in {"out", "putting"}
      BY <1>i, <2>1, <2>2 DEF Types
    <2>5. LockHeld'
      BY <1>i, <2>1, <2>2, <2>4 DEF Rest, LockHeld
    <2>6. BindingsAreRoutes' /\ TodoOnlyAfterCloseAll'
      BY <1>i, <2>2 DEF Types, Rest, BindingsAreRoutes, TodoOnlyAfterCloseAll
    <2>7. QED
      BY <1>q, <2>1, <2>3, <2>5, <2>6 DEF Rest
  <1>6. ASSUME NEW t \in Tasks, FinishPut(t)
        PROVE  IInv'
    <2>1. /\ op[t].at = "putting" /\ Len(queue) < MaxSize /\ Put(t, op[t].ch)
          /\ UNCHANGED <<lock, bindings, routes, serving, todo, lookup, closedAll>>
      BY <1>6 DEF FinishPut, BlockedPut, HasRoom, dispatchVars
    <2>2. /\ op[t].ch \in borrowed
          /\ \A s \in Sessions : routes'[s] # NoChannel =>
               routes'[s] = routes[s] /\ routes[s] # op[t].ch
          /\ \A u \in Tasks : u # t /\ op[u].at = "putting" => op[u].ch # op[t].ch
      BY <1>i, <2>1 DEF Separate
    <2>3. /\ chan' \in [Channels -> ChannelStates]
          /\ queue' \in Seq(Channels) /\ Len(queue') <= MaxSize
          /\ stamp' \in [Channels -> {"none", "fresh", "stale"}]
          /\ op' = [op EXCEPT ![t] = [at |-> "out", ch |-> NoChannel]]
          /\ borrowed' \subseteq Channels
          /\ Separate' /\ Born'
      <3>1. Types /\ Separate /\ Born
        BY <1>i DEF Rest
      <3>2. QED
        BY <2>1, <2>2, <3>1, PutKeeps
    <2>4. Types' /\ Aside'
      BY <1>i, <2>1, <2>3 DEF Types, Aside, Put
    <2>5. LockHeld'
      BY <1>i, <2>1, <2>3 DEF Types, Rest, LockHeld
    <2>6. BindingsAreRoutes' /\ TodoOnlyAfterCloseAll'
      BY <1>i, <2>1 DEF Rest, BindingsAreRoutes, TodoOnlyAfterCloseAll
    <2>7. QED
      BY <1>q, <2>3, <2>4, <2>5, <2>6 DEF Rest
  <1>7. ASSUME NEW t \in Tasks, NEW s \in Sessions, LetGo(t, s), op[t].at = "out", lock # t,
               /\ bindings' \in [Sessions -> Channels \cup {NoChannel}]
               /\ todo' \in [Tasks -> SUBSET Sessions] /\ closedAll' = TRUE
               /\ \A u \in Tasks : u # t => todo'[u] = todo[u]
               /\ bindings' = bindings \/ (lock = NoTask /\ bindings' = Unbound)
        PROVE  IInv'
    <2>1. /\ PooledTypes' /\ Separate' /\ Born'
          /\ closed' = closed /\ check' = check /\ drain' = drain
          /\ \A u \in Tasks : u # t => op'[u] = op[u]
          /\ op'[t] = [at |-> "out", ch |-> NoChannel] \/ op'[t].at = "putting" \/ op'[t] = op[t]
      <3>1. /\ routes' = Drop(routes, s)
            /\ IF Resolves(s) THEN Release(t, routes[s]) ELSE UNCHANGED poolVars
        BY <1>7 DEF LetGo
      <3>2. Types /\ Aside /\ Separate /\ Born
        BY <1>i DEF Rest
      <3>3. QED
        BY <1>7, <3>1, <3>2, LetGoKeeps
    <2>2. /\ UNCHANGED <<lock, serving, lookup>>
          /\ routes' \in [Sessions -> Channels \cup {NoChannel}]
      BY <1>7, <1>i DEF LetGo, Drop, Types
    <2>3. Types' /\ Aside'
      BY <1>7, <1>i, <2>1, <2>2 DEF PooledTypes, Types, Aside
    <2>4. LockHeld'
      <3>1. \A u \in Tasks : op'[u].at = "creating" => u # t
        BY <1>7, <2>1
      <3>2. \A u \in Tasks : lock' = u => u # t /\ lock # NoTask
        BY <1>7, <2>2
      <3>3. QED
        BY <1>7, <1>i, <2>1, <2>2, <3>1, <3>2 DEF Rest, LockHeld
    <2>5. BindingsAreRoutes'
      <3>1. routes' = [routes EXCEPT ![s] = NoChannel]
        BY <1>7 DEF LetGo, Drop
      <3>2. \A r \in Sessions : routes'[r] \in {routes[r], NoChannel}
        BY <1>i, <3>1 DEF Types
      <3>3. \A r \in Sessions : bindings'[r] \in {bindings[r], NoChannel}
        BY <1>7 DEF Unbound
      <3>4. QED
        BY <1>7, <1>i, <3>2, <3>3 DEF Rest, BindingsAreRoutes
    <2>6. QED
      BY <1>q, <1>7, <2>1, <2>3, <2>4, <2>5 DEF Rest, TodoOnlyAfterCloseAll
  <1>8. ASSUME NEW t \in Tasks, CloseAll(t)
        PROVE  IInv'
    <2>1. PICK s \in Sessions :
            LetGo(t, s) /\ todo' = [todo EXCEPT ![t] = {r \in Sessions : Bound(r)} \ {s}]
      BY <1>8 DEF CloseAll
    <2>2. /\ bindings' \in [Sessions -> Channels \cup {NoChannel}]
          /\ todo' \in [Tasks -> SUBSET Sessions]
          /\ \A u \in Tasks : u # t => todo'[u] = todo[u]
      BY <1>8, <1>i, <2>1 DEF CloseAll, Unbound, Types
    <2>3. QED
      BY <1>8, <1>7, <2>1, <2>2 DEF CloseAll, Begin
  <1>9. ASSUME NEW t \in Tasks, NEW s \in Sessions, Walk(t, s)
        PROVE  IInv'
    <2>1. closedAll' = TRUE
      BY <1>9, <1>i DEF Walk, Rest, TodoOnlyAfterCloseAll, Types
    <2>2. lock # t
      BY <1>9, <1>i DEF Walk, Rest, LockHeld
    <2>3. /\ bindings' \in [Sessions -> Channels \cup {NoChannel}]
          /\ todo' \in [Tasks -> SUBSET Sessions]
          /\ bindings' = bindings
          /\ \A u \in Tasks : u # t => todo'[u] = todo[u]
      BY <1>9, <1>i DEF Walk, Types
    <2>4. QED
      BY <1>9, <1>7, <2>1, <2>2, <2>3 DEF Walk
  <1>10. ASSUME NEW c \in Channels, BreakChannel(c)
         PROVE  IInv'
    <2>1. /\ chan' = [chan EXCEPT ![c] = "failed"]
          /\ UNCHANGED <<queue, closed, stamp, op, borrowed, check, drain,
                          lock, bindings, routes, serving, todo, lookup, closedAll>>
      BY <1>10 DEF BreakChannel, Break, dispatchVars
    <2>2. Types' /\ Aside' /\ Separate'
      BY <1>i, <2>1 DEF Types, Aside, Separate, ChannelStates
    <2>3. Born'
      <3>1. Elems(queue) \subseteq Channels
        BY <1>i DEF Types, Elems
      <3>2. QED
        BY <1>i, <2>1, <3>1 DEF Types, Rest, Born
    <2>4. QED
      BY <1>q, <1>i, <2>1, <2>2, <2>3
      DEF Rest, LockHeld, BindingsAreRoutes, TodoOnlyAfterCloseAll
  <1>11. CASE UNCHANGED vars
    BY <1>11, <1>q, <1>i
    DEF vars, Types, Aside, Separate, Rest, LockHeld, BindingsAreRoutes, Born,
        TodoOnlyAfterCloseAll
  <1>12. ASSUME NEW t \in Tasks, RegistryReturns(t)
         PROVE  IInv'
    <2>1. /\ lock' = NoTask
          /\ UNCHANGED <<chan, queue, closed, stamp, op, borrowed, check, drain,
                          bindings, routes, serving, todo, lookup, closedAll>>
          /\ lock = t /\ op[t].at \in {"got", "out"}
      BY <1>12 DEF RegistryReturns, Touched, Unregistered, poolVars
    <2>2. Types' /\ Aside' /\ Separate'
      BY <1>i, <2>1 DEF Types, Aside, Separate
    <2>3. Rest'
      BY <1>i, <2>1
      DEF Types, Rest, LockHeld, BindingsAreRoutes, Born, TodoOnlyAfterCloseAll
    <2>4. QED
      BY <1>q, <2>2, <2>3
  <1>13. QED
    BY <1>1, <1>2, <1>3, <1>4, <1>5, <1>6, <1>8, <1>9, <1>10, <1>11, <1>12
    DEF Next, RouteCreation

(* However requests, releases and close_all() interleave, no two sessions   *)
(* are routed to one channel, none is routed to a channel the pool may hand *)
(* out, bindings and routes agree until close_all() is used, and while a    *)
(* call waits under the lock for the pool or the registry the binding of    *)
(* its session stays as the call left it.                                   *)
THEOREM DispatchInvariant == Spec => []DispatchInv
  <1>1. IInv => DispatchInv
    BY DEF IInv
  <1>2. QED
    BY InitIInv, NextIInv, <1>1, PTL DEF Spec

------------------------------------------------------------------------------
(* A channel that can be found: routed, idle or being put back.             *)
Found(c) ==
  \/ \E s \in Sessions : routes[s] = c
  \/ c \in Elems(queue)
  \/ \E t \in Tasks : op[t].at = "putting" /\ op[t].ch = c

(* A usable channel that is kept is in one of the places where it is found. *)
LEMMA KeptIsFound == ASSUME NEW c \in Channels PROVE Kept(c) <=> Found(c)
  BY IdleIsElems, PoolAssumption, DispatchAssumption DEF Kept, Found, Routed

(* A route without a binding is one that a close_all() under way will drop, *)
(* and a session that a channel is being created for has no binding.        *)
Leftovers ==
  /\ \A s \in Sessions : routes[s] # NoChannel /\ bindings[s] = NoChannel =>
       \E t \in Tasks : s \in todo[t]
  /\ \A t \in Tasks : op[t].at = "creating" => bindings[serving[t]] = NoChannel

(* At first there are no leftovers.                                         *)
LEMMA InitLeftovers == Init => Leftovers
  <1> SUFFICES ASSUME Init
               PROVE  Leftovers
    OBVIOUS
  <1>1. op = [t \in Tasks |-> [at |-> "out", ch |-> NoChannel]]
    BY DEF Init, PoolInit, Out
  <1> QED
    BY <1>1 DEF Init, Unbound, Leftovers

(* Letting a session's channel go loses none that can be looked up.         *)
LEMMA LetGoLosesNone ==
  ASSUME Types, Aside, Separate, NEW t \in Tasks, NEW s \in Sessions,
         op[t].at = "out", routes' = Drop(routes, s),
         IF Resolves(s) THEN Release(t, routes[s]) ELSE UNCHANGED poolVars
  PROVE  /\ \A u \in Tasks : op'[u].at = "creating" => op[u].at = "creating"
         /\ \A c \in Channels : Found(c) /\ chan[c] = "active" /\ lookup => Found(c)'
  <1>1. /\ \A r \in Sessions : r # s => routes'[r] = routes[r]
        /\ routes'[s] = NoChannel
    BY DEF Drop, Types
  <1>2. CASE ~Resolves(s)
    <2>1. UNCHANGED <<queue, op>>
      BY <1>2 DEF poolVars
    <2>2. \A c \in Channels : chan[c] = "active" /\ lookup => routes[s] # c
      BY <1>2, PoolAssumption, DispatchAssumption DEF Resolves
    <2> QED
      BY <1>1, <2>1, <2>2 DEF Found, Elems
  <1>3. CASE Resolves(s) /\ Len(queue) < MaxSize /\ Put(t, routes[s])
    <2>1. routes[s] \in Channels /\ routes[s] \notin Elems(queue)
      BY <1>3 DEF Resolves, Types, Separate
    <2>2. queue' = Append(queue, routes[s]) /\ op' = [op EXCEPT ![t] = [at |-> "out", ch |-> NoChannel]]
      BY <1>3 DEF Put, Out
    <2>3. Elems(queue') = Elems(queue) \cup {routes[s]}
      BY <2>1, <2>2, PutLast DEF Types, Separate
    <2>4. \A u \in Tasks : u # t => op'[u] = op[u]
      BY <2>2 DEF Types
    <2>5. op'[t].at = "out"
      BY <2>2 DEF Types
    <2> QED
      BY <1>1, <2>3, <2>4, <2>5 DEF Found
  <1>4. CASE /\ Resolves(s) /\ Goto(t, "putting", routes[s])
             /\ UNCHANGED <<chan, queue, closed, stamp, borrowed, check, drain>>
    <2>1. op' = [op EXCEPT ![t] = [at |-> "putting", ch |-> routes[s]]] /\ queue' = queue
      BY <1>4 DEF Goto
    <2>2. /\ \A u \in Tasks : u # t => op'[u] = op[u]
          /\ op'[t].at = "putting" /\ op'[t].ch = routes[s]
      BY <2>1 DEF Types
    <2> QED
      BY <1>1, <2>1, <2>2 DEF Found, Elems
  <1>5. Resolves(s) => ~Unfit(routes[s])
    BY DEF Resolves, Unfit, Aside
  <1> QED
    BY <1>2, <1>3, <1>4, <1>5 DEF Release

(* Whatever a step does, a usable channel that could be found still can, or *)
(* the router cannot look channels up, or a close_all() is under way.       *)
Excused ==
  \A c \in Channels :
    Found(c) /\ chan[c] = "active" /\ ~Found(c)' => ~lookup \/ \E t \in Tasks : todo[t] # {}

(* A step loses a usable channel only as HealthyKept excuses it.            *)
LEMMA StepKeeps == IInv /\ Leftovers /\ [Next]_vars => Leftovers' /\ Excused
  <1> SUFFICES ASSUME IInv, Leftovers, [Next]_vars
               PROVE  Leftovers' /\ Excused
    OBVIOUS
  <1> USE PoolAssumption, DispatchAssumption
  <1>i. Types /\ Aside /\ Separate /\ LockHeld
    BY IInvParts DEF Rest
  <1>1. ASSUME NEW t \in Tasks, NEW s \in Sessions, RouteBound(t, s)
        PROVE  Leftovers' /\ Excused
    <2>1. /\ op' = [op EXCEPT ![t] = [at |-> "got", ch |-> routes[s]]] /\ op[t].at = "out"
          /\ UNCHANGED <<queue, routes, bindings, todo>> /\ serving' = [serving EXCEPT ![t] = s]
      BY <1>1 DEF RouteBound, Begin
    <2>2. op'[t].at = "got" /\ \A u \in Tasks : u # t => op'[u] = op[u] /\ serving'[u] = serving[u]
      BY <1>i, <2>1 DEF Types
    <2> QED
      BY <2>1, <2>2 DEF Leftovers, Excused, Found, Elems
  <1>2. ASSUME NEW t \in Tasks, NEW s \in Sessions, RouteAnew(t, s)
        PROVE  Leftovers' /\ Excused
    <2>1. /\ lock = NoTask /\ op[t].at = "out" /\ ~(Bound(s) /\ Resolves(s))
          /\ serving' = [serving EXCEPT ![t] = s] /\ todo' = todo
      BY <1>2 DEF RouteAnew, Begin
    <2>2. \A u \in Tasks : op[u].at # "creating"
      BY <1>i, <2>1 DEF LockHeld
    <2>3. \A c \in Channels : routes[s] = c /\ chan[c] = "active" =>
             ~lookup \/ \E u \in Tasks : todo[u] # {}
      BY <2>1 DEF Leftovers, Bound, Resolves
    <2>4. CASE TakeIdle(t) /\ Bind(s, Head(queue))
      <3> DEFINE c == Head(queue)
      <3>1. c \in Channels /\ Elems(queue') = Elems(queue) \ {c}
        BY <2>4, <1>i, TakeFirst DEF TakeIdle, Types, Separate
      <3> HIDE DEF c
      <3>2. /\ op' = [op EXCEPT ![t] = [at |-> "got", ch |-> c]]
            /\ bindings' = [bindings EXCEPT ![s] = c] /\ routes' = [routes EXCEPT ![s] = c]
        BY <2>4 DEF Bind, TakeIdle, Goto, c
      <3>3. op'[t].at = "got" /\ \A u \in Tasks : u # t => op'[u] = op[u]
        BY <1>i, <3>2 DEF Types
      <3>4. /\ routes'[s] = c /\ bindings'[s] = c
            /\ \A r \in Sessions : r # s => routes'[r] = routes[r] /\ bindings'[r] = bindings[r]
        BY <1>i, <3>2 DEF Types
      <3>5. Leftovers'
        BY <2>1, <2>2, <3>1, <3>3, <3>4 DEF Leftovers
      <3>6. Excused
        BY <2>1, <2>3, <3>1, <3>3, <3>4 DEF Excused, Found
      <3> QED
        BY <3>5, <3>6
    <2>5. CASE /\ StartCreate(t)
               /\ bindings' = Drop(bindings, s)
               /\ routes' = IF Bound(s) THEN Drop(routes, s) ELSE routes
      <3>1. op' = [op EXCEPT ![t] = [at |-> "creating", ch |-> NoChannel]] /\ queue' = queue
        BY <2>5 DEF StartCreate, Goto
      <3>2. op'[t].at = "creating" /\ \A u \in Tasks : u # t => op'[u] = op[u]
        BY <1>i, <3>1 DEF Types
      <3>3. /\ bindings'[s] = NoChannel /\ routes'[s] \in {routes[s], NoChannel}
            /\ routes'[s] # NoChannel => ~Bound(s)
            /\ \A r \in Sessions : r # s => routes'[r] = routes[r] /\ bindings'[r] = bindings[r]
        BY <1>i, <2>5 DEF Types, Drop
      <3>4. serving'[t] = s
        BY <1>i, <2>1 DEF Types
      <3>5. Leftovers'
        BY <2>1, <2>2, <3>2, <3>3, <3>4 DEF Leftovers, Bound
      <3>6. Excused
        BY <2>1, <2>3, <3>1, <3>2, <3>3 DEF Excused, Found, Elems
      <3> QED
        BY <3>5, <3>6
    <2> QED
      BY <1>2, <2>4, <2>5 DEF RouteAnew
  <1>3. ASSUME NEW t \in Tasks, RouteCreated(t)
        PROVE  Leftovers' /\ Excused
    <2>1. PICK c \in Channels : Created(t, c) /\ Bind(serving[t], c)
      BY <1>3 DEF RouteCreated
    <2>2. /\ op' = [op EXCEPT ![t] = [at |-> "got", ch |-> c]] /\ op[t].at = "creating"
          /\ bindings' = [bindings EXCEPT ![serving[t]] = c]
          /\ routes' = [routes EXCEPT ![serving[t]] = c]
          /\ UNCHANGED <<queue, serving, todo>>
      BY <1>3, <2>1 DEF RouteCreated, Bind, Created, Goto
    <2>3. \A u \in Tasks : u # t => op'[u] = op[u] /\ op[u].at # "creating"
      BY <1>i, <2>2 DEF Types, LockHeld
    <2>4. op'[t].at = "got" /\ serving[t] \in Sessions
      BY <1>i, <2>2 DEF Types
    <2>5. /\ routes'[serving[t]] = c /\ bindings'[serving[t]] = c
          /\ \A r \in Sessions : r # serving[t] => routes'[r] = routes[r] /\ bindings'[r] = bindings[r]
      BY <1>i, <2>2 DEF Types
    <2>6. Leftovers'
      BY <2>2, <2>3, <2>4, <2>5 DEF Leftovers
    <2>7. routes[serving[t]] # NoChannel => \E u \in Tasks : todo[u] # {}
      BY <2>2, <2>4 DEF Leftovers
    <2>8. Excused
      BY <2>2, <2>3, <2>4, <2>5, <2>7 DEF Excused, Found, Elems
    <2> QED
      BY <2>6, <2>8
  <1>4. ASSUME NEW t \in Tasks, RouteFailed(t) \/ LeaveSession(t) \/ HandleFailure(t)
        PROVE  Leftovers' /\ Excused
    <2>1. /\ op' = [op EXCEPT ![t] = [at |-> "out", ch |-> NoChannel]]
          /\ UNCHANGED <<queue, bindings, routes, serving, todo>>
          /\ op[t].at \in {"creating", "got"}
      BY <1>4
      DEF RouteFailed, LeaveSession, HandleFailure, dispatchVars, CreateFailed, Leave, Out
    <2>2. op'[t].at = "out" /\ \A u \in Tasks : u # t => op'[u] = op[u]
      BY <1>i, <2>1 DEF Types
    <2> QED
      BY <2>1, <2>2 DEF Leftovers, Excused, Found, Elems
  <1>5. ASSUME NEW t \in Tasks, NEW s \in Sessions, ReleaseSession(t, s)
        PROVE  Leftovers' /\ Excused
    <2>1. /\ op[t].at = "out" /\ routes' = Drop(routes, s) /\ bindings' = Drop(bindings, s)
          /\ IF Resolves(s) THEN Release(t, routes[s]) ELSE UNCHANGED poolVars
          /\ lock = NoTask /\ todo' = todo
      BY <1>5 DEF ReleaseSession, Begin
    <2>2. /\ \A u \in Tasks : op'[u].at = "creating" => op[u].at = "creating"
          /\ \A c \in Channels : Found(c) /\ chan[c] = "active" /\ lookup => Found(c)'
      BY <1>i, <2>1, LetGoLosesNone
    <2>3. \A u \in Tasks : op'[u].at # "creating"
      BY <1>i, <2>1, <2>2 DEF LockHeld
    <2>4. /\ routes'[s] = NoChannel
          /\ \A r \in Sessions : r # s => routes'[r] = routes[r] /\ bindings'[r] = bindings[r]
      BY <1>i, <2>1 DEF Types, Drop
    <2> QED
      BY <2>1, <2>2, <2>3, <2>4 DEF Leftovers, Excused
  <1>6. ASSUME NEW t \in Tasks, FinishPut(t)
        PROVE  Leftovers' /\ Excused
    <2>1. /\ op[t].at = "putting" /\ Put(t, op[t].ch)
          /\ UNCHANGED <<bindings, routes, serving, todo>>
      BY <1>6 DEF FinishPut, BlockedPut, dispatchVars
    <2>2. op[t].ch \in Channels /\ op[t].ch \notin Elems(queue)
      BY <1>i, <2>1 DEF Types, Separate
    <2>3. queue' = Append(queue, op[t].ch) /\ op' = [op EXCEPT ![t] = [at |-> "out", ch |-> NoChannel]]
      BY <2>1 DEF Put, Out
    <2>4. Elems(queue') = Elems(queue) \cup {op[t].ch}
      BY <1>i, <2>2, <2>3, PutLast DEF Types, Separate
    <2>5. op'[t].at = "out" /\ \A u \in Tasks : u # t => op'[u] = op[u]
      BY <1>i, <2>3 DEF Types
    <2>6. Leftovers'
      BY <2>1, <2>5 DEF Leftovers
    <2>7. Excused
      BY <2>1, <2>4, <2>5 DEF Excused, Found
    <2> QED
      BY <2>6, <2>7
  <1>7. ASSUME NEW t \in Tasks, CloseAll(t)
        PROVE  Leftovers' /\ Excused
    <2>1. PICK s \in Sessions :
            LetGo(t, s) /\ todo' = [todo EXCEPT ![t] = {r \in Sessions : Bound(r)} \ {s}]
      BY <1>7 DEF CloseAll
    <2>2. /\ op[t].at = "out" /\ routes' = Drop(routes, s) /\ bindings' = Unbound
          /\ IF Resolves(s) THEN Release(t, routes[s]) ELSE UNCHANGED poolVars
          /\ lock = NoTask /\ todo[t] = {} /\ serving' = serving
      BY <1>7, <2>1 DEF CloseAll, LetGo, Begin
    <2>3. /\ \A u \in Tasks : op'[u].at = "creating" => op[u].at = "creating"
          /\ \A c \in Channels : Found(c) /\ chan[c] = "active" /\ lookup => Found(c)'
      BY <1>i, <2>2, LetGoLosesNone
    <2>4. \A u \in Tasks : op'[u].at # "creating"
      BY <1>i, <2>2, <2>3 DEF LockHeld
    <2>5. ASSUME NEW r \in Sessions, routes'[r] # NoChannel
          PROVE  \E u \in Tasks : r \in todo'[u]
      <3>1. r # s /\ routes[r] # NoChannel
        BY <1>i, <2>2, <2>5 DEF Types, Drop
      <3>2. CASE Bound(r)
        <4>1. r \in todo'[t]
          BY <1>i, <2>1, <3>1, <3>2 DEF Types
        <4> QED
          BY <4>1
      <3>3. CASE ~Bound(r)
        <4>1. PICK u \in Tasks : r \in todo[u]
          BY <3>1, <3>3 DEF Leftovers, Bound
        <4>2. u # t
          BY <2>2, <4>1
        <4>3. todo'[u] = todo[u]
          BY <1>i, <2>1, <4>2 DEF Types
        <4> QED
          BY <4>1, <4>3
      <3> QED
        BY <3>2, <3>3
    <2> QED
      BY <2>3, <2>4, <2>5 DEF Leftovers, Excused
  <1>8. ASSUME NEW t \in Tasks, NEW s \in Sessions, Walk(t, s)
        PROVE  Leftovers' /\ Excused
    <2>1. /\ op[t].at = "out" /\ routes' = Drop(routes, s)
          /\ IF Resolves(s) THEN Release(t, routes[s]) ELSE UNCHANGED poolVars
          /\ todo' = [todo EXCEPT ![t] = @ \ {s}] /\ UNCHANGED <<bindings, serving>>
      BY <1>8 DEF Walk, LetGo
    <2>2. /\ \A u \in Tasks : op'[u].at = "creating" => op[u].at = "creating"
          /\ \A c \in Channels : Found(c) /\ chan[c] = "active" /\ lookup => Found(c)'
      BY <1>i, <2>1, LetGoLosesNone
    <2>3. /\ routes'[s] = NoChannel
          /\ \A r \in Sessions : r # s => routes'[r] = routes[r]
      BY <1>i, <2>1 DEF Types, Drop
    <2>4. \A r \in Sessions, u \in Tasks : r # s /\ r \in todo[u] => r \in todo'[u]
      BY <1>i, <2>1 DEF Types
    <2> QED
      BY <2>1, <2>2, <2>3, <2>4 DEF Leftovers, Excused
  <1>9. ASSUME NEW c \in Channels, BreakChannel(c)
        PROVE  Leftovers' /\ Excused
    <2>1. UNCHANGED <<queue, op, bindings, routes, serving, todo>>
      BY <1>9 DEF BreakChannel, Break, dispatchVars
    <2> QED
      BY <2>1 DEF Leftovers, Excused, Found, Elems
  <1>10. ASSUME NEW t \in Tasks, RegistryReturns(t)
         PROVE  Leftovers' /\ Excused
    <2>1. UNCHANGED <<queue, op, bindings, routes, serving, todo>>
      BY <1>10 DEF RegistryReturns, Touched, Unregistered, poolVars
    <2> QED
      BY <2>1 DEF Leftovers, Excused, Found, Elems
  <1>11. CASE UNCHANGED vars
    BY <1>11 DEF vars, Leftovers, Excused, Found, Elems
  <1> QED
    BY <1>1, <1>2, <1>3, <1>4, <1>5, <1>6, <1>7, <1>8, <1>9, <1>10, <1>11
    DEF Next, RouteCreation

(* SessionDispatcher, the router and the pool: no step loses a usable       *)
(* channel, one that is neither routed nor idle nor on its way back to the  *)
(* pool, unless the router cannot look channels up or a close_all() is      *)
(* under way.                                                               *)
THEOREM HealthyAreKept == Spec => HealthyKept
  <1>1. Init => IInv /\ Leftovers
    BY InitIInv, InitLeftovers
  <1>2. IInv /\ Leftovers /\ [Next]_vars => IInv' /\ Leftovers'
    BY NextIInv, StepKeeps
  <1>3. IInv /\ Leftovers /\ [Next]_vars =>
          [\A c \in Channels :
             Kept(c) /\ chan[c] = "active" /\ ~Kept(c)' =>
               ~lookup \/ \E t \in Tasks : todo[t] # {}]_vars
    <2> SUFFICES ASSUME IInv, Leftovers, [Next]_vars, NEW c \in Channels,
                        Kept(c) /\ chan[c] = "active" /\ ~Kept(c)'
                 PROVE  ~lookup \/ \E t \in Tasks : todo[t] # {}
      OBVIOUS
    <2>1. Kept(c) <=> Found(c)
      BY KeptIsFound
    <2>2. Kept(c)' <=> Found(c)'
      BY KeptIsFound, PTL
    <2> QED
      BY <2>1, <2>2, StepKeeps DEF Excused
  <1> QED
    BY <1>1, <1>2, <1>3, PTL DEF Spec, HealthyKept

================================================================================
