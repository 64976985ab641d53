------------------------------ MODULE ChannelPool ------------------------------
(***************************************************************************)
(* AsyncChannelPool (network/adapters/pool_adapter.py): an asyncio.Queue   *)
(* of idle channels that users take from and give back to, a health check  *)
(* and a shutdown.  Code between two awaits is one step.  The awaits that  *)
(* suspend are the creation of a channel, close() of a channel, and put()  *)
(* on a full queue; get() on a queue just seen to be non-empty and put()   *)
(* on one that is not full do not, so the loop of health_check runs past   *)
(* fresh channels without letting any other task run.                      *)
(*                                                                         *)
(* The factory and the channels are collaborators: creating a channel may  *)
(* fail, closing one may fail, and one may break while it is in use.       *)
(***************************************************************************)
EXTENDS Naturals, Sequences, FiniteSets

CONSTANTS
  Tasks,      (* tasks that acquire and release                             *)
  Channels,   (* channel objects; bound: as many as are ever created        *)
  NoChannel,
  MaxSize     (* max_size of the queue                                      *)

ASSUME PoolAssumption ==
  /\ NoChannel \notin Channels
  /\ MaxSize \in Nat \ {0}

VARIABLES
  chan,      (* channel -> "unborn", "active", "closed", "failed", "draining" *)
  queue,     (* _queue, idle channels                                       *)
  closed,    (* _closed                                                     *)
  stamp,     (* _usage_timestamps: "none", "fresh", or "stale" once older   *)
             (* than idle_timeout                                           *)
  op,        (* user -> where its current call is, and with which channel   *)
  borrowed,  (* history: channels handed out and not given back             *)
  check,     (* health_check: where it is, its snapshot, its channel        *)
  drain      (* close(): where it is, its channel, and (history) the        *)
             (* channels that blocked release() calls carried as it began   *)

poolVars == <<chan, queue, closed, stamp, op, borrowed, check, drain>>

ChannelStates == {"unborn", "active", "closed", "failed", "draining"}

Out == [at |-> "out", ch |-> NoChannel]

Idle == {queue[i] : i \in DOMAIN queue}

PoolInit ==
  /\ chan = [c \in Channels |-> "unborn"]
  /\ queue = <<>>
  /\ closed = FALSE
  /\ stamp = [c \in Channels |-> "none"]
  /\ op = [u \in Tasks |-> Out]
  /\ borrowed = {}
  /\ check = [at |-> "off", stale |-> {}, ch |-> NoChannel]
  /\ drain = [at |-> "off", ch |-> NoChannel, late |-> {}]

(* No task runs while the health check's loop does not suspend. *)
Scheduled == check.at # "loop"

Goto(u, place, c) == op' = [op EXCEPT ![u] = [at |-> place, ch |-> c]]

(* What close() of channel c makes of it: nothing if it was closed already, *)
(* and FAILED if the transporter raised (~ok).                              *)
CloseChannel(c, ok) ==
  \/ chan[c] \in {"closed", "draining"} /\ ok /\ UNCHANGED chan
  \/ /\ chan[c] \notin {"closed", "draining"}
     /\ chan' = [chan EXCEPT ![c] = IF ok THEN "closed" ELSE "failed"]

------------------------------------------------------------------------------
(* acquire() *)

TakeIdle(u) ==
  /\ Scheduled
  /\ op[u].at = "out"
  /\ ~closed
  /\ queue # <<>>
  /\ queue' = Tail(queue)
  /\ stamp' = [stamp EXCEPT ![Head(queue)] = "fresh"]
  /\ borrowed' = borrowed \cup {Head(queue)}
  /\ Goto(u, "got", Head(queue))
  /\ UNCHANGED <<chan, closed, check, drain>>

StartCreate(u) ==
  /\ Scheduled
  /\ op[u].at = "out"
  /\ ~closed
  /\ queue = <<>>
  /\ Goto(u, "creating", NoChannel)
  /\ UNCHANGED <<chan, queue, closed, stamp, borrowed, check, drain>>

(* The new channel is handed out even if the pool was closed meanwhile. *)
Created(u, c) ==
  /\ Scheduled
  /\ op[u].at = "creating"
  /\ chan[c] = "unborn"
  /\ chan' = [chan EXCEPT ![c] = "active"]
  /\ stamp' = [stamp EXCEPT ![c] = "fresh"]
  /\ borrowed' = borrowed \cup {c}
  /\ Goto(u, "got", c)
  /\ UNCHANGED <<queue, closed, check, drain>>

CreateFailed(u) ==
  /\ Scheduled
  /\ op[u].at = "creating"
  /\ op' = [op EXCEPT ![u] = Out]
  /\ UNCHANGED <<chan, queue, closed, stamp, borrowed, check, drain>>

(* The user leaves acquire() with its channel. *)
Leave(u) ==
  /\ Scheduled
  /\ op[u].at = "got"
  /\ op' = [op EXCEPT ![u] = Out]
  /\ UNCHANGED <<chan, queue, closed, stamp, borrowed, check, drain>>

------------------------------------------------------------------------------
(* Faults: wrong versions of definitions below, which the runs swap in.     *)

(* release() does not look at _closed *)
UnfitIfBroken(c) == chan[c] \in {"failed", "draining"}

(* health_check puts a stale channel back once it has closed it *)
CheckClosedPutBack(ok) ==
  /\ check.at = "closing"
  /\ CloseChannel(check.ch, ok)
  /\ queue' = Append(queue, check.ch)
  /\ check' = [check EXCEPT !.at = "loop", !.ch = NoChannel]
  /\ UNCHANGED <<closed, stamp, op, borrowed, drain>>

(* release() drops a broken channel, or one of a closed pool, without closing it *)
DiscardedOpen(u, ok) ==
  /\ Scheduled
  /\ op[u].at = "discarding"
  /\ borrowed' = borrowed \ {op[u].ch}
  /\ op' = [op EXCEPT ![u] = Out]
  /\ UNCHANGED <<chan, queue, closed, stamp, check, drain>>

(* close() is through once it has closed one channel *)
EndDrainEarly ==
  /\ Scheduled
  /\ drain.at = "loop"
  /\ drain' = [drain EXCEPT !.at = "done"]
  /\ stamp' = [c \in Channels |-> "none"]
  /\ UNCHANGED <<chan, queue, closed, op, borrowed, check>>

------------------------------------------------------------------------------
(* release(): a channel that broke, or any channel once the pool is closed, *)
(* is closed and dropped; the others go back to the queue when it has room. *)

Unfit(c) == closed \/ chan[c] \notin {"active", "closed"}

HasRoom == Len(queue) < MaxSize

Put(u, c) ==
  /\ queue' = Append(queue, c)
  /\ stamp' = [stamp EXCEPT ![c] = "fresh"]
  /\ borrowed' = borrowed \ {c}
  /\ op' = [op EXCEPT ![u] = Out]
  /\ UNCHANGED <<chan, closed, check, drain>>

(* _closed and the state are not looked at again after the wait. *)
BlockedPut(u) ==
  /\ Scheduled
  /\ op[u].at = "putting"
  /\ HasRoom
  /\ Put(u, op[u].ch)

Release(u, c) ==
  /\ Scheduled
  /\ op[u].at = "out"
  /\ \/ Unfit(c) /\ Goto(u, "discarding", c)
        /\ UNCHANGED <<chan, queue, closed, stamp, borrowed, check, drain>>
     \/ ~Unfit(c) /\ Len(queue) < MaxSize /\ Put(u, c)
     \/ ~Unfit(c) /\ Len(queue) = MaxSize /\ Goto(u, "putting", c)
        /\ UNCHANGED <<chan, queue, closed, stamp, borrowed, check, drain>>

Discarded(u, ok) ==
  /\ Scheduled
  /\ op[u].at = "discarding"
  /\ CloseChannel(op[u].ch, ok)
  /\ borrowed' = borrowed \ {op[u].ch}
  /\ op' = [op EXCEPT ![u] = Out]
  /\ UNCHANGED <<queue, closed, stamp, check, drain>>

------------------------------------------------------------------------------
(* health_check(): the timestamps are read once, the queue is then worked   *)
(* through until it is empty, fresh channels being put back at its end.     *)

StaleIds == {c \in Channels : stamp[c] = "stale"}

StartCheck ==
  /\ check.at = "off"
  /\ StaleIds # {}
  /\ check' = [check EXCEPT !.at = "loop", !.stale = StaleIds]
  /\ UNCHANGED <<chan, queue, closed, stamp, op, borrowed, drain>>

PutBack ==
  /\ check.at = "loop"
  /\ queue # <<>>
  /\ Head(queue) \notin check.stale
  /\ queue' = Append(Tail(queue), Head(queue))
  /\ UNCHANGED <<chan, closed, stamp, op, borrowed, check, drain>>

CheckClose ==
  /\ check.at = "loop"
  /\ queue # <<>>
  /\ Head(queue) \in check.stale
  /\ queue' = Tail(queue)
  /\ check' = [check EXCEPT !.at = "closing", !.ch = Head(queue)]
  /\ UNCHANGED <<chan, closed, stamp, op, borrowed, drain>>

(* A ChannelError ends the health check with the rest of the queue undone. *)
CheckClosed(ok) ==
  /\ check.at = "closing"
  /\ CloseChannel(check.ch, ok)
  /\ check' = [check EXCEPT !.at = IF ok THEN "loop" ELSE "off", !.ch = NoChannel]
  /\ UNCHANGED <<queue, closed, stamp, op, borrowed, drain>>

EndCheck ==
  /\ check.at = "loop"
  /\ queue = <<>>
  /\ check' = [at |-> "off", stale |-> {}, ch |-> NoChannel]
  /\ UNCHANGED <<chan, queue, closed, stamp, op, borrowed, drain>>

------------------------------------------------------------------------------
(* close() *)

StartDrain ==
  /\ Scheduled
  /\ drain.at = "off"
  /\ closed' = TRUE
  /\ drain' = [at |-> "loop", ch |-> NoChannel,
               late |-> {op[u].ch : u \in {v \in Tasks : op[v].at = "putting"}}]
  /\ UNCHANGED <<chan, queue, stamp, op, borrowed, check>>

DrainNext ==
  /\ Scheduled
  /\ drain.at = "loop"
  /\ queue # <<>>
  /\ queue' = Tail(queue)
  /\ drain' = [drain EXCEPT !.at = "closing", !.ch = Head(queue)]
  /\ UNCHANGED <<chan, closed, stamp, op, borrowed, check>>

(* A ChannelError leaves close() with the rest of the queue not drained. *)
Drained(ok) ==
  /\ Scheduled
  /\ drain.at = "closing"
  /\ CloseChannel(drain.ch, ok)
  /\ drain' = [drain EXCEPT !.at = IF ok THEN "loop" ELSE "raised", !.ch = NoChannel]
  /\ UNCHANGED <<queue, closed, stamp, op, borrowed, check>>

EndDrain ==
  /\ Scheduled
  /\ drain.at = "loop"
  /\ queue = <<>>
  /\ drain' = [drain EXCEPT !.at = "done"]
  /\ stamp' = [c \in Channels |-> "none"]
  /\ UNCHANGED <<chan, queue, closed, op, borrowed, check>>

------------------------------------------------------------------------------
(* The surroundings: a channel in use breaks or is closed by its user, and  *)
(* idle_timeout passes without a timestamp being renewed.                   *)

Break(c, s) ==
  /\ Scheduled
  /\ c \in borrowed
  /\ chan[c] = "active"
  /\ s \in {"failed", "closed", "draining"}
  /\ chan' = [chan EXCEPT ![c] = s]
  /\ UNCHANGED <<queue, closed, stamp, op, borrowed, check, drain>>

Age(c) ==
  /\ Scheduled
  /\ stamp[c] = "fresh"
  /\ stamp' = [stamp EXCEPT ![c] = "stale"]
  /\ UNCHANGED <<chan, queue, closed, op, borrowed, check, drain>>

(* A user gives back what was handed out and is in nobody else's hands. *)
ReleaseOwn(u) ==
  \E c \in borrowed : /\ \A v \in Tasks : op[v].ch # c
                      /\ Release(u, c)

Create(u) == CreateFailed(u) \/ \E c \in Channels : Created(u, c)
Discard(u) == \E ok \in BOOLEAN : Discarded(u, ok)
Check == PutBack \/ CheckClose \/ EndCheck \/ \E ok \in BOOLEAN : CheckClosed(ok)
Drain == DrainNext \/ EndDrain \/ \E ok \in BOOLEAN : Drained(ok)

PoolNext ==
  \/ \E u \in Tasks : TakeIdle(u) \/ StartCreate(u) \/ Create(u) \/ Leave(u)
  \/ \E u \in Tasks : ReleaseOwn(u) \/ BlockedPut(u) \/ Discard(u)
  \/ StartCheck \/ Check \/ StartDrain \/ Drain
  \/ \E c \in Channels : Age(c) \/ \E s \in ChannelStates : Break(c, s)

PoolSpec == PoolInit /\ [][PoolNext]_poolVars

(* Tasks that are not waiting for somebody else are scheduled, and creating *)
(* or closing a channel ends.  Users need not come back.                    *)
PoolFairness ==
  /\ \A u \in Tasks : WF_poolVars(Create(u)) /\ WF_poolVars(Discard(u))
  /\ \A u \in Tasks : WF_poolVars(BlockedPut(u))
  /\ WF_poolVars(Check) /\ WF_poolVars(Drain)

FairPool == PoolSpec /\ PoolFairness

------------------------------------------------------------------------------
(* The variables hold values the code can give them. *)
PoolTypes ==
  /\ chan \in [Channels -> ChannelStates]
  /\ queue \in Seq(Channels) /\ Len(queue) <= MaxSize
  /\ closed \in BOOLEAN
  /\ stamp \in [Channels -> {"none", "fresh", "stale"}]
  /\ op \in [Tasks -> [at : {"out", "creating", "got", "putting", "discarding"},
                       ch : Channels \cup {NoChannel}]]
  /\ borrowed \subseteq Channels
  /\ check \in [at : {"off", "loop", "closing"}, stale : SUBSET Channels,
                 ch : Channels \cup {NoChannel}]
  /\ drain \in [at : {"off", "loop", "closing", "done", "raised"},
                 ch : Channels \cup {NoChannel}, late : SUBSET Channels]

(* Every channel has one place: in the queue once, or with one user, or with *)
(* the health check or shutdown that is closing it.  So no two users share a *)
(* channel, and nothing closes a channel that somebody holds.                *)
OnePlace ==
  /\ \A i, j \in DOMAIN queue : queue[i] = queue[j] => i = j
  /\ Idle \cap borrowed = {}
  /\ \A u \in Tasks : op[u].ch # NoChannel => op[u].ch \in borrowed
  /\ \A u, v \in Tasks : op[u].ch = op[v].ch => u = v \/ op[u].ch = NoChannel
  /\ check.ch \notin Idle \cup borrowed
  /\ drain.ch \notin Idle \cup borrowed
  /\ check.ch = drain.ch => check.ch = NoChannel
  /\ \A c \in Idle \cup borrowed \cup ({check.ch, drain.ch} \ {NoChannel}) :
       chan[c] # "unborn"

(* No channel is lost: one that is still open is idle, in use or about to be *)
(* closed, so a pool that is drained holds on to no connection.              *)
NoneLost ==
  \A c \in Channels :
    chan[c] = "active" => c \in Idle \cup borrowed \cup {check.ch, drain.ch}

PoolInv == PoolTypes /\ OnePlace /\ NoneLost

(* "ChannelPool closed and resources released" (the log line that ends       *)
(* close()): nothing is idle then, except what a release() that was waiting  *)
(* for room when close() began puts into the queue behind it.                *)
DrainReclaims == drain.at = "done" => Idle \subseteq drain.late

(* A health check that finds only stale channels in the queue comes to its   *)
(* end, or to a channel that has been released meanwhile ...                 *)
CheckEndsIfAllStale ==
  check.at # "off" /\ Idle \subseteq check.stale
    ~> check.at = "off" \/ ~(Idle \subseteq check.stale)

(* ... and "checks the idle channels and closes them once over the time      *)
(* limit" (docstring of health_check) promises that any comes to its end.    *)
CheckEnds == check.at # "off" ~> check.at = "off"

(* A shutdown frees the releases that wait for room: however full the queue  *)
(* was, close() empties it, and each of those that waited when it began gets *)
(* its put() done.  That takes a close() that does not raise half-way, health *)
(* checks that end, and no more releases than the queue holds: of more, one  *)
(* can be left waiting for good, because nobody takes from a closed pool.    *)
ShutdownLetsGo ==
  <>[](check.at = "off") =>
    \A u \in Tasks :
      op[u].at = "putting" /\ closed /\ Cardinality(drain.late) <= MaxSize
        ~> op[u].at # "putting" \/ drain.at = "raised"

==============================================================================
