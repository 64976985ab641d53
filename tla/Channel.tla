-------------------------------- MODULE Channel --------------------------------
(***************************************************************************)
(* Channel (transport/channel/channel.py): the lifecycle of one channel    *)
(* that several coroutines open, close and send on.  open() and close()    *)
(* hold the channel's lock while they await the transporter; a send checks *)
(* the state and awaits the transporter without it, and takes it only to   *)
(* mark the channel FAILED.  A call can be cancelled at any of its awaits: *)
(* CancelledError is not an Exception, so no handler here repairs the      *)
(* state, and leaving the block releases the lock.                         *)
(*                                                                         *)
(* Metrics and payloads are left out.  asyncio.Lock serves waiters in      *)
(* order; here any waiter may be next, and ChannelFairSpec says none is    *)
(* passed over for ever.                                                   *)
(***************************************************************************)
EXTENDS Naturals

CONSTANTS
  Tasks,   (* coroutines that use the channel *)
  NoTask   (* holds the lock when it is free  *)

ASSUME ChannelAssumption == NoTask \notin Tasks

VARIABLES
  state,     (* _state                                                      *)
  lock,      (* the task that holds _lock, or NoTask                        *)
  pc,        (* where each task is in its call, or how its last call ended  *)
  explicit   (* the transporter has an _ensure_connection to await          *)

channelVars == <<state, lock, pc, explicit>>

ChannelState == {"closed", "connecting", "active", "draining", "failed"}

Waiting == {"want_open", "want_close", "want_fail"}   (* for the lock       *)
Holding == {"opening", "closing"}                     (* lock held, at an await *)
Ended   == {"idle", "opened", "shut", "sent", "raised", "cancelled"}

ChannelInit ==
  /\ state = "closed"
  /\ lock = NoTask
  /\ pc = [t \in Tasks |-> "idle"]
  /\ explicit \in BOOLEAN

Goto(t, l) == pc' = [pc EXCEPT ![t] = l]

Begin(t, l) == pc[t] \in Ended /\ Goto(t, l) /\ UNCHANGED <<state, lock, explicit>>

------------------------------------------------------------------------------
(* Faults: wrong versions of definitions below, which the runs swap in.     *)

(* the refusing path of open() leaves the lock taken *)
RefuseOpenLocked(t) ==
  /\ state = "draining"
  /\ lock' = t
  /\ Goto(t, "raised")
  /\ UNCHANGED <<state, explicit>>

(* open() waits for the transporter without the lock *)
StartOpenUnlocked(t) ==
  /\ state \in {"closed", "failed"}
  /\ IF explicit
       THEN state' = "connecting" /\ Goto(t, "opening") /\ UNCHANGED lock
       ELSE state' = "active" /\ Goto(t, "opened") /\ UNCHANGED lock
  /\ UNCHANGED explicit

(* a failing _ensure_connection is not handled: no FAILED state *)
ConnectFailedUnhandled(t) ==
  /\ lock' = NoTask
  /\ Goto(t, "raised")
  /\ UNCHANGED state

(* close() of a failed channel returns at once *)
AlreadyClosedOrFailed(t) ==
  /\ state \in {"closed", "draining", "failed"}
  /\ Goto(t, "shut")
  /\ UNCHANGED <<state, lock, explicit>>

(* _transition_to_failed does not look at the state again *)
TransitionToFailedBlindly(t) ==
  /\ pc[t] = "want_fail"
  /\ lock = NoTask
  /\ state' = "failed"
  /\ Goto(t, "raised")
  /\ UNCHANGED <<lock, explicit>>

------------------------------------------------------------------------------
(* open(), from the moment the lock is obtained.                            *)

AlreadyOpen(t) ==
  /\ state \in {"active", "connecting"}
  /\ Goto(t, "opened")
  /\ UNCHANGED <<state, lock, explicit>>

RefuseOpen(t) ==
  /\ state = "draining"
  /\ Goto(t, "raised")
  /\ UNCHANGED <<state, lock, explicit>>

StartOpen(t) ==
  /\ state \in {"closed", "failed"}
  /\ IF explicit
       THEN state' = "connecting" /\ lock' = t /\ Goto(t, "opening")
       ELSE state' = "active" /\ Goto(t, "opened") /\ UNCHANGED lock
  /\ UNCHANGED explicit

EnterOpen(t) ==
  /\ pc[t] = "want_open"
  /\ lock = NoTask
  /\ AlreadyOpen(t) \/ RefuseOpen(t) \/ StartOpen(t)

Connected(t) ==
  /\ state' = "active"
  /\ lock' = NoTask
  /\ Goto(t, "opened")

ConnectFailed(t) ==
  /\ state' = "failed"
  /\ lock' = NoTask
  /\ Goto(t, "raised")

FinishOpen(t) ==
  /\ pc[t] = "opening"
  /\ Connected(t) \/ ConnectFailed(t)
  /\ UNCHANGED explicit

------------------------------------------------------------------------------
(* close(), from the moment the lock is obtained.                           *)

AlreadyClosed(t) ==
  /\ state \in {"closed", "draining"}
  /\ Goto(t, "shut")
  /\ UNCHANGED <<state, lock, explicit>>

StartClose(t) ==
  /\ state \notin {"closed", "draining"}
  /\ state' = "draining"
  /\ lock' = t
  /\ Goto(t, "closing")
  /\ UNCHANGED explicit

EnterClose(t) ==
  /\ pc[t] = "want_close"
  /\ lock = NoTask
  /\ AlreadyClosed(t) \/ StartClose(t)

FinishClose(t) ==
  /\ pc[t] = "closing"
  /\ lock' = NoTask
  /\ \/ state' = "closed" /\ Goto(t, "shut")
     \/ state' = "failed" /\ Goto(t, "raised")
  /\ UNCHANGED explicit

------------------------------------------------------------------------------
(* send() and stream(): the state is checked once, before the transporter   *)
(* is awaited.  A PERMANENT error goes on to _transition_to_failed.         *)

Send(t) ==
  /\ pc[t] \in Ended
  /\ Goto(t, IF state = "active" THEN "sending" ELSE "raised")
  /\ UNCHANGED <<state, lock, explicit>>

FinishSend(t) ==
  /\ pc[t] = "sending"
  /\ \E outcome \in {"sent", "raised", "want_fail"} : Goto(t, outcome)
  /\ UNCHANGED <<state, lock, explicit>>

TransitionToFailed(t) ==
  /\ pc[t] = "want_fail"
  /\ lock = NoTask
  /\ state' = IF state \in {"failed", "closed"} THEN state ELSE "failed"
  /\ Goto(t, "raised")
  /\ UNCHANGED <<lock, explicit>>

------------------------------------------------------------------------------
Cancel(t) ==
  /\ pc[t] \in Waiting \cup Holding \cup {"sending"}
  /\ lock' = IF lock = t THEN NoTask ELSE lock
  /\ Goto(t, "cancelled")
  /\ UNCHANGED <<state, explicit>>

Enter(t)  == EnterOpen(t) \/ EnterClose(t) \/ TransitionToFailed(t)
Finish(t) == FinishOpen(t) \/ FinishClose(t) \/ FinishSend(t)

ChannelNext == \E t \in Tasks :
  \/ Begin(t, "want_open") \/ Begin(t, "want_close") \/ Send(t)
  \/ Enter(t) \/ Finish(t) \/ Cancel(t)

ChannelSpec == ChannelInit /\ [][ChannelNext]_channelVars

(* The lock serves its waiters in turn, and the transporter ends what it is *)
(* asked to do.  Nothing says that anyone is cancelled, or calls at all.    *)
ChannelFairness == \A t \in Tasks : SF_channelVars(Enter(t)) /\ WF_channelVars(Finish(t))

ChannelFairSpec == ChannelSpec /\ ChannelFairness

------------------------------------------------------------------------------
(* The variables hold values the code can give them. *)
ChannelTypes ==
  /\ state \in ChannelState
  /\ lock \in Tasks \cup {NoTask}
  /\ pc \in [Tasks -> Waiting \cup Holding \cup Ended \cup {"sending"}]
  /\ explicit \in BOOLEAN

(* The lock is held exactly across the awaits of open() and close(), and the *)
(* transitional state belongs to the task at that await: nobody else can     *)
(* move the channel while its transporter is being opened or closed.         *)
LockDiscipline ==
  /\ ChannelTypes
  /\ \A t \in Tasks :
       /\ (lock = t) <=> (pc[t] \in Holding)
       /\ pc[t] = "opening" => state = "connecting"
       /\ pc[t] = "closing" => state = "draining"

(* A transitional state with no task behind it. *)
Stranded == state \in {"connecting", "draining"} /\ lock = NoTask

(* Only a cancelled call can strand the channel: no error path and no race   *)
(* with sends leaves it CONNECTING or DRAINING with nobody to move it on.    *)
StrandedOnlyByCancel ==
  [][~Stranded /\ Stranded' =>
       \E t \in Tasks : pc[t] \in Holding /\ pc'[t] = "cancelled"]_channelVars

(* "Initialises the channel and moves it to ACTIVE" (IChannel.open): an      *)
(* open() that returns leaves the channel ACTIVE, whoever opened it ...      *)
OpenDelivers ==
  [][\A t \in Tasks : pc[t] # "opened" /\ pc'[t] = "opened" => state' = "active"]_channelVars

(* ... unless an earlier open() was cancelled half way; and a close() that   *)
(* returns leaves it CLOSED unless an earlier close() was cancelled.         *)
ReturnsDeliver ==
  [][\A t \in Tasks :
       /\ pc[t] # "opened" /\ pc'[t] = "opened" => state' = "active" \/ Stranded
       /\ pc[t] # "shut" /\ pc'[t] = "shut" => state' = "closed" \/ Stranded]_channelVars

(* The state machine of ChannelState: a closed or failed channel changes     *)
(* only by being opened (or, failed, closed), and a close that has begun     *)
(* ends in CLOSED or FAILED.  StartOpen without an await passes CONNECTING   *)
(* within one step.                                                          *)
Transitions ==
  {<<"closed", "connecting">>, <<"closed", "active">>,
   <<"failed", "connecting">>, <<"failed", "active">>, <<"failed", "draining">>,
   <<"connecting", "active">>, <<"connecting", "failed">>, <<"connecting", "draining">>,
   <<"active", "draining">>, <<"active", "failed">>,
   <<"draining", "closed">>, <<"draining", "failed">>}

LegalTransitions == [][(<<state, state'>>) \in Transitions]_state

(* Every open(), close() and failing send gets the lock and returns. *)
CallsReturn ==
  \A t \in Tasks : pc[t] \in Waiting \cup Holding ~> pc[t] \in Ended

==============================================================================
