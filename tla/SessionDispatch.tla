---------------------------- MODULE SessionDispatch ----------------------------
(***************************************************************************)
(* SessionDispatcher (session/session_dispatcher.py) over the session      *)
(* router (network/adapters/router_adapter.py) and the channel pool        *)
(* (ChannelPool): requests of several sessions obtain a channel, use it    *)
(* outside every lock, and sessions are released one by one or all at      *)
(* once.  The dispatcher's lock is held while it awaits the pool (a channel *)
(* is being created, release() waits for room) and the registry (touch()   *)
(* and unregister() wait for the registry's lock, and unregister() for the *)
(* session to be finalised); close_all() holds it only to take its list.   *)
(*                                                                         *)
(* The registry itself is SessionRegistry: its calls take time here and    *)
(* change nothing.  The pool's own health check and shutdown are in        *)
(* ChannelPool: nothing calls the former, and the latter comes after the   *)
(* dispatcher is done.                                                     *)
(***************************************************************************)
EXTENDS ChannelPool

CONSTANTS
  NoTask,     (* holds the lock when it is free                             *)
  Sessions

ASSUME DispatchAssumption == NoTask \notin Tasks

(* Of the pool's variables, closed, check and drain keep their first values *)
(* here.  A task whose op is at "got" uses the channel that route_session   *)
(* returned to it, or, while it holds the lock, is still in touch() inside  *)
(* that call; a task that holds the lock at "out" is in unregister() inside *)
(* release_session.                                                         *)
VARIABLES
  lock,      (* the task that holds _lock, or NoTask                        *)
  bindings,  (* _active_bindings: session -> channel_id, or NoChannel       *)
  routes,    (* the router's _session_map                                   *)
  serving,   (* task -> the session of its last call                        *)
  todo,      (* task -> sessions its close_all has yet to release           *)
  lookup,    (* the router was given a channel_lookup that finds channels;  *)
             (* as wired by default it finds none                           *)
  closedAll  (* history: close_all has been called                          *)

dispatchVars == <<lock, bindings, routes, serving, todo, lookup, closedAll>>
vars         == <<chan, queue, closed, stamp, op, borrowed, check, drain,
                  lock, bindings, routes, serving, todo, lookup, closedAll>>

Unbound == [s \in Sessions |-> NoChannel]

Init ==
  /\ PoolInit
  /\ lock = NoTask
  /\ bindings = Unbound
  /\ routes = Unbound
  /\ serving \in [Tasks -> Sessions]
  /\ todo = [t \in Tasks |-> {}]
  /\ lookup \in BOOLEAN
  /\ closedAll = FALSE

Bound(s) == bindings[s] # NoChannel

(* resolve() returns the channel of a route that can be looked up and is     *)
(* usable; any other route is dropped.  (It accepts CONNECTING as well, but  *)
(* a pooled channel is opened before it is bound and nobody reopens one.)    *)
Resolves(s) ==
  /\ lookup
  /\ routes[s] # NoChannel
  /\ chan[routes[s]] = "active"

Drop(map, s) == [map EXCEPT ![s] = NoChannel]

(* t starts a call and obtains the lock at once; while it waits for the lock *)
(* it has not begun.                                                         *)
Begin(t) ==
  /\ lock = NoTask
  /\ op[t].at = "out"
  /\ todo[t] = {}

------------------------------------------------------------------------------
(* Faults: wrong versions of definitions below, which the runs swap in.     *)

(* release_session leaves the route in the router *)
ReleaseKeepsRoute(t, s) ==
  /\ Begin(t) /\ Bound(s)
  /\ serving' = [serving EXCEPT ![t] = s]
  /\ bindings' = Drop(bindings, s)
  /\ lock' = t
  /\ IF Resolves(s) THEN Release(t, routes[s]) ELSE UNCHANGED poolVars
  /\ UNCHANGED <<routes, todo, lookup, closedAll>>

(* release_session returns when the pool has room for one more *)
UnregisteredWithRoom(t) ==
  /\ lock = t /\ op[t].at = "out" /\ Len(queue) < MaxSize
  /\ lock' = NoTask
  /\ UNCHANGED <<poolVars, bindings, routes, serving, todo, lookup, closedAll>>

(* release_session unbinds before it resolves, as _unbind_session does *)
ReleaseUnbindFirst(t, s) ==
  /\ Begin(t) /\ Bound(s)
  /\ serving' = [serving EXCEPT ![t] = s]
  /\ bindings' = Drop(bindings, s)
  /\ routes' = Drop(routes, s)
  /\ lock' = t
  /\ UNCHANGED <<poolVars, todo, lookup, closedAll>>

------------------------------------------------------------------------------
(* route_session().  Both its ways to a channel end in touch(), under the    *)
(* lock, which is given back in Touched.                                     *)

RouteBound(t, s) ==
  /\ Begin(t)
  /\ Bound(s) /\ Resolves(s)
  /\ op' = [op EXCEPT ![t] = [at |-> "got", ch |-> routes[s]]]
  /\ serving' = [serving EXCEPT ![t] = s]
  /\ lock' = t
  /\ UNCHANGED <<chan, queue, closed, stamp, borrowed, check, drain,
                 bindings, routes, todo, lookup, closedAll>>

Bind(s, c) ==
  /\ bindings' = [bindings EXCEPT ![s] = c]
  /\ routes' = [routes EXCEPT ![s] = c]

(* A binding that does not resolve is removed by _unbind_session, which      *)
(* unbinds the router before it asks it for the channel to release: it finds *)
(* none, and nothing is released.                                            *)
RouteAnew(t, s) ==
  /\ Begin(t)
  /\ ~(Bound(s) /\ Resolves(s))
  /\ serving' = [serving EXCEPT ![t] = s]
  /\ lock' = t
  /\ \/ TakeIdle(t) /\ Bind(s, Head(queue))
     \/ /\ StartCreate(t)
        /\ bindings' = Drop(bindings, s)
        /\ routes' = IF Bound(s) THEN Drop(routes, s) ELSE routes
  /\ UNCHANGED <<todo, lookup, closedAll>>

RouteCreated(t) ==
  /\ \E c \in Channels : Created(t, c) /\ Bind(serving[t], c)
  /\ UNCHANGED <<lock, serving, todo, lookup, closedAll>>

RouteFailed(t) ==
  /\ CreateFailed(t)
  /\ lock' = NoTask
  /\ UNCHANGED <<bindings, routes, serving, todo, lookup, closedAll>>

(* The registry has taken note of the session: route_session returns. *)
Touched(t) ==
  /\ lock = t /\ op[t].at = "got"
  /\ lock' = NoTask
  /\ UNCHANGED <<poolVars, bindings, routes, serving, todo, lookup, closedAll>>

(* The request is done with the channel. *)
LeaveSession(t) ==
  /\ lock # t
  /\ Leave(t)
  /\ UNCHANGED dispatchVars

(* handle_failure() compares the channel_id it stored, a string, with id(),  *)
(* an integer.                                                               *)
FailureIsOfSession(s, c) == FALSE

HandleFailure(t) ==
  /\ lock = NoTask
  /\ ~FailureIsOfSession(serving[t], op[t].ch)
  /\ Leave(t)
  /\ UNCHANGED dispatchVars

------------------------------------------------------------------------------
(* release_session(), close_all() *)

(* Whether or not there is a channel to release, the session is unregistered *)
(* under the lock, which is given back in Unregistered.                      *)
ReleaseSession(t, s) ==
  /\ Begin(t)
  /\ Bound(s)
  /\ serving' = [serving EXCEPT ![t] = s]
  /\ bindings' = Drop(bindings, s)
  /\ routes' = Drop(routes, s)
  /\ lock' = t
  /\ IF Resolves(s) THEN Release(t, routes[s]) ELSE UNCHANGED poolVars
  /\ UNCHANGED <<todo, lookup, closedAll>>

(* The end of a release() that waited for room, within either call. *)
FinishPut(t) == BlockedPut(t) /\ UNCHANGED dispatchVars

(* The registry has taken the session out and finalised it: release_session  *)
(* returns.                                                                  *)
Unregistered(t) ==
  /\ lock = t /\ op[t].at = "out"
  /\ lock' = NoTask
  /\ UNCHANGED <<poolVars, bindings, routes, serving, todo, lookup, closedAll>>

(* Walking through the list, without the lock, a session loses the route it  *)
(* has by then.                                                              *)
LetGo(t, s) ==
  /\ routes' = Drop(routes, s)
  /\ IF Resolves(s) THEN Release(t, routes[s]) ELSE UNCHANGED poolVars
  /\ UNCHANGED <<lock, serving, lookup>>

(* From taking the list to the end of the first session's release nothing    *)
(* suspends, so these are one step ...                                       *)
CloseAll(t) ==
  /\ Begin(t)
  /\ \E s \in Sessions :
       /\ Bound(s)
       /\ todo' = [todo EXCEPT ![t] = {r \in Sessions : Bound(r)} \ {s}]
       /\ LetGo(t, s)
  /\ bindings' = Unbound
  /\ closedAll' = TRUE

(* ... but releasing a session may, waiting for room or in unregister(),     *)
(* here without the lock.                                                    *)
Walk(t, s) ==
  /\ op[t].at = "out"
  /\ s \in todo[t]
  /\ todo' = [todo EXCEPT ![t] = @ \ {s}]
  /\ LetGo(t, s)
  /\ UNCHANGED <<bindings, closedAll>>

------------------------------------------------------------------------------
(* A channel in use breaks. *)
BreakChannel(c) == Break(c, "failed") /\ UNCHANGED dispatchVars

RouteCreation(t) == RouteCreated(t) \/ RouteFailed(t)

RegistryReturns(t) == Touched(t) \/ Unregistered(t)

Next ==
  \/ \E t \in Tasks, s \in Sessions :
       RouteBound(t, s) \/ RouteAnew(t, s) \/ ReleaseSession(t, s) \/ Walk(t, s)
  \/ \E t \in Tasks :
       \/ RouteCreation(t) \/ RegistryReturns(t) \/ FinishPut(t)
       \/ LeaveSession(t) \/ HandleFailure(t) \/ CloseAll(t)
  \/ \E c \in Channels : BreakChannel(c)

Spec == Init /\ [][Next]_vars

(* Creating a channel ends, a call of the registry ends (its lock comes      *)
(* back, see CloseReturns of SessionRegistry, and so do persist() and        *)
(* close()), a task that need not wait goes on.  Nobody is obliged to call.  *)
Fairness ==
  \A t \in Tasks :
    /\ WF_vars(RouteCreation(t)) /\ WF_vars(RegistryReturns(t)) /\ WF_vars(FinishPut(t))
    /\ WF_vars(\E s \in Sessions : Walk(t, s))

FairSpec == Spec /\ Fairness

------------------------------------------------------------------------------
(* The variables hold values the code can give them. *)
TypeOK ==
  /\ PoolTypes
  /\ ~closed /\ check.at = "off" /\ drain.at = "off"
  /\ lock \in Tasks \cup {NoTask}
  /\ bindings \in [Sessions -> Channels \cup {NoChannel}]
  /\ routes \in [Sessions -> Channels \cup {NoChannel}]
  /\ serving \in [Tasks -> Sessions]
  /\ todo \in [Tasks -> SUBSET Sessions]
  /\ lookup \in BOOLEAN
  /\ closedAll \in BOOLEAN

Routed == {routes[s] : s \in Sessions} \ {NoChannel}

(* The lock covers what it is for: a channel is created only under it, a     *)
(* close_all() walks without it, and while its holder waits nobody binds or  *)
(* unbinds the session: in touch() it is still bound to the channel about to *)
(* be returned; while a channel is created for it, or while it is released   *)
(* (waiting for room, then in unregister()), it is bound to none.            *)
LockHeld ==
  \A t \in Tasks :
    /\ op[t].at = "creating" => lock = t
    /\ lock = t => todo[t] = {} /\ op[t].at # "discarding"
    /\ lock = t /\ op[t].at = "got" => bindings[serving[t]] = op[t].ch
    /\ lock = t /\ op[t].at # "got" => bindings[serving[t]] = NoChannel

(* The router keeps channels apart whatever the dispatcher does: no two      *)
(* sessions are routed to one channel, no routed channel is idle or on its   *)
(* way back to the pool, and the pool never holds a channel twice.           *)
RouterExclusive ==
  /\ \A s, r \in Sessions : routes[s] = routes[r] /\ routes[s] # NoChannel => s = r
  /\ Routed \subseteq borrowed
  /\ Idle \cap borrowed = {}
  /\ \A i, j \in DOMAIN queue : queue[i] = queue[j] => i = j
  /\ \A t \in Tasks : op[t].at = "putting" => op[t].ch \in borrowed \ Routed
  /\ \A t, u \in Tasks :
       op[t].at = "putting" /\ op[u].at = "putting" /\ op[t].ch = op[u].ch => t = u

(* The dispatcher's bindings and the router's routes are one map until       *)
(* close_all() takes them apart; even then no session is bound to one        *)
(* channel and routed to another.                                            *)
BindingsAreRoutes ==
  /\ ~closedAll => bindings = routes
  /\ \A s \in Sessions : bindings[s] \in {NoChannel, routes[s]} \/ routes[s] = NoChannel

DispatchInv == TypeOK /\ LockHeld /\ RouterExclusive /\ BindingsAreRoutes

(* A channel that somebody can still find: routed, idle or being put back.   *)
Kept(c) ==
  c \in Routed \cup Idle \cup {op[t].ch : t \in {u \in Tasks : op[u].at = "putting"}}

(* A healthy channel gets lost only where the router cannot look channels up *)
(* or while a close_all() is under way.                                      *)
HealthyKept ==
  [][\A c \in Channels :
       Kept(c) /\ chan[c] = "active" /\ ~Kept(c)' =>
         ~lookup \/ \E t \in Tasks : todo[t] # {}]_vars

(* The lock is given back whatever its holder awaits, the factory of channels *)
(* or the registry, except by a release that waits for room in a full pool    *)
(* ...                                                                        *)
StuckOnlyForRoom ==
  \A t \in Tasks :
    lock = t ~> lock # t \/ (op[t].at = "putting" /\ Len(queue) = MaxSize)

(* ... but "release_session() and close_all() ensure that every channel is   *)
(* released to the pool" (the module's closing notes), so each should end.   *)
ReleaseReturns == \A t \in Tasks : op[t].at = "putting" ~> op[t].at # "putting"

(* and once no session is bound and no call is under way, nothing should be  *)
(* missing from the pool.                                                    *)
AllReleased ==
  (bindings = Unbound /\ \A t \in Tasks : op[t].at = "out" /\ todo[t] = {})
    => \A c \in borrowed : chan[c] # "active"

==============================================================================
