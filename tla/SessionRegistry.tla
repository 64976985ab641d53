---------------------------- MODULE SessionRegistry ----------------------------
(***************************************************************************)
(* SessionRegistry (session/session_registry.py): the map of live sessions *)
(* to their coordinators, a maintenance loop that evicts idle ones, and a  *)
(* shutdown that cancels the loop and finalises what is left.  Code        *)
(* between two awaits is one step.  The awaits that suspend are persist()  *)
(* and close() in _on_session_end, the lock when it is taken, and the wait *)
(* of close() for the maintenance task.  evict_idle holds the lock while   *)
(* it finalises; unregister and close do so after giving it back.          *)
(*                                                                         *)
(* The checkpoint store and the coordinators are collaborators.  Saving a  *)
(* state and closing a coordinator are awaited, so they may take time and  *)
(* may raise.  The repository's own have neither operation: ICheckpointSync *)
(* no persist(), SessionCoordinator no state and no close().  With them    *)
(* _on_session_end meets an AttributeError before it suspends.             *)
(***************************************************************************)
EXTENDS Naturals

CONSTANTS
  Tasks,          (* users of the registry that run at the same time        *)
  Maintenance,    (* the task of _eviction_loop                             *)
  Nobody,         (* holds the lock when it is free                         *)
  Sessions,
  Coordinators,   (* bound: as many as are ever registered                  *)
  NoCoordinator

ASSUME RegistryAssumption ==
  /\ Maintenance \notin Tasks
  /\ Nobody \notin Tasks \cup {Maintenance}
  /\ NoCoordinator \notin Coordinators

Workers == Tasks \cup {Maintenance}

VARIABLES
  entry,   (* _sessions: session -> its coordinator, or NoCoordinator       *)
  idle,    (* session -> registered, and inactive for longer than           *)
           (* idle_timeout                                                  *)
  coord,   (* history of a coordinator: "new", "registered", then how that  *)
           (* ended: "closed", "failed" (finalising it raised), "replaced"  *)
           (* (by another under its id) or "interrupted" (by cancellation)  *)
  store,   (* the checkpoint_sync: "none", "saves", or "lacks" where        *)
           (* persist() or the coordinator's state is not there             *)
  closable, (* the coordinators have a close()                              *)
  lock,    (* the worker that holds _lock across an await, or Nobody        *)
  stale,   (* the sessions that the eviction under way has yet to remove    *)
  rest,    (* task -> what its close() has yet to finalise                  *)
  op,      (* worker -> where it is, and with which coordinator             *)
  maint    (* _eviction_task: "off" (none, or done), "running", "cancelled" *)

vars == <<entry, idle, coord, store, closable, lock, stale, rest, op, maint>>

Out == [at |-> "out", co |-> NoCoordinator]

Init ==
  /\ entry = [s \in Sessions |-> NoCoordinator]
  /\ idle = [s \in Sessions |-> FALSE]
  /\ coord = [c \in Coordinators |-> "new"]
  /\ store \in {"none", "saves", "lacks"}
  /\ closable \in BOOLEAN
  /\ lock = Nobody
  /\ stale = {}
  /\ rest = [w \in Workers |-> {}]
  /\ op = [w \in Workers |-> Out]
  /\ maint = "off"

Registered(s) == entry[s] # NoCoordinator

Stale == {s \in Sessions : idle[s]}

(* A cancelled task does nothing more but end. *)
Runs(w) == w = Maintenance => maint = "running"

Pop(s) ==
  /\ entry' = [entry EXCEPT ![s] = NoCoordinator]
  /\ idle' = [idle EXCEPT ![s] = FALSE]

(* _on_session_end begins with the checkpoint, when there is a store ...     *)
Ending(c) == [at |-> IF store = "saves" THEN "saving" ELSE "ending", co |-> c]

(* ... and, where the first thing it asks of its collaborators is not there, *)
(* ends at once with a logged AttributeError.  Nothing suspends then, so the *)
(* sessions in S are taken out and done with in one step.                    *)
FailsAtOnce == store = "lacks" \/ (store = "none" /\ ~closable)

EndAtOnce(S) ==
  /\ FailsAtOnce
  /\ entry' = [s \in Sessions |-> IF s \in S THEN NoCoordinator ELSE entry[s]]
  /\ idle' = [s \in Sessions |-> idle[s] /\ s \notin S]
  /\ coord' = [c \in Coordinators |->
                 IF \E s \in S : entry[s] = c THEN "failed" ELSE coord[c]]

------------------------------------------------------------------------------
(* Faults: wrong versions of definitions below, which the runs swap in.     *)

(* touch() does not take the lock *)
TouchUnlocked(s) ==
  /\ Registered(s)
  /\ idle' = [idle EXCEPT ![s] = FALSE]
  /\ UNCHANGED <<entry, coord, store, closable, lock, stale, rest, op, maint>>

(* an exception of the store or a coordinator ends the whole call *)
EndFailedRaises(w) ==
  /\ op[w].at \in {"saving", "ending"} /\ Runs(w)
  /\ coord' = [coord EXCEPT ![op[w].co] = "failed"]
  /\ lock' = IF lock = w THEN Nobody ELSE lock
  /\ stale' = IF lock = w THEN {} ELSE stale
  /\ rest' = [rest EXCEPT ![w] = {}]
  /\ op' = [op EXCEPT ![w] = Out]
  /\ UNCHANGED <<entry, idle, store, closable, maint>>

(* evict_idle returns without giving the lock back *)
CallEndsLocked(w) ==
  /\ lock = w => stale = {}
  /\ rest[w] = {}
  /\ op' = [op EXCEPT ![w] = Out]
  /\ UNCHANGED <<entry, idle, lock, stale, rest>>

(* a cancelled eviction does not give the lock back *)
MaintenanceEndsLocked ==
  /\ maint = "cancelled"
  /\ maint' = "off"
  /\ coord' = [c \in Coordinators |->
                 IF c = op[Maintenance].co THEN "interrupted" ELSE coord[c]]
  /\ op' = [w \in Workers |->
              IF w = Maintenance THEN Out
              ELSE IF op[w].at = "awaiting" THEN [op[w] EXCEPT !.at = "clearing"]
              ELSE op[w]]
  /\ UNCHANGED <<entry, idle, store, closable, lock, stale, rest>>

------------------------------------------------------------------------------
(* register(), and resolve() or touch(): one step each once the lock is free *)

(* A session that was registered under this id is dropped as it is. *)
Register(s, c) ==
  /\ lock = Nobody
  /\ coord[c] = "new" \/ entry[s] = c
  /\ entry' = [entry EXCEPT ![s] = c]
  /\ idle' = [idle EXCEPT ![s] = FALSE]
  /\ coord' = [d \in Coordinators |->
                 IF d = c THEN "registered"
                 ELSE IF d = entry[s] THEN "replaced" ELSE coord[d]]
  /\ UNCHANGED <<store, closable, lock, stale, rest, op, maint>>

Touch(s) ==
  /\ lock = Nobody
  /\ Registered(s)
  /\ idle' = [idle EXCEPT ![s] = FALSE]
  /\ UNCHANGED <<entry, coord, store, closable, lock, stale, rest, op, maint>>

(* idle_timeout passes without activity. *)
Age(s) ==
  /\ Registered(s) /\ ~idle[s]
  /\ idle' = [idle EXCEPT ![s] = TRUE]
  /\ UNCHANGED <<entry, coord, store, closable, lock, stale, rest, op, maint>>

------------------------------------------------------------------------------
(* evict_idle(), by the maintenance loop or by a task.  The idle sessions    *)
(* are listed under the lock; from there to the first persist() nothing      *)
(* suspends.  (One that became idle while the lock was awaited waits for the *)
(* next round.)                                                              *)

Evict(w) ==
  /\ ~FailsAtOnce
  /\ lock = Nobody
  /\ op[w].at = "out" /\ Runs(w)
  /\ \E s \in Stale :
       /\ Pop(s)
       /\ stale' = Stale \ {s}
       /\ op' = [op EXCEPT ![w] = Ending(entry[s])]
  /\ lock' = w
  /\ UNCHANGED <<coord, store, closable, rest, maint>>

EvictAtOnce(w) ==
  /\ lock = Nobody
  /\ op[w].at = "out" /\ Runs(w)
  /\ Stale # {}
  /\ EndAtOnce(Stale)
  /\ UNCHANGED <<store, closable, lock, stale, rest, op, maint>>

(* unregister(): the session is taken out under the lock and finalised       *)
(* without it.                                                               *)
Unregister(t, s) ==
  /\ ~FailsAtOnce
  /\ lock = Nobody
  /\ op[t].at = "out"
  /\ Registered(s)
  /\ Pop(s)
  /\ op' = [op EXCEPT ![t] = Ending(entry[s])]
  /\ UNCHANGED <<coord, store, closable, lock, stale, rest, maint>>

UnregisterAtOnce(t, s) ==
  /\ lock = Nobody
  /\ op[t].at = "out"
  /\ Registered(s)
  /\ EndAtOnce({s})
  /\ UNCHANGED <<store, closable, lock, stale, rest, op, maint>>

------------------------------------------------------------------------------
(* _on_session_end().  Its caller goes on to its next session in the same    *)
(* step: an eviction removes it from the map only then.                      *)

NextEvicted(w) ==
  /\ lock = w /\ stale # {}
  /\ \E s \in stale :
       /\ Pop(s)
       /\ stale' = stale \ {s}
       /\ op' = [op EXCEPT ![w] = Ending(entry[s])]
  /\ UNCHANGED <<lock, rest>>

NextOfClose(w) ==
  /\ rest[w] # {}
  /\ \E c \in rest[w] :
       /\ rest' = [rest EXCEPT ![w] = @ \ {c}]
       /\ op' = [op EXCEPT ![w] = Ending(c)]
  /\ UNCHANGED <<entry, idle, lock, stale>>

CallEnds(w) ==
  /\ lock = w => stale = {}
  /\ rest[w] = {}
  /\ lock' = IF lock = w THEN Nobody ELSE lock
  /\ op' = [op EXCEPT ![w] = Out]
  /\ UNCHANGED <<entry, idle, stale, rest>>

GoOn(w) == NextEvicted(w) \/ NextOfClose(w) \/ CallEnds(w)

(* The state is saved; a coordinator that cannot be closed fails in the same *)
(* step, EndFailed.                                                          *)
Saved(w) ==
  /\ op[w].at = "saving" /\ Runs(w)
  /\ closable
  /\ op' = [op EXCEPT ![w].at = "ending"]
  /\ UNCHANGED <<entry, idle, coord, store, closable, lock, stale, rest, maint>>

(* An exception from the store or from the coordinator is logged, and from   *)
(* the store it leaves the coordinator open.                                 *)
EndFailed(w) ==
  /\ op[w].at \in {"saving", "ending"} /\ Runs(w)
  /\ coord' = [coord EXCEPT ![op[w].co] = "failed"]
  /\ GoOn(w)
  /\ UNCHANGED <<store, closable, maint>>

Ended(w) ==
  /\ op[w].at = "ending" /\ Runs(w)
  /\ coord' = [coord EXCEPT ![op[w].co] = "closed"]
  /\ GoOn(w)
  /\ UNCHANGED <<store, closable, maint>>

------------------------------------------------------------------------------
(* start_maintenance(), close().  (_closed only ends a loop that close() has *)
(* cancelled already: register() does not look at it.)                       *)

StartMaintenance ==
  /\ maint = "off"
  /\ maint' = "running"
  /\ UNCHANGED <<entry, idle, coord, store, closable, lock, stale, rest, op>>

Close(t) ==
  /\ op[t].at = "out"
  /\ op' = [op EXCEPT ![t].at = IF maint = "off" THEN "clearing" ELSE "awaiting"]
  /\ maint' = IF maint = "off" THEN "off" ELSE "cancelled"
  /\ UNCHANGED <<entry, idle, coord, store, closable, lock, stale, rest>>

(* The cancellation reaches the loop wherever it waits: asleep, for the lock *)
(* or inside _on_session_end, whose handler does not catch it.               *)
MaintenanceEnds ==
  /\ maint = "cancelled"
  /\ maint' = "off"
  /\ coord' = [c \in Coordinators |->
                 IF c = op[Maintenance].co THEN "interrupted" ELSE coord[c]]
  /\ lock' = IF lock = Maintenance THEN Nobody ELSE lock
  /\ stale' = IF lock = Maintenance THEN {} ELSE stale
  /\ op' = [w \in Workers |->
              IF w = Maintenance THEN Out
              ELSE IF op[w].at = "awaiting" THEN [op[w] EXCEPT !.at = "clearing"]
              ELSE op[w]]
  /\ UNCHANGED <<entry, idle, store, closable, rest>>

Clear(t) ==
  /\ ~FailsAtOnce
  /\ lock = Nobody
  /\ op[t].at = "clearing"
  /\ entry' = [s \in Sessions |-> NoCoordinator]
  /\ idle' = [s \in Sessions |-> FALSE]
  /\ LET left == {entry[s] : s \in {r \in Sessions : Registered(r)}}
     IN  \/ left = {} /\ op' = [op EXCEPT ![t] = Out] /\ UNCHANGED rest
         \/ \E c \in left : /\ op' = [op EXCEPT ![t] = Ending(c)]
                            /\ rest' = [rest EXCEPT ![t] = left \ {c}]
  /\ UNCHANGED <<coord, store, closable, lock, stale, maint>>

ClearAtOnce(t) ==
  /\ lock = Nobody
  /\ op[t].at = "clearing"
  /\ op' = [op EXCEPT ![t] = Out]
  /\ EndAtOnce({s \in Sessions : Registered(s)})
  /\ UNCHANGED <<store, closable, lock, stale, rest, maint>>

------------------------------------------------------------------------------
Finalise(w) == Saved(w) \/ EndFailed(w) \/ Ended(w)

EvictionRound(w) == Evict(w) \/ EvictAtOnce(w)
Clearing(t) == Clear(t) \/ ClearAtOnce(t)

Next ==
  \/ \E s \in Sessions : Touch(s) \/ Age(s)
  \/ \E s \in Sessions, c \in Coordinators : Register(s, c)
  \/ \E w \in Workers : EvictionRound(w) \/ Finalise(w)
  \/ \E t \in Tasks : Close(t) \/ Clearing(t)
  \/ \E t \in Tasks, s \in Sessions : Unregister(t, s) \/ UnregisterAtOnce(t, s)
  \/ StartMaintenance \/ MaintenanceEnds

Spec == Init /\ [][Next]_vars

(* The loop runs its rounds, saving and closing come to an end, and a task   *)
(* that waits for the lock gets its turn (asyncio.Lock serves in order).     *)
(* Nobody is obliged to call.                                                *)
Fairness ==
  /\ WF_vars(EvictionRound(Maintenance)) /\ WF_vars(MaintenanceEnds)
  /\ \A w \in Workers : WF_vars(Finalise(w))
  /\ \A t \in Tasks : SF_vars(Clearing(t))

FairSpec == Spec /\ Fairness

------------------------------------------------------------------------------
(* The variables hold values the code can give them. *)
TypeOK ==
  /\ entry \in [Sessions -> Coordinators \cup {NoCoordinator}]
  /\ idle \in [Sessions -> BOOLEAN]
  /\ coord \in [Coordinators -> {"new", "registered", "closed", "failed",
                                 "replaced", "interrupted"}]
  /\ store \in {"none", "saves", "lacks"}
  /\ closable \in BOOLEAN
  /\ lock \in Workers \cup {Nobody}
  /\ stale \subseteq Sessions
  /\ rest \in [Workers -> SUBSET Coordinators]
  /\ op \in [Workers -> [at : {"out", "saving", "ending", "awaiting", "clearing"},
                         co : Coordinators \cup {NoCoordinator}]]
  /\ maint \in {"off", "running", "cancelled"}

(* A coordinator is in one place: under one session, with one worker that    *)
(* finalises it, or on the list of one close().  So none is finalised twice, *)
(* nor while its session can still be resolved.                              *)
OneCustodian ==
  /\ \A s, r \in Sessions : entry[s] = entry[r] /\ Registered(s) => s = r
  /\ \A s \in Sessions, w \in Workers :
       Registered(s) => entry[s] # op[w].co /\ entry[s] \notin rest[w]
  /\ \A w, v \in Workers :
       /\ op[w].co = op[v].co => w = v \/ op[w].co = NoCoordinator
       /\ op[w].co \notin rest[v]
       /\ w # v => rest[w] \cap rest[v] = {}

(* None is forgotten: a coordinator whose registration has not ended is in   *)
(* such a place, and the others are in none.                                 *)
NoneForgotten ==
  \A c \in Coordinators :
    coord[c] = "registered" <=>
      \/ \E s \in Sessions : entry[s] = c
      \/ \E w \in Workers : c = op[w].co \/ c \in rest[w]

(* An eviction removes only sessions that are still registered and idle when *)
(* their turn comes, however long the ones before them took to save.         *)
EvictionIsCurrent ==
  /\ stale # {} => lock # Nobody
  /\ \A s \in stale : Registered(s) /\ idle[s]
  /\ \A w \in Workers : lock = w => op[w].at \in {"saving", "ending"} /\ rest[w] = {}

(* Where the collaborators lack what is asked of them, as the repository's   *)
(* own do, no session ends as it should: no coordinator is ever closed, and  *)
(* no finalisation is ever under way, so that nobody waits for the lock.     *)
NothingIsFinalised ==
  FailsAtOnce =>
    /\ \A c \in Coordinators : coord[c] \notin {"closed", "interrupted"}
    /\ lock = Nobody /\ \A w \in Workers : op[w].co = NoCoordinator

RegistryInv ==
  TypeOK /\ OneCustodian /\ NoneForgotten /\ EvictionIsCurrent /\ NothingIsFinalised

(* The attempt to finalise a session that has left the map comes to an end:  *)
(* its coordinator is closed, or, as always with collaborators that lack the *)
(* operations, that failed and was logged, or close() cancelled its eviction *)
(* (by maintenance, the only task that is ever cancelled).                   *)
RemovedAreFinalised ==
  \A c \in Coordinators :
    coord[c] = "registered" /\ (\A s \in Sessions : entry[s] # c)
      ~> \/ coord[c] = "closed" /\ closable
         \/ coord[c] \in {"failed", "interrupted"}

(* While the maintenance loop runs, an idle session does not stay idle: it   *)
(* is used again or is evicted.                                              *)
IdleAreEvicted ==
  \A s \in Sessions : maint = "running" /\ idle[s] ~> ~idle[s] \/ maint # "running"

(* close() returns, also when the loop it cancels is in the middle of an     *)
(* eviction and holds the lock.                                              *)
CloseReturns ==
  \A t \in Tasks : op[t].at \in {"awaiting", "clearing"} ~> op[t].at = "out"

==============================================================================
