------------------------------- MODULE KeepAlive -------------------------------
(***************************************************************************)
(* WSKeepAlivePolicy (transport/_ws_keepalive.py): a task that pings a     *)
(* peer and reports it dead after max_missed silent waits, and the calls   *)
(* of its owner, WebSocketTransporter: start, stop, handle_pong.  A task   *)
(* is cancelled at its next await.  stop cancels the task and reads its    *)
(* result at once: of a task that has not ended yet that raises            *)
(* InvalidStateError, and _task is kept.  The owner's answer to a dead     *)
(* peer is close, which calls stop from within the task itself.            *)
(***************************************************************************)
EXTENDS Naturals, FiniteSets

CONSTANTS
  Tasks,     (* bound: the tasks that may be created                         *)
  MaxMissed, (* max_missed                                                   *)
  MaxPings   (* bound: pings counted as unanswered                           *)

NoTask == "no_task"
Running == {"sleeping", "writing", "waiting"}

VARIABLES
  loop,       (* task -> where its _ping_loop is                             *)
  cancelling, (* tasks whose cancellation is requested                       *)
  task,       (* _task                                                       *)
  missed,     (* _missed_count                                               *)
  pong,       (* _pong_received                                              *)
  unanswered, (* pings written since the last pong                           *)
  reports     (* whether the peer was just reported dead                     *)

vars == <<loop, cancelling, task, missed, pong, unanswered, reports>>

TypeOK ==
  /\ loop \in [Tasks -> Running \union {"unused", "ended"}]
  /\ cancelling \subseteq Tasks
  /\ task \in Tasks \union {NoTask}
  /\ missed \in 0 .. MaxMissed + 1 /\ unanswered \in 0 .. MaxPings
  /\ pong \in BOOLEAN /\ reports \in BOOLEAN

Init ==
  /\ loop = [t \in Tasks |-> "unused"] /\ cancelling = {} /\ task = NoTask
  /\ missed = 0 /\ pong = FALSE /\ unanswered = 0 /\ reports = FALSE

Runs(t) == loop[t] \in Running
Done == task # NoTask /\ ~Runs(task)
Goto(t, l) == loop' = [loop EXCEPT ![t] = l]

------------------------------------------------------------------------------
(* Faults: wrong versions of definitions below, which the runs swap in.     *)

(* a pong sets the event and leaves the count *)
CountKept == missed' = missed

(* a missed pong ends the wait and is not counted *)
MissForgiven == missed' = missed
------------------------------------------------------------------------------
(* start: refused while the task runs; the count of the last task is kept.  *)
Start ==
  /\ task = NoTask \/ Done
  /\ \E t \in Tasks :
       /\ loop[t] = "unused"
       /\ Goto(t, "sleeping") /\ task' = t
  /\ reports' = FALSE
  /\ UNCHANGED <<cancelling, missed, pong, unanswered>>

(* What stop does to _task: kept if reading the result raises.              *)
Release == task' = IF Runs(task) THEN task ELSE NoTask

(* stop, by the owner                                                       *)
Stop ==
  /\ task # NoTask
  /\ cancelling' = IF Runs(task) THEN cancelling \union {task} ELSE cancelling
  /\ Release
  /\ reports' = FALSE
  /\ UNCHANGED <<loop, missed, pong, unanswered>>

ResetCount == missed' = 0

(* handle_pong: the owner has read a pong (or, as a server, a ping)         *)
HandlePong ==
  /\ ResetCount /\ pong' = TRUE /\ unanswered' = 0 /\ reports' = FALSE
  /\ UNCHANGED <<loop, cancelling, task>>

(* The sleep is over: a ping is written, unless the writer is closing.      *)
Ping(t) ==
  /\ loop[t] = "sleeping" /\ t \notin cancelling
  /\ \/ /\ Goto(t, "writing")
        /\ unanswered' = IF unanswered < MaxPings THEN unanswered + 1 ELSE unanswered
     \/ Goto(t, "ended") /\ UNCHANGED unanswered
  /\ reports' = FALSE
  /\ UNCHANGED <<cancelling, task, missed, pong>>

(* The ping is drained, or writing failed.  A pong that came meanwhile is   *)
(* forgotten by the event, not by the count.                                *)
Drained(t) ==
  /\ loop[t] = "writing" /\ t \notin cancelling
  /\ \/ Goto(t, "waiting") /\ pong' = FALSE
     \/ Goto(t, "ended") /\ UNCHANGED pong
  /\ reports' = FALSE
  /\ UNCHANGED <<cancelling, task, missed, unanswered>>

Answered(t) ==
  /\ loop[t] = "waiting" /\ t \notin cancelling /\ pong
  /\ Goto(t, "sleeping") /\ reports' = FALSE
  /\ UNCHANGED <<cancelling, task, missed, pong, unanswered>>

CountMiss == missed' = IF missed <= MaxMissed THEN missed + 1 ELSE missed

(* The wait times out, which a pong of the same moment need not prevent.    *)
(* At the limit the owner's close is awaited: its stop cancels this very    *)
(* task and raises, which ends the loop.                                    *)
Expired(t) ==
  /\ loop[t] = "waiting" /\ t \notin cancelling
  /\ CountMiss
  /\ reports' = (missed' >= MaxMissed)
  /\ Goto(t, IF missed' >= MaxMissed THEN "ended" ELSE "sleeping")
  /\ UNCHANGED <<cancelling, task, pong, unanswered>>

(* The cancellation reaches the task at its await.                          *)
Cancelled(t) ==
  /\ t \in cancelling /\ Runs(t)
  /\ Goto(t, "ended") /\ cancelling' = cancelling \ {t} /\ reports' = FALSE
  /\ UNCHANGED <<task, missed, pong, unanswered>>

Step(t) == Ping(t) \/ Drained(t) \/ Answered(t) \/ Expired(t) \/ Cancelled(t)

Next == Start \/ Stop \/ HandlePong \/ \E t \in Tasks : Step(t)

------------------------------------------------------------------------------
(* A peer is reported dead only after max_missed - 1 pings that nothing     *)
(* answered: the pong lost between writing a ping and clearing the event    *)
(* costs one, and no restart and no late pong costs more.  And one task     *)
(* pings at most: stop, which cannot wait for the task it cancels, must not *)
(* let start create a second beside it (_ping_loop, handle_pong, stop).     *)
DeadOnlyIfSilent ==
  /\ reports => unanswered + 1 >= MaxMissed
  /\ Cardinality({t \in Tasks : Runs(t)}) <= 1

(* Once the peer is silent for good every ping loop ends: it is reported    *)
(* dead, or the writer failed or was closed (_ping_loop).                   *)
SilenceFound == (<>[][~HandlePong]_vars) => \A t \in Tasks : Runs(t) ~> ~Runs(t)
==============================================================================
