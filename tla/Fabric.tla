--------------------------------- MODULE Fabric ---------------------------------
(***************************************************************************)
(* The life of the assembled fabric: AppRunner (wiring/runner.py),         *)
(* FabricClient and CommunicationFabricAssembler (wiring/assembler.py),    *)
(* LayerRegistry and PipelineRegistry (wiring/registry).  The runner and   *)
(* other tasks of the application use one client.  The registries' locked  *)
(* sections and start_maintenance await nothing, so the only places where  *)
(* tasks change are the closes of the components, one after the other.     *)
(* Calls through a pipeline change nothing here: every message is refused  *)
(* (its context takes no ttl), and ending a session is SessionDispatch's.  *)
(***************************************************************************)
EXTENDS Naturals, Sequences, FiniteSets

CONSTANTS
  App,        (* tasks that use the client beside the runner                 *)
  Built,      (* how many components the assembler registers                 *)
  MaxMade,    (* bound: components registered in all                         *)
  Pipes       (* names of pipelines                                          *)

Runner == "runner"
Tasks == {Runner} \union App

VARIABLES
  runner,     (* "new", "assembled", "waiting", "stopping", "over"           *)
  started,    (* FabricClient._started                                       *)
  layers,     (* LayerRegistry._store: the components in order of their keys *)
  layersOver, (* LayerRegistry._closed                                       *)
  pipes,      (* PipelineRegistry._index                                     *)
  pipesOver,  (* PipelineRegistry._closed                                    *)
  closing,    (* task -> whether it is in FabricClient.close                 *)
  rest,       (* task -> components that it has still to close               *)
  closed,     (* components in the order in which they were closed           *)
  made,       (* how many components were registered: 1 .. made              *)
  place,      (* component -> the place of its key                           *)
  lost,       (* components that another took the key of                     *)
  dropped,    (* components that a cancelled close left                      *)
  cut         (* whether a close was cancelled                               *)

fVars == <<runner, started, layers, layersOver, pipes, pipesOver, closing, rest, closed, made, place,
           lost, dropped, cut>>
history == <<closed, lost, dropped, cut>>

Init ==
  /\ runner = "new" /\ started = FALSE
  /\ layers = <<>> /\ layersOver = FALSE
  /\ pipes = {} /\ pipesOver = FALSE
  /\ closing = [t \in Tasks |-> FALSE] /\ rest = [t \in Tasks |-> <<>>]
  /\ closed = <<>> /\ made = 0 /\ place = <<>>
  /\ lost = {} /\ dropped = {} /\ cut = FALSE

Reversed(s) == [i \in DOMAIN s |-> s[Len(s) + 1 - i]]
Elements(s) == {s[i] : i \in DOMAIN s}

------------------------------------------------------------------------------
(* Faults: wrong versions of definitions below, which the runs swap in.     *)

(* the list is taken, and the store left as it is *)
TakenAndKept(t) == rest' = [rest EXCEPT ![t] = Reversed(layers)] /\ UNCHANGED layers
------------------------------------------------------------------------------
(* assemble: something raises, and run is over, or all is registered.       *)
Assemble ==
  /\ runner = "new"
  /\ \/ runner' = "over" /\ UNCHANGED <<layers, made, place, pipes>>
     \/ /\ runner' = "assembled"
        /\ layers' = [i \in 1 .. Built |-> i] /\ made' = Built /\ place' = layers' /\ pipes' = Pipes
  /\ UNCHANGED <<started, layersOver, pipesOver, closing, rest, history>>

(* FabricClient.start: the session registry is looked up and its upkeep     *)
(* started; a store that was emptied has none, and the upkeep may fail.     *)
CanStart == layers # <<>>
StartClient == started' = TRUE /\ (started \/ CanStart)
FailStart == ~started /\ UNCHANGED started

RunnerStarts ==
  /\ runner = "assembled"
  /\ \/ StartClient /\ runner' = "waiting"
     \/ FailStart /\ runner' = "stopping"
  /\ UNCHANGED <<layers, layersOver, pipes, pipesOver, closing, rest, made, place, history>>

(* A signal, or the runner is cancelled.                                    *)
Signal ==
  /\ runner = "waiting" /\ runner' = "stopping"
  /\ UNCHANGED <<started, layers, layersOver, pipes, pipesOver, closing, rest, made, place, history>>

AppStarts(t) ==
  /\ runner \notin {"new", "assembled"} /\ made > 0 /\ ~closing[t]
  /\ StartClient
  /\ UNCHANGED <<runner, layers, layersOver, pipes, pipesOver, closing, rest, made, place, history>>

(* register, at a new key or one that is taken; a closed registry refuses.  *)
Replaced(i) == layers' = [layers EXCEPT ![i] = made + 1]
RegisterLayer ==
  /\ runner \notin {"new", "assembled"} /\ ~layersOver /\ made < MaxMade
  /\ made' = made + 1
  /\ \/ /\ layers' = Append(layers, made') /\ place' = Append(place, Len(layers'))
        /\ UNCHANGED lost
     \/ \E i \in DOMAIN layers :
          /\ Replaced(i) /\ place' = Append(place, i)
          /\ lost' = lost \union {layers[i]}
  /\ UNCHANGED <<runner, started, layersOver, pipes, pipesOver, closing, rest, closed, dropped, cut>>

RegisterPipe(p) ==
  /\ runner \notin {"new", "assembled"} /\ ~pipesOver
  /\ pipes' = pipes \union {p}
  /\ UNCHANGED <<runner, started, layers, layersOver, pipesOver, closing, rest, made, place, history>>

(* PipelineRegistry.close (a pipeline has nothing to close), and the locked *)
(* part of LayerRegistry.close.                                             *)
ClosePipes == pipes' = {} /\ pipesOver' = TRUE
TakeLayers(t) == rest' = [rest EXCEPT ![t] = Reversed(layers)] /\ layers' = <<>>

BeginClose(t) ==
  /\ started /\ ~closing[t] /\ (t = Runner => runner = "stopping")
  /\ ClosePipes /\ TakeLayers(t) /\ layersOver' = TRUE
  /\ closing' = [closing EXCEPT ![t] = TRUE]
  /\ UNCHANGED <<runner, started, made, place, history>>

(* A close that finds the client not started returns at once.               *)
SkipClose ==
  /\ runner = "stopping" /\ ~started /\ ~closing[Runner] /\ runner' = "over"
  /\ UNCHANGED <<started, layers, layersOver, pipes, pipesOver, closing, rest, made, place, history>>

(* The next component is closed; what it raises is logged.                  *)
CloseNext(t) ==
  /\ closing[t] /\ rest[t] # <<>>
  /\ closed' = Append(closed, Head(rest[t])) /\ rest' = [rest EXCEPT ![t] = Tail(rest[t])]
  /\ UNCHANGED <<runner, started, layers, layersOver, pipes, pipesOver, closing, made, place, lost, dropped, cut>>

Leave(t) ==
  /\ closing' = [closing EXCEPT ![t] = FALSE]
  /\ runner' = IF t = Runner THEN "over" ELSE runner

EndClose(t) ==
  /\ closing[t] /\ rest[t] = <<>> /\ started' = FALSE /\ Leave(t)
  /\ UNCHANGED <<layers, layersOver, pipes, pipesOver, rest, made, place, history>>

(* Its task is cancelled at a component's close, and leaves the others.     *)
CancelClose(t) ==
  /\ closing[t] /\ cut' = TRUE /\ Leave(t)
  /\ dropped' = dropped \union Elements(rest[t]) /\ rest' = [rest EXCEPT ![t] = <<>>]
  /\ UNCHANGED <<started, layers, layersOver, pipes, pipesOver, closed, made, place, lost>>

Next ==
  \/ Assemble \/ RunnerStarts \/ Signal \/ RegisterLayer \/ SkipClose
  \/ \E p \in Pipes : RegisterPipe(p)
  \/ \E t \in App : AppStarts(t)
  \/ \E t \in Tasks : BeginClose(t) \/ CloseNext(t) \/ EndClose(t) \/ CancelClose(t)

------------------------------------------------------------------------------
(* Whoever closes the client, and however closes overlap: each component is *)
(* closed at most once and later keys before earlier ones; until then, the  *)
(* registry or one closer has it, unless another took its key or its closer *)
(* was cancelled.  No pipeline resolves any more, nor ever again, by the    *)
(* time the first component goes, and a client that calls itself healthy    *)
(* still has its components, but while a close is under way or after one    *)
(* was cancelled (FabricClient.close, LayerRegistry.close).                 *)
ShutdownInv ==
  LET holders == {Elements(layers), Elements(closed), lost, dropped} \union {Elements(rest[t]) : t \in Tasks}
  IN /\ UNION holders = 1 .. made
     /\ \A a, b \in holders : a # b => a \intersect b = {}
     /\ \A i, j \in DOMAIN closed : i < j => place[closed[i]] > place[closed[j]]
     /\ layersOver => pipes = {} /\ pipesOver
     /\ started => ~layersOver \/ cut \/ \E t \in Tasks : closing[t]
==============================================================================
