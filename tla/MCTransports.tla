------------------------------ MODULE MCTransports ------------------------------
(* Three transporters, of which TransportFactory builds one: the TCP client *)
(* and server, the subprocess, or the keep-alive of a WebSocket.            *)
EXTENDS Naturals

CONSTANTS Tasks, MaxMissed, MaxPings, Senders, MaxChildren, Calls, MaxFrames

(* Tasks are told from the value that stands for none; the count of pings   *)
(* without an answer goes beyond the count that is acted on.                *)
ASSUME TransportsAssumption ==
  /\ "no_task" \notin Tasks
  /\ MaxMissed \in Nat /\ MaxPings \in Nat /\ MaxMissed < MaxPings
  /\ MaxChildren \in Nat /\ MaxFrames \in Nat \ {0}

VARIABLES link,
  loop, cancelling, task, missed, pong, unanswered, reports,
  child, proc, input, reader, at, mine, doomed, error, closing, closed, overlapped, cancelled,
  kind, listening, client, server, up, down, received, taken, answers

K == INSTANCE KeepAlive
S == INSTANCE SubprocessLink
T == INSTANCE TcpLink

kVars == <<loop, cancelling, task, missed, pong, unanswered, reports>>
sVars == <<child, proc, input, reader, at, mine, doomed, error, closing, closed, overlapped, cancelled>>
tVars == <<kind, listening, client, server, up, down, received, taken, answers>>
vars == <<link, kVars, sVars, tVars>>

Init ==
  /\ link \in {"websocket", "cli", "tcp"}
  /\ K!Init /\ S!Init /\ T!Init
  /\ link # "tcp" => answers = 1 /\ kind = [c \in Calls |-> "send"]

WebSocketStep(t) == link = "websocket" /\ K!Step(t) /\ UNCHANGED <<link, sVars, tVars>>

Next ==
  \/ link = "tcp" /\ T!Next /\ UNCHANGED <<link, kVars, sVars>>
  \/ link = "cli" /\ S!Next /\ UNCHANGED <<link, kVars, tVars>>
  \/ link = "websocket" /\ K!Next /\ UNCHANGED <<link, sVars, tVars>>

(* The event loop runs the keep-alive's task, whose timers fire.  Nothing   *)
(* is assumed of the peer or the owner.                                     *)
FairSpec ==
  /\ Init /\ [][Next]_vars
  /\ \A t \in Tasks : WF_vars(WebSocketStep(t))

(* See TcpLink, SubprocessLink and KeepAlive.                               *)
FramesWhole == T!FramesWhole
ChildrenAccounted == S!ChildrenAccounted
DeadOnlyIfSilent == K!DeadOnlyIfSilent
SilenceFound == K!SilenceFound
==============================================================================
