------------------------------ MODULE ServerEdges ------------------------------
(***************************************************************************)
(* The inbound sides of the protocol handlers: one message at a time, from *)
(* its arrival to the last byte of its answer.  The application's handler  *)
(* does a request itself or relays it through a client edge, and what that *)
(* raises is answered here.  Every write may fail; the code then writes an *)
(* answer about that, once.                                                *)
(* http_handler (HTTP, WebSocket, other ASGI scopes), cli_handler (lines   *)
(* of JSON-RPC), graphql_handler, local_ipc_handler.                       *)
(***************************************************************************)
EXTENDS ClientEdges, FiniteSets, Integers

CONSTANT MaxBatch  (* bound: requests in a line of JSON-RPC                  *)

Protocols == {"http", "websocket", "lifespan", "cli", "graphql", "ipc"}
Loops == {"cli", "ipc"}  (* serve message after message in one task          *)

VARIABLES
  protocol,
  stage,    (* "ready", "work", "write", "last", "over", "crashed", "ended"  *)
  message,  (* the requests of the message in hand                           *)
  worked,   (* for each request done: its id, its answer's status, and       *)
            (* whether the work was really done                              *)
  todo,     (* what is still to be written                                   *)
  sent,     (* what was written for this message                             *)
  failed,   (* whether a write of this message failed                        *)
  untyped   (* whether its work raised a TransportError without a type       *)

sVars == <<protocol, stage, message, worked, todo, sent, failed, untyped>>

Requests == [kind : {"invalid", "health", "unknown", "call"}, id : 0 .. 1]  (* 0: no id *)
Call == [kind |-> "call", id |-> 1]

Piece(what, status) == [what |-> what, status |-> status]
NoAnswer == Piece("none", 0)

Init ==
  /\ protocol \in Protocols /\ stage = "ready"
  /\ message = <<>> /\ worked = <<>> /\ todo = <<>> /\ sent = <<>>
  /\ failed = FALSE /\ untyped = FALSE

(* What is written on each protocol for an answer of that status.           *)
Pieces(status) ==
  CASE protocol \in {"http", "lifespan"} -> <<Piece("start", status), Piece("body", status)>>
    [] protocol = "websocket" -> <<Piece("answer", status), Piece("close", 0)>>
    [] OTHER -> <<Piece("answer", status)>>

(* The requests of the message that an answer was made for.                 *)
Answers == {i \in DOMAIN worked : worked[i].answer # NoAnswer}

------------------------------------------------------------------------------
(* Faults: wrong versions of definitions below, which the runs swap in.     *)

(* only calls can be notifications *)
CallsNotified(r) == r.id = 0 /\ r.kind = "call"
------------------------------------------------------------------------------
(* A message arrives.  Scopes that are neither HTTP nor WebSocket are       *)
(* answered with 501, lines that are no JSON with -32700.                   *)
Receive ==
  /\ stage \in {"ready", "over"} \/ (stage = "crashed" /\ protocol \notin Loops)
  /\ worked' = <<>> /\ sent' = <<>> /\ failed' = FALSE /\ untyped' = FALSE
  /\ \/ /\ protocol = "lifespan"
        /\ message' = <<>> /\ todo' = Pieces(501) /\ stage' = "last"
     \/ /\ protocol \notin {"lifespan", "cli"}
        /\ message' = <<Call>> /\ todo' = <<>> /\ stage' = "work"
     \/ /\ protocol = "cli"
        /\ message' \in UNION {[1 .. n -> Requests] : n \in 0 .. MaxBatch}
        /\ todo' = <<>> /\ stage' = "work"
     \/ /\ protocol = "cli"
        /\ message' = <<>> /\ todo' = Pieces(-32700) /\ stage' = "write"
  /\ UNCHANGED protocol

(* accept comes before the try; the loops end with their input.             *)
AcceptFails ==
  /\ protocol = "websocket" /\ stage = "work" /\ worked = <<>>
  /\ stage' = "crashed" /\ failed' = TRUE
  /\ UNCHANGED <<protocol, message, worked, todo, sent, untyped>>
InputEnds ==
  /\ protocol \in Loops /\ stage \in {"ready", "over"} /\ stage' = "ended"
  /\ message' = <<>> /\ worked' = <<>> /\ sent' = <<>> /\ failed' = FALSE /\ untyped' = FALSE
  /\ UNCHANGED <<protocol, todo>>

(* _process_rpc_request: a request is a notification if it has no id, but   *)
(* one that is invalid is answered all the same.                            *)
Notification(r) == r.id = 0
RpcStatus(r, e) ==
  CASE e.type = "ok" -> 0 [] e.type \in ErrorTypes -> Map(e, "cli").status [] OTHER -> -32603

RpcAnswer(r, e) ==
  IF Notification(r) /\ r.kind # "invalid" THEN NoAnswer
  ELSE Piece("reply", CASE r.kind = "invalid" -> -32600 [] r.kind = "health" -> 0
                        [] r.kind = "unknown" -> -32601 [] OTHER -> RpcStatus(r, e))

(* The status of an answer to work that came to e, where it has a status:   *)
(* HTTP answers 500 for what is no TransportError, mapped or not.           *)
Status(e) ==
  CASE protocol = "http" -> IF e.type = "ok" THEN 200
                            ELSE IF e.type \in ErrorTypes THEN Map(e, "http").status ELSE 500
    [] OTHER -> IF e.type = "ok" THEN 0 ELSE 500

(* Whether an untyped error is mapped, which raises: a WebSocket answers    *)
(* the text of any exception; a notification of JSON-RPC is not answered.   *)
MapsErrorOf(r) == protocol # "websocket" /\ ~(protocol = "cli" /\ Notification(r))

(* One request is worked on and comes to e; real says whether what it asked *)
(* for was done.                                                            *)
Work(e, real) ==
  LET r == message[Len(worked) + 1]
      works == r.kind = "call"
      answer == IF protocol = "cli" THEN RpcAnswer(r, e) ELSE Piece("answer", Status(e))
  IN /\ stage = "work" /\ Len(worked) < Len(message)
     /\ works \/ e = Ok
     /\ untyped' = (untyped \/ (works /\ e.type = "untyped"))
     /\ IF works /\ ~Mappable(e) /\ MapsErrorOf(r)
        THEN /\ UNCHANGED worked
             /\ IF protocol = "cli" THEN stage' = "last" /\ todo' = Pieces(-32603)
                                    ELSE stage' = "crashed" /\ UNCHANGED todo
        ELSE /\ worked' = Append(worked, [answer |-> answer, real |-> ~works \/ real])
             /\ UNCHANGED todo
             /\ stage' = stage
     /\ UNCHANGED <<protocol, message, sent, failed>>

(* The application does the request, or fails to; or it relays it.          *)
Serve == \E e \in Errors \union {Ok} : Work(e, e = Ok)
Reads(client) == client \notin {"cli", "ipc", "webhook"}
Relay ==
  \E client \in Clients, fate \in Fates, below \in Errors :
    \E e \in Outcomes(client, fate, below) :
      Work(e, fate = "done" \/ (fate = "garbled" /\ ~Reads(client)) \/ client = "webhook")

(* All requests are worked on: the answers to a batch form one line.  A     *)
(* success is written within the try, an error from its handlers.           *)
Reply ==
  /\ stage = "work" /\ Len(worked) = Len(message)
  /\ LET only == worked[1].answer.status
         fine == protocol = "cli" \/ only \in {0, 200}
     IN /\ todo' = IF protocol = "cli" THEN (IF Answers = {} THEN <<>> ELSE Pieces(0)) ELSE Pieces(only)
        /\ stage' = IF fine THEN "write" ELSE "last"
  /\ UNCHANGED <<protocol, message, worked, sent, failed, untyped>>

Write ==
  /\ stage \in {"write", "last"} /\ todo # <<>>
  /\ sent' = Append(sent, Head(todo)) /\ todo' = Tail(todo)
  /\ UNCHANGED <<protocol, stage, message, worked, failed, untyped>>

(* Writing fails: within the try, an answer about that is tried; else the   *)
(* exception leaves the handler, and its loop.  GraphQL returns its answer  *)
(* and the IPC handler stores it.                                           *)
WriteFails ==
  /\ stage \in {"write", "last"} /\ todo # <<>> /\ protocol \notin {"graphql", "ipc"}
  /\ failed' = TRUE
  /\ IF stage = "write" /\ Head(todo).what # "close"
     THEN stage' = "last" /\ todo' = Pieces(IF protocol = "cli" THEN -32603 ELSE 500)
     ELSE stage' = (IF protocol \in Loops THEN "ended" ELSE "crashed") /\ todo' = <<>>
  /\ UNCHANGED <<protocol, message, worked, sent, untyped>>

Written ==
  /\ stage \in {"write", "last"} /\ todo = <<>> /\ stage' = "over"
  /\ UNCHANGED <<protocol, message, worked, todo, sent, failed, untyped>>

Next ==
  \/ Receive \/ AcceptFails \/ InputEnds \/ Serve \/ Relay \/ Reply \/ Write \/ WriteFails \/ Written

------------------------------------------------------------------------------
(* A message whose writes succeed is answered once and completely: HTTP has *)
(* one start and one body, JSON-RPC one line with an answer to each request *)
(* that has an id or is invalid, or none if there is none.  Only an error   *)
(* without a type leaves a message unanswered or takes the answers to the   *)
(* rest of a batch away, and a serving loop outlives everything but that    *)
(* and a failure to write about a failure.  Whatever fails, nothing is      *)
(* answered more than twice (the inbound handlers).                         *)
Owed == {i \in DOMAIN message : message[i].id # 0 \/ message[i].kind = "invalid"}
AnsweredOnce ==
  /\ stage = "over" /\ ~failed /\ ~untyped =>
       IF protocol = "cli" /\ message # <<>>
       THEN Answers = Owed /\ Len(sent) = (IF Owed = {} THEN 0 ELSE 1)
       ELSE sent = <<>> \/ \E status \in {sent[1].status} : sent = Pieces(status)
  /\ stage \in {"crashed", "ended"} /\ message # <<>> => failed \/ untyped
  /\ Cardinality({i \in DOMAIN sent : sent[i].what \in {"start", "answer"}}) <= 1 + (IF failed THEN 1 ELSE 0)

(* A request is answered as done only if it was done: by the application,   *)
(* or, relayed, by the peer of a client that reads what its peer answers    *)
(* (the outbound handlers with the inbound ones).                           *)
NoFalseSuccess ==
  \A i \in DOMAIN worked : worked[i].answer.status \in {0, 200} => worked[i].real \/ worked[i].answer = NoAnswer
==============================================================================
