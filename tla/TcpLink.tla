-------------------------------- MODULE TcpLink --------------------------------
(***************************************************************************)
(* TCPTransporter (transport/tcp.py), both its ends: sends and streams,    *)
(* each over a connection of its own, and the inbound server, a task per   *)
(* connection.  A frame is a length and a body, read one after the other;  *)
(* every read has a timeout, and giving up always closes the connection.   *)
(* A peer may be another program: a client that sends several requests on  *)
(* one connection, a server that answers one with several frames.          *)
(***************************************************************************)
EXTENDS Naturals, Sequences

CONSTANTS
  Calls,     (* calls, and so connections                                    *)
  MaxFrames  (* bound: frames a foreign peer sends one way                   *)

Halves == {"length", "body"}
Half == [half: Halves, n: 1 .. MaxFrames]
Read == [wanted: Halves, half: Halves, n: 1 .. MaxFrames]
Kinds == {"send", "stream", "foreign"}

VARIABLES
  kind,      (* call -> what the client is                                   *)
  listening, (* whether serve has the port                                   *)
  client,    (* call -> what its client does                                 *)
  server,    (* connection -> what its server task does                      *)
  up,        (* halves of frames on the way to the server                    *)
  down,      (* halves of frames on the way to the client                    *)
  received,  (* call -> the halves its client has read                       *)
  taken,     (* connection -> the halves its server has read                 *)
  answers    (* whether the server answers with several frames               *)

vars == <<kind, listening, client, server, up, down, received, taken, answers>>

Ended == {"delivered", "end_of_stream", "transient", "permanent"}

TypeOK ==
  /\ kind \in [Calls -> Kinds] /\ listening \in BOOLEAN /\ answers \in 1 .. MaxFrames
  /\ client \in [Calls -> Halves \union Ended \union {"idle"}]
  /\ server \in [Calls -> Halves \union {"none", "handling", "closed"}]
  /\ \A c \in Calls : /\ up[c] \in Seq(Half) /\ down[c] \in Seq(Half)
                      /\ received[c] \in Seq(Read) /\ taken[c] \in Seq(Read)

Init ==
  /\ kind \in [Calls -> Kinds] /\ listening = FALSE /\ answers \in 1 .. MaxFrames
  /\ client = [c \in Calls |-> "idle"] /\ server = [c \in Calls |-> "none"]
  /\ up = [c \in Calls |-> <<>>] /\ down = [c \in Calls |-> <<>>]
  /\ received = [c \in Calls |-> <<>>] /\ taken = [c \in Calls |-> <<>>]

Frames(a, b) == [i \in 1 .. 2 * (b + 1 - a) |->
  [half |-> IF i % 2 = 1 THEN "length" ELSE "body", n |-> a + (i - 1) \div 2]]

(* What a reader that wants the length or the body takes from the stream.   *)
Take(read, wanted, stream) ==
  Append(read, [wanted |-> wanted, half |-> Head(stream).half, n |-> Head(stream).n])

InReading(end, c) == end[c] \in Halves
Closed(end, c) == end[c] \in Ended \union {"closed"}

------------------------------------------------------------------------------
(* Faults: wrong versions of definitions below, which the runs swap in.     *)

(* silence in a stream starts the next frame instead of ending the stream *)
KeepListening(c) == client' = [client EXCEPT ![c] = IF kind[c] = "stream" THEN "length" ELSE "transient"]
------------------------------------------------------------------------------
(* serve and close of the inbound side                                      *)
Serve == ~listening /\ listening' = TRUE
         /\ UNCHANGED <<kind, client, server, up, down, received, taken, answers>>
CloseServer == listening /\ listening' = FALSE
               /\ UNCHANGED <<kind, client, server, up, down, received, taken, answers>>

(* A connection of its own for every call, and the request on it.  Refused  *)
(* is for good; a timeout or another error of the network is not.           *)
Connect(c) ==
  /\ client[c] = "idle"
  /\ \/ /\ listening
        /\ client' = [client EXCEPT ![c] = "length"]
        /\ server' = [server EXCEPT ![c] = "length"]
        /\ up' = [up EXCEPT ![c] = Frames(1, IF kind[c] = "foreign" THEN MaxFrames ELSE 1)]
     \/ /\ \/ ~listening /\ client' = [client EXCEPT ![c] = "permanent"]
           \/ client' = [client EXCEPT ![c] = "transient"]
        /\ UNCHANGED <<server, up>>
  /\ UNCHANGED <<kind, listening, down, received, taken, answers>>

(* Reading a half: the length and then the body.                            *)
ClientReads(c) ==
  /\ InReading(client, c) /\ down[c] # <<>>
  /\ received' = [received EXCEPT ![c] = Take(@, client[c], down[c])]
  /\ down' = [down EXCEPT ![c] = Tail(@)]
  /\ client' = [client EXCEPT ![c] = IF @ = "length" THEN "body"
                                     ELSE IF kind[c] = "send" THEN "delivered" ELSE "length"]
  /\ UNCHANGED <<kind, listening, server, up, taken, answers>>

(* A read times out: after 0.5 s without a frame a stream counts as ended.  *)
GiveUp(c) == client' = [client EXCEPT ![c] = IF kind[c] = "stream" THEN "end_of_stream" ELSE "transient"]

ClientTimesOut(c) ==
  /\ InReading(client, c)
  /\ GiveUp(c)
  /\ UNCHANGED <<kind, listening, server, up, down, received, taken, answers>>

(* The server has closed: a send fails for good, a stream ends.             *)
ClientSeesEnd(c) ==
  /\ InReading(client, c) /\ down[c] = <<>> /\ Closed(server, c)
  /\ client' = [client EXCEPT ![c] = IF kind[c] = "stream" THEN "end_of_stream" ELSE "permanent"]
  /\ UNCHANGED <<kind, listening, server, up, down, received, taken, answers>>

ServerReads(c) ==
  /\ InReading(server, c) /\ up[c] # <<>>
  /\ taken' = [taken EXCEPT ![c] = Take(@, server[c], up[c])]
  /\ up' = [up EXCEPT ![c] = Tail(@)]
  /\ server' = [server EXCEPT ![c] = IF @ = "length" THEN "body" ELSE "handling"]
  /\ UNCHANGED <<kind, listening, client, down, received, answers>>

(* The handler returns and its answer is written.                           *)
Answer(c) ==
  /\ server[c] = "handling"
  /\ server' = [server EXCEPT ![c] = "length"]
  /\ down' = [down EXCEPT ![c] = LET n == (Len(taken[c]) \div 2 - 1) * answers
                                 IN  IF n + answers > MaxFrames THEN @
                                     ELSE @ \o Frames(n + 1, n + answers)]
  /\ UNCHANGED <<kind, listening, client, up, received, taken, answers>>

(* The server gives up the connection: the handler or writing its answer    *)
(* failed, a read timed out, or the client has closed.                      *)
ServerCloses(c) ==
  /\ \/ server[c] = "handling"
     \/ InReading(server, c)
  /\ server' = [server EXCEPT ![c] = "closed"]
  /\ UNCHANGED <<kind, listening, client, up, down, received, taken, answers>>

ClientStep(c) == ClientReads(c) \/ ClientTimesOut(c) \/ ClientSeesEnd(c)
Next ==
  \/ Serve \/ CloseServer
  \/ \E c \in Calls : Connect(c) \/ ClientStep(c) \/ ServerReads(c) \/ Answer(c) \/ ServerCloses(c)

------------------------------------------------------------------------------
(* Both ends only ever read whole frames, in the order they were sent: no   *)
(* read that was given up in the middle of a frame lets the next one take   *)
(* a body for a length (_read_framed, _do_stream, _handle_client).          *)
FramesWhole ==
  \A c \in Calls : \A read \in {received[c], taken[c]} :
    \A i \in 1 .. Len(read) : read[i].wanted = read[i].half /\ read[i].n = (i + 1) \div 2
==============================================================================
