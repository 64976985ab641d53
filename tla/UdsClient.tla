------------------------------- MODULE UdsClient -------------------------------
(***************************************************************************)
(* UDSTransporter.send (transport/uds.py) under the retry engine: calls    *)
(* that share one connection to a server, write a line each and read the   *)
(* next line as their answer.  Nothing in a line says which request it     *)
(* answers, and a connection outlives an attempt that timed out.           *)
(*                                                                         *)
(* An attempt suspends while it connects and while it waits for a line;    *)
(* lines are short, so that drain() does not.  A reader that is woken may  *)
(* find that another call has taken the line in the meantime, and waits    *)
(* again.  The server is the repository's own (_handle_client): one line   *)
(* after the other, answered in order; an exception of the handler is      *)
(* answered by an error line, and the connection is closed.                *)
(***************************************************************************)
EXTENDS RetryEngine, Sequences, FiniteSets

CONSTANTS
  Conns,    (* bound: connections that are ever made *)
  NoConn

ASSUME ConnAssumption == NoConn \notin Conns

VARIABLES
  conn,    (* connection -> its state; wire: the calls whose lines the       *)
           (* server has yet to read; replies: the calls whose answers the   *)
           (* client has yet to read                                         *)
  current, (* _writer and _reader, or NoConn                                 *)
  closing, (* the connection close() waits for, or NoConn                    *)
  path,    (* the socket file exists                                         *)
  io,      (* call -> where its attempt is, and on which connection          *)
  answer,  (* history: the call whose answer a successful call was given     *)
  mixed    (* history: connections that an attempt gave up without reading,  *)
           (* or that two attempts used at a time                            *)

clientVars == <<conn, current, closing, path, io, answer, mixed>>
udsVars == <<hook, call, report, err,
             conn, current, closing, path, io, answer, mixed>>

ConnState == {"unused", "open",
              "eof",      (* the server closed it; the client has not noticed *)
              "closed",   (* by the client, or noticed: is_closing() is true  *)
              "reset"}    (* broken off: reads raise "reset by peer"          *)

Idle == [at |-> "none", on |-> NoConn]

UdsInit ==
  /\ EngineInit
  /\ conn = [k \in Conns |-> [st |-> "unused", wire |-> <<>>, replies |-> <<>>]]
  /\ current = NoConn
  /\ closing = NoConn
  /\ path = FALSE
  /\ io = [r \in Calls |-> Idle]
  /\ answer = [r \in Calls |-> r]
  /\ mixed = {}

On(k) == {r \in Calls : io[r].on = k}

Go(r, place, k) == io' = [io EXCEPT ![r] = [at |-> place, on |-> k]]

Attempting(r, place) == Trying(r) /\ io[r].at = place

(* The attempt of r ends with an error, before it has read an answer. *)
Broken(r, e) ==
  /\ Fail(r, e)
  /\ io' = [io EXCEPT ![r] = Idle]
  /\ mixed' = mixed \cup ({io[r].on} \ {NoConn})
  /\ UNCHANGED <<closing, path, answer>>

------------------------------------------------------------------------------
(* Faults: wrong versions of definitions below, which the runs swap in.     *)

(* a timeout sends the line again within the same attempt *)
TimeoutResends(r) ==
  /\ Attempting(r, "waiting")
  /\ conn[io[r].on].st = "open"
  /\ conn' = [conn EXCEPT ![io[r].on].wire = Append(@, r)]
  /\ UNCHANGED <<hook, call, report, err, current, closing, path, io, answer, mixed>>

------------------------------------------------------------------------------
(* _ensure_connection() and the write *)

Usable == current # NoConn /\ conn[current].st \in {"open", "eof"}

Dry(k) == conn[k].st = "open" /\ conn[k].replies = <<>>

Send(r) ==
  /\ Attempting(r, "none")
  /\ Usable /\ conn[current].st = "open"
  /\ Dry(current) => On(current) = {}
  /\ conn' = [conn EXCEPT ![current].wire = Append(@, r)]
  /\ Go(r, "waiting", current)
  /\ mixed' = IF On(current) = {} THEN mixed ELSE mixed \cup {current}
  /\ UNCHANGED <<retryVars, current, closing, path, answer>>

(* "readuntil() called while another coroutine is already waiting": the      *)
(* attempt has written its line all the same.                                *)
SendClash(r) ==
  /\ Attempting(r, "none")
  /\ Usable /\ Dry(current) /\ On(current) # {}
  /\ conn' = [conn EXCEPT ![current].wire = Append(@, r)]
  /\ Fail(r, "permanent")
  /\ mixed' = mixed \cup {current}
  /\ UNCHANGED <<current, closing, path, io, answer>>

(* drain() raises "Connection lost", which is not classified as transient. *)
SendLost(r) ==
  /\ Attempting(r, "none")
  /\ Usable /\ conn[current].st = "eof"
  /\ conn' = [conn EXCEPT ![current].st = "closed"]
  /\ Broken(r, "permanent")
  /\ UNCHANGED current

StartConnect(r) ==
  /\ Attempting(r, "none")
  /\ ~Usable /\ path
  /\ Go(r, "connecting", NoConn)
  /\ UNCHANGED <<retryVars, conn, current, closing, path, answer, mixed>>

NoSocket(r) ==
  /\ Attempting(r, "none")
  /\ ~Usable /\ ~path
  /\ Broken(r, "permanent")
  /\ UNCHANGED <<conn, current>>

(* The last to connect leaves its connection to the others. *)
Connected(r, k) ==
  /\ Attempting(r, "connecting")
  /\ conn[k].st = "unused"
  /\ current' = k
  /\ conn' = [conn EXCEPT ![k] = [st |-> "open", wire |-> <<r>>, replies |-> <<>>]]
  /\ Go(r, "waiting", k)
  /\ UNCHANGED <<retryVars, closing, path, answer, mixed>>

(* Refused, timed out, or another error of the system: all transient. *)
ConnectFailed(r) ==
  /\ Attempting(r, "connecting")
  /\ Broken(r, "transient")
  /\ UNCHANGED <<conn, current>>

------------------------------------------------------------------------------
(* readline() *)

Read(r) ==
  /\ Attempting(r, "waiting")
  /\ LET k == io[r].on IN
       /\ conn[k].replies # <<>>
       /\ conn' = [conn EXCEPT ![k].replies = Tail(@)]
       /\ answer' = [answer EXCEPT ![r] = Head(conn[k].replies)]
  /\ Succeed(r)
  /\ io' = [io EXCEPT ![r] = Idle]
  /\ UNCHANGED <<current, closing, path, mixed>>

ReadEnd(r) ==
  /\ Attempting(r, "waiting")
  /\ conn[io[r].on].st \in {"eof", "closed"} /\ conn[io[r].on].replies = <<>>
  /\ Broken(r, "permanent")
  /\ UNCHANGED <<conn, current>>

ReadReset(r) ==
  /\ Attempting(r, "waiting")
  /\ conn[io[r].on].st = "reset"
  /\ Broken(r, "transient")
  /\ UNCHANGED <<conn, current>>

(* The connection is kept. *)
Timeout(r) ==
  /\ Attempting(r, "waiting")
  /\ Broken(r, "transient")
  /\ UNCHANGED <<conn, current>>

------------------------------------------------------------------------------
(* close(), once at a time.  It forgets the connection that is current when  *)
(* the old one is closed at last, and removes the socket file, which is the  *)
(* server's.                                                                 *)

StartClose ==
  /\ Usable /\ closing = NoConn
  /\ conn' = [conn EXCEPT ![current] = [st |-> "closed", wire |-> <<>>, replies |-> @.replies]]
  /\ closing' = current
  /\ UNCHANGED <<retryVars, current, path, io, answer, mixed>>

EndClose ==
  /\ closing # NoConn
  /\ closing' = NoConn
  /\ current' = NoConn
  /\ path' = FALSE
  /\ UNCHANGED <<retryVars, conn, io, answer, mixed>>

(* nothing to close but the file *)
CloseUnconnected ==
  /\ ~Usable /\ path
  /\ path' = FALSE
  /\ UNCHANGED <<retryVars, conn, current, closing, io, answer, mixed>>

------------------------------------------------------------------------------
(* The server *)

Answer(k) ==
  /\ conn[k].st = "open" /\ conn[k].wire # <<>>
  /\ conn' = [conn EXCEPT ![k].wire = Tail(@),
                          ![k].replies = Append(@, Head(conn[k].wire))]
  /\ UNCHANGED <<retryVars, current, closing, path, io, answer, mixed>>

AnswerError(k) ==
  /\ conn[k].st = "open" /\ conn[k].wire # <<>>
  /\ conn' = [conn EXCEPT ![k] = [st |-> "eof", wire |-> <<>>,
                                  replies |-> Append(@.replies, Head(@.wire))]]
  /\ UNCHANGED <<retryVars, current, closing, path, io, answer, mixed>>

(* It closes a connection that is idle for a while, and may crash. *)
HangUp(k, s) ==
  /\ conn[k].st = "open"
  /\ s \in {"eof", "reset"}
  /\ conn' = [conn EXCEPT ![k] = [st |-> s, wire |-> <<>>,
                                  replies |-> IF s = "eof" THEN @.replies ELSE <<>>]]
  /\ UNCHANGED <<retryVars, current, closing, path, io, answer, mixed>>

Serve ==
  /\ ~path /\ path' = TRUE
  /\ UNCHANGED <<retryVars, conn, current, closing, io, answer, mixed>>

------------------------------------------------------------------------------
Start(r) == Begin(r) /\ UNCHANGED clientVars
Again(r) == BackoffEnds(r) /\ UNCHANGED clientVars

Attempt(r) == Send(r) \/ SendClash(r) \/ SendLost(r) \/ StartConnect(r) \/ NoSocket(r)
Connect(r) == ConnectFailed(r) \/ \E k \in Conns : Connected(r, k)
Receive(r) == Read(r) \/ ReadEnd(r) \/ ReadReset(r) \/ Timeout(r)
UdsClose == StartClose \/ EndClose \/ CloseUnconnected

UdsNext ==
  \/ \E r \in Calls : Start(r) \/ Again(r) \/ Attempt(r) \/ Connect(r) \/ Receive(r)
  \/ UdsClose
  \/ \E k \in Conns : Answer(k) \/ AnswerError(k) \/ \E s \in ConnState : HangUp(k, s)
  \/ Serve

UdsSpec == UdsInit /\ [][UdsNext]_udsVars

(* A call that has begun goes on: connecting and reading are timed, so both  *)
(* come to an end, whatever the server does.  Nothing is asked of it.        *)
UdsFairness ==
  \A r \in Calls : /\ WF_udsVars(Again(r)) /\ WF_udsVars(Attempt(r))
                   /\ WF_udsVars(Connect(r)) /\ WF_udsVars(Receive(r))

UdsFairSpec == UdsSpec /\ UdsFairness

------------------------------------------------------------------------------
(* The variables hold values the code can give them. *)
UdsTypeOK ==
  /\ EngineTypeOK
  /\ conn \in [Conns -> [st : ConnState, wire : Seq(Calls), replies : Seq(Calls)]]
  /\ current \in Conns \cup {NoConn}
  /\ closing \in Conns \cup {NoConn}
  /\ path \in BOOLEAN
  /\ io \in [Calls -> [at : {"none", "connecting", "waiting"},
                       on : Conns \cup {NoConn}]]
  /\ answer \in [Calls -> Calls]
  /\ mixed \subseteq Conns

(* All that is under way on an open connection: lines, then answers. *)
UnderWay(k) == conn[k].replies \o conn[k].wire

(* An open connection that no attempt gave up and no two attempts shared     *)
(* carries the line or the answer of the one call that waits for it, and     *)
(* nothing else: with calls one at a time, an answer can only be another's   *)
(* after a timeout or a clash.                                               *)
OwnUnlessMixed ==
  \A k \in Conns \ mixed :
    conn[k].st = "open" =>
      \/ On(k) = {} /\ UnderWay(k) = <<>>
      \/ \E r \in Calls : On(k) = {r} /\ UnderWay(k) = <<r>>

ClientInv == UdsTypeOK /\ OwnUnlessMixed

(* A call ends, with a server that never answers as well. *)
CallsEnd == \A r \in Calls : call[r].at = "trying" ~> call[r].at = "done"

(* "correlation_id: [...] ties the answer to the original request across the *)
(* layers" (transport/context/transport_context.py): a call that succeeded   *)
(* was given the answer to its own request.                                  *)
AnswerIsOwn == \A r \in Calls : report[r].success => answer[r] = r

==============================================================================
