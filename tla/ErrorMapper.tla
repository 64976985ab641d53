------------------------------ MODULE ErrorMapper ------------------------------
(***************************************************************************)
(* ProtocolErrorMapper (protocols/error_mapper.py): what an exception is   *)
(* called on each protocol.  An error is its category and the status it    *)
(* brings along, 0 for none.  "untyped" is a TransportError built with a   *)
(* number where its ErrorType belongs, as several handlers build them.     *)
(***************************************************************************)
EXTENDS Naturals

Error(type, status) == [type |-> type, status |-> status]
Ok == Error("ok", 0)
Untyped == Error("untyped", 0)
Presentation == Error("presentation", 0)
Unknown == Error("unknown", 0)

ErrorTypes == {"transient", "permanent", "policy"}

(* _categorize asks an ErrorType for its value; a number has none, and the  *)
(* AttributeError leaves map.                                               *)
Mappable(e) == e.type # "untyped"
Transient(e) == e.type = "transient"

Answer(status, retryable) == [status |-> status, retryable |-> retryable]

ToHttp(e) ==
  LET given == IF e.status = 0 THEN 500 ELSE e.status
      status == IF e.type = "presentation" THEN 400
                ELSE IF Transient(e) /\ given = 500 THEN 503 ELSE given
  IN Answer(status, Transient(e) /\ status \in {429, 500, 502, 503, 504})

ToCli(e) ==
  Answer(IF Transient(e) THEN 2 ELSE IF e.type = "presentation" THEN 3 ELSE 1, Transient(e))

ToInprocess(e) == Answer(IF Transient(e) THEN 2 ELSE 1, Transient(e))

GrpcStatus == [presentation |-> 3, transient |-> 14, permanent |-> 16]
ToGrpc(e) ==
  LET status == IF e.type \in DOMAIN GrpcStatus THEN GrpcStatus[e.type] ELSE 2
  IN Answer(status, Transient(e) /\ status \in {4, 14})

ToWebsocket(e) ==
  Answer(IF e.type = "presentation" THEN 1003 ELSE IF Transient(e) THEN 1001 ELSE 1011, Transient(e))

(* map: what has no form of its own takes that of HTTP                      *)
Map(e, protocol) ==
  CASE protocol = "cli" -> ToCli(e)
    [] protocol = "inprocess" -> ToInprocess(e)
    [] protocol = "grpc" -> ToGrpc(e)
    [] protocol = "websocket" -> ToWebsocket(e)
    [] OTHER -> ToHttp(e)

(* The errors the runs try.                                                 *)
Errors ==
  {Error(t, 0) : t \in ErrorTypes} \union {Error(t, 503) : t \in ErrorTypes}
    \union {Untyped, Presentation, Unknown}
==============================================================================
