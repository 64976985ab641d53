------------------------------ MODULE ClientEdges ------------------------------
(***************************************************************************)
(* The outbound sides of the protocol handlers (protocols/*_handler.py):   *)
(* what one call of each may come to.  A call fares as its fate says: the  *)
(* payload cannot be encoded, the layer below fails (with an error), the   *)
(* peer refuses, its answer cannot be decoded, or the peer has done it.    *)
(* Every client is a function from fates to the outcomes that its code     *)
(* turns them into; Ok is a result handed to the caller.                   *)
(***************************************************************************)
EXTENDS ErrorMapper, Sequences

Clients == {"http", "grpc", "cli", "graphql", "ipc", "webhook", "inprocess"}
Fates == {"unencodable", "failed", "refused", "garbled", "done"}

(* The error raised for an error that is mapped: always built with the      *)
(* number that map answers, hence untyped; map itself raises on such.       *)
Raised(e) == IF Mappable(e) THEN Untyped ELSE Unknown

------------------------------------------------------------------------------
(* Faults: wrong versions of definitions below, which the runs swap in.     *)

(* the errors in an answer of GraphQL are not looked at *)
ErrorsIgnored == Ok
------------------------------------------------------------------------------
(* Timeouts and refused connections are translated; other failures of httpx *)
(* are not.  A refusal is mapped as TransportError(status), which raises.   *)
Http(e) == [unencodable |-> {Presentation}, failed |-> {Untyped, Unknown}, refused |-> {Unknown},
            garbled |-> {Presentation}, done |-> {Ok}]

(* _get_stub does not exist: whatever is asked, nothing is sent.            *)
Grpc(e) == [fate \in Fates |-> IF fate = "unencodable" THEN {Presentation} ELSE {Unknown}]

(* The exit status comes in the report; the output is never read.  What     *)
(* Channel.send raises is not caught.                                       *)
Cli(e) == [unencodable |-> {Presentation}, failed |-> {e, Raised(e)}, refused |-> {Raised(e)},
           garbled |-> {Ok}, done |-> {Ok}]

(* Errors in the answer are raised with an argument that TransportError has *)
(* not: the TypeError is caught and mapped.                                 *)
GraphqlErrors == Raised(Unknown)
Graphql(e) == [unencodable |-> {Presentation}, failed |-> {e}, refused |-> {GraphqlErrors},
               garbled |-> {Raised(Presentation), Raised(Unknown)}, done |-> {Ok}]

(* A payload above the limit counts as unencodable.  The answer is what the *)
(* transporter put into the context, if any.                                *)
LocalIpc(e) == [unencodable |-> {Presentation, Untyped}, failed |-> {e, Raised(e)}, refused |-> {Raised(e)},
                garbled |-> {Ok, Presentation}, done |-> {Ok}]

(* Every error is raised with an argument that TransportError has not.  The *)
(* answer of the receiver is not looked at.                                 *)
Webhook(e) == [unencodable |-> {Unknown}, failed |-> {Unknown}, refused |-> {Ok},
               garbled |-> {Ok}, done |-> {Ok}]

(* invoke: TransportErrors pass, others are mapped.  "failed" is what the   *)
(* target raises.                                                           *)
Passed(e) == IF e.type \in ErrorTypes \union {"untyped"} THEN e ELSE Raised(e)
Inprocess(e) == [unencodable |-> {Passed(Presentation)}, failed |-> {Passed(e)}, refused |-> {Passed(e)},
                 garbled |-> {Passed(Presentation)}, done |-> {Ok}]

Outcomes(client, fate, e) ==
  LET table == CASE client = "http" -> Http(e) [] client = "grpc" -> Grpc(e) [] client = "cli" -> Cli(e)
                 [] client = "graphql" -> Graphql(e) [] client = "ipc" -> LocalIpc(e)
                 [] client = "webhook" -> Webhook(e) [] OTHER -> Inprocess(e)
  IN table[fate]

------------------------------------------------------------------------------
(* Streams.  A stream brings items, refusals, and chunks that do not decode; *)
(* HTTP brings bytes as the network cut them, hence also the head of an     *)
(* event and, in the next chunks, the rest of it.                           *)
CutPieces == {"head", "rest"}
Chunks == {"item", "refusal", "garbled"} \union CutPieces

(* What a chunk may do to the stream of a client: yielded, passed over or   *)
(* raised.  HTTP decodes each chunk as a stream of its own: what is left at *)
(* its end is taken for a frame, and what is no JSON for text, so a piece   *)
(* of an event is an item, a wrong one; a rest that is blank is none, and a *)
(* pipeline without the codec raises.  The subscription of GraphQL logs     *)
(* what is no data and goes on; HTTP is refused at the start if at all, and *)
(* gRPC never starts.                                                       *)
OnHttp(chunk) ==
  IF chunk = "refusal" THEN {"raise"} ELSE {"yield", "raise"} \union (IF chunk = "rest" THEN {"skip"} ELSE {})
OnChunk(client, chunk) ==
  IF client = "grpc" THEN {"raise"}
  ELSE IF chunk = "item" \/ (client = "inprocess" /\ chunk = "garbled") THEN {"yield"}
  ELSE IF client = "http" THEN OnHttp(chunk)
  ELSE IF client = "graphql" THEN {"skip"} ELSE {"raise"}
==============================================================================
