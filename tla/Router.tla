-------------------------------- MODULE Router --------------------------------
(***************************************************************************)
(* FastAPIProtocolRouter (application/fastapi_router.py): one request to a *)
(* route, the part that is configured for it, and the response.  What the  *)
(* application or the peer does with a request is its fate, as in          *)
(* ClientEdges; an exception that leaves a handler is answered by the      *)
(* framework with 500.                                                     *)
(***************************************************************************)
EXTENDS ErrorMapper, Sequences

VARIABLES
  enabled,    (* the routes that register_routes was asked for             *)
  parts,      (* what the router was built with                            *)
  request,    (* the request in hand                                       *)
  at,         (* "ready", "routed", "streaming", "over"                    *)
  response,   (* status and body, or the events of a stream                *)
  real,       (* whether what the request asked for was done               *)
  escaped     (* whether an exception left the handler, and an untyped one *)

Routes == <<"http", "graphql", "webhooks", "stream">>
Parts == {"http", "graphql", "webhook", "app"}
Requests == [path : {"graphql", "webhooks", "stream", "other"}, method : {"GET", "POST"},
             ids : BOOLEAN,   (* its ids make a context                     *)
             body : BOOLEAN]  (* its body can be read                       *)

Reply(status, body) == <<[status |-> status, body |-> body]>>
Event(body) == [status |-> 200, body |-> body]

Begin(routes, built, r) ==
  /\ enabled = routes /\ parts = built /\ request = r
  /\ at = "ready" /\ response = <<>> /\ real = FALSE /\ escaped = FALSE

Init ==
  \E routes \in SUBSET {Routes[i] : i \in DOMAIN Routes}, built \in SUBSET Parts, r \in Requests :
    Begin(routes, built, r)

------------------------------------------------------------------------------
(* Faults: wrong versions of definitions below, which the run swaps in.     *)

(* errors of a query are left out of its answer *)
DataOnly == Reply(200, "result")

(* an error in a stream is its last event *)
NoMarker(e) == IF Mappable(e) THEN <<Event("error")>> ELSE <<>>
------------------------------------------------------------------------------
(* The first route that fits in the order of registration.  The route of    *)
(* HTTP takes every path and comes first.                                   *)
Fits(route) ==
  CASE route = "http" -> TRUE
    [] route = "stream" -> request.path = "stream"
    [] OTHER -> request.path = route /\ request.method = "POST"
Fitting == {i \in DOMAIN Routes : Routes[i] \in enabled /\ Fits(Routes[i])}
Route == Routes[CHOOSE i \in Fitting : \A j \in Fitting : i <= j]

(* No route fits, or the context cannot be built, which is not caught.      *)
NotHandled ==
  /\ at = "ready" /\ at' = "over"
  /\ \/ Fitting = {} /\ escaped' = FALSE
        /\ response' = Reply(IF request.path \in enabled THEN 405 ELSE 404, "error")
     \/ Fitting # {} /\ ~request.ids /\ escaped' = TRUE /\ response' = Reply(500, "error")
  /\ UNCHANGED <<enabled, parts, request, real>>

Accept ==
  /\ at = "ready" /\ Fitting # {} /\ request.ids
  /\ at' = (IF Route = "stream" THEN "streaming" ELSE "routed")
  /\ UNCHANGED <<enabled, parts, request, response, real, escaped>>

(* What a request may come to: an error, or Ok, and whether it was done.    *)
(* HTTP gives the peer's answer on, which may fail when all is done; without*)
(* a handler the application is called, or nothing is.  Refusals of the     *)
(* webhook handler are untyped, its failures a TypeError; the application   *)
(* is awaited, and the one that stands in for it cannot be.  A duplicate of *)
(* what was done counts as done.                                            *)
Outcomes(route) ==
  LET done == {<<Ok, TRUE>>}
      errors == Errors \X {FALSE}
  IN CASE route = "http" /\ "http" \in parts ->
            IF request.body THEN done \union (Errors \X BOOLEAN) ELSE errors
       [] route = "stream" \/ (route = "http" /\ "http" \notin parts) ->
            IF route = "stream" /\ request.method = "POST" /\ ~request.body THEN {<<Unknown, FALSE>>}
            ELSE IF "app" \in parts THEN done \union errors ELSE {<<Ok, FALSE>>}
       [] route = "webhooks" ->
            IF "webhook" \notin parts THEN {<<Untyped, FALSE>>}
            ELSE {<<Untyped, FALSE>>, <<Unknown, FALSE>>} \union (IF "app" \in parts THEN done ELSE {})
       [] OTHER -> {<<IF request.body THEN Untyped ELSE Unknown, FALSE>>}

(* An error is mapped, or the mapping raises and the framework answers 500. *)
(* HTTP answers any error with the status of its mapping, the others only a *)
(* TransportError.                                                          *)
Status(route, e) ==
  IF Mappable(e) /\ (route = "http" \/ e.type \in ErrorTypes) THEN Map(e, "http").status ELSE 500

(* The executor is called with operation_name, which it has not: a query is *)
(* answered with errors, and never done.                                    *)
Executed == Reply(200, "errors")

Respond ==
  /\ at = "routed" /\ at' = "over"
  /\ IF Route = "graphql" /\ "graphql" \in parts /\ request.body
     THEN response' = Executed /\ escaped' = FALSE /\ real' = FALSE
     ELSE \E o \in Outcomes(Route) :
            /\ real' = o[2] /\ escaped' = ~Mappable(o[1])
            /\ response' = CASE o = <<Ok, TRUE>> -> Reply(200, "result")
                             [] o = <<Ok, FALSE>> -> Reply(200, "unhandled")
                             [] OTHER -> Reply(Status(Route, o[1]), "error")
  /\ UNCHANGED <<enabled, parts, request>>

(* A stream has begun with 200, and whatever happens is an event of it: an  *)
(* error and a mark that ends it, or, for an untyped one, nothing.          *)
Marked(e) == IF Mappable(e) THEN <<Event("error"), Event("done")>> ELSE <<>>

Stream ==
  /\ at = "streaming" /\ at' = "over"
  /\ \E o \in Outcomes("stream") :
       /\ real' = o[2] /\ escaped' = ~Mappable(o[1])
       /\ response' = CASE o = <<Ok, TRUE>> -> <<Event("result"), Event("done")>>
                        [] o = <<Ok, FALSE>> -> <<Event("disabled")>>
                        [] OTHER -> Marked(o[1])
  /\ UNCHANGED <<enabled, parts, request>>

Next == NotHandled \/ Accept \/ Respond \/ Stream

------------------------------------------------------------------------------
(* What is answered as a result was done, on every route; an exception      *)
(* leaves the router only for ids that make no context or for a             *)
(* TransportError without a type; and a stream that someone serves ends     *)
(* with its mark, or breaks off in such an exception.                       *)
RouterHonest ==
  at = "over" =>
    /\ \A i \in DOMAIN response : response[i].body = "result" => real
    /\ escaped /\ request.ids => response \in {<<>>, Reply(500, "error")}
    /\ Fitting # {} /\ Route = "stream" /\ "app" \in parts /\ ~escaped =>
         response[Len(response)].body = "done"
=============================================================================
