------------------------------ MODULE ClientStream ------------------------------
(***************************************************************************)
(* The outbound streams of the protocol handlers: the chunks that the      *)
(* layer below brings, one by one, and what the caller gets of them.  Only *)
(* HTTP reads bytes from the network; what the others are given is whole.  *)
(***************************************************************************)
EXTENDS ClientEdges

CONSTANT MaxChunks  (* bound: chunks of a stream                             *)

VARIABLES
  client,
  came,   (* the chunks that came                                            *)
  got,    (* the places in it of those that were yielded                     *)
  ends,   (* "open", "quiet": the stream is over; "raised"                   *)
  broke   (* whether the stream below broke off                              *)

cVars == <<client, came, got, ends, broke>>

Init ==
  /\ client \in Clients \ {"cli", "webhook"} /\ came = <<>> /\ got = <<>>
  /\ ends = "open" /\ broke = FALSE

------------------------------------------------------------------------------
(* Faults: wrong versions of definitions below, which the runs swap in.     *)

(* a stream that breaks off ends like one that is over *)
Swallowed(how) == ends' = "quiet"
------------------------------------------------------------------------------
(* The rest of an event follows its head, perhaps in several pieces, and    *)
(* nothing else does.                                                       *)
InEvent == came # <<>> /\ came[Len(came)] \in CutPieces
MayFollow(kind) ==
  /\ kind \in CutPieces => client = "http"
  /\ kind = "rest" => InEvent
  /\ InEvent /\ came[Len(came)] = "head" => kind = "rest"

Chunk(kind) ==
  /\ ends = "open" /\ Len(came) < MaxChunks /\ MayFollow(kind)
  /\ came' = Append(came, kind)
  /\ \E does \in OnChunk(client, kind) :
       /\ got' = IF does = "yield" THEN Append(got, Len(came) + 1) ELSE got
       /\ ends' = IF does = "raise" THEN "raised" ELSE ends
  /\ UNCHANGED <<client, broke>>

(* How the stream below ends is how this one does.                          *)
EndsAs(how) == ends' = how
End(how) ==
  /\ ends = "open" /\ EndsAs(how) /\ broke' = (how = "raised")
  /\ UNCHANGED <<client, came, got>>

Next == (\E kind \in Chunks : Chunk(kind)) \/ End("quiet") \/ End("raised")

------------------------------------------------------------------------------
(* A caller that sees the stream end without an exception has, of a stream  *)
(* that was over, every event that came whole, in order.  What else it has  *)
(* are pieces of events that the network cut, and those on HTTP only; of    *)
(* what came, nothing is missing but a rest.  GraphQL's subscription passes *)
(* over what it cannot use (handle_outbound_stream, handle_stream,          *)
(* invoke_stream).                                                          *)
Given == {got[j] : j \in DOMAIN got}
QuietMeansWhole ==
  ends = "quiet" =>
    /\ ~broke
    /\ client # "graphql" =>
         /\ \A j, k \in DOMAIN got : j < k => got[j] < got[k]
         /\ \A i \in DOMAIN came \ Given : came[i] = "rest"
         /\ client = "http" \/ got = [i \in 1 .. Len(came) |-> i]
         /\ (\A i \in DOMAIN came : came[i] \notin CutPieces) => got = [i \in 1 .. Len(came) |-> i]
==============================================================================
