-------------------------------- MODULE MCEdges --------------------------------
(* The outer parts of the fabric, one at a time: the inbound side of a      *)
(* protocol handler, an outbound stream, the webhook receiver, how the      *)
(* components are built from the settings, the life of the client, and the  *)
(* routes of the web application.                                           *)
EXTENDS Naturals

CONSTANTS MaxBatch, MaxChunks, Deliveries, Webhooks, Anonymous, App, Built, MaxMade, Pipes,
          EntryNames, Transports, MaxEntries

VARIABLES part,
  protocol, stage, message, worked, todo, sent, failed, untyped,
  client, came, got, ends, broke,
  carries, doing, store, handled, met, cleared,
  runner, started, layers, layersOver, pipes, pipesOver, closing, rest, closed, made, place, lost, dropped, cut,
  file, step, settings, built,
  caller, entries, next, channels, handlers, request, outcome,
  enabled, parts, asked, at, response, real, escaped

(* The assembler registers a number of components, which the fabric is given.*)
ASSUME EdgesAssumption == Built \in Nat

S == INSTANCE ServerEdges
C == INSTANCE ClientStream
W == INSTANCE WebhookHandler
F == INSTANCE Fabric
B == INSTANCE Wiring
E == INSTANCE Entries
R == INSTANCE Router WITH request <- asked

sVars == <<protocol, stage, message, worked, todo, sent, failed, untyped>>
cVars == <<client, came, got, ends, broke>>
wVars == <<carries, doing, store, handled, met, cleared>>
fVars == <<runner, started, layers, layersOver, pipes, pipesOver, closing, rest, closed, made, place,
           lost, dropped, cut>>
nVars == <<file, step, settings, built>>
eVars == <<caller, entries, next, channels, handlers, request, outcome>>
rVars == <<enabled, parts, asked, at, response, real, escaped>>
vars == <<part, sVars, cVars, wVars, fVars, nVars, eVars, rVars>>

(* The parts that are not run stand still in one of their initial states.   *)
Init ==
  /\ part \in {"server", "stream", "webhook", "fabric", "wiring", "entries", "router"}
  /\ S!Init /\ C!Init /\ W!Init /\ F!Init
  /\ part # "server" => protocol = "http"
  /\ part # "stream" => client = "http"
  /\ part # "webhook" => carries = [d \in Deliveries |-> Anonymous]
  /\ IF part = "wiring" THEN B!Init ELSE B!Begin(B!NoFile)
  /\ IF part = "entries" THEN E!Init ELSE E!Begin("factory", <<>>, {}, E!NoRequest)
  /\ IF part = "router" THEN R!Init ELSE R!Begin({}, {}, CHOOSE r \in R!Requests : TRUE)

Next ==
  \/ part = "server" /\ S!Next /\ UNCHANGED <<part, cVars, wVars, fVars, nVars, eVars, rVars>>
  \/ part = "stream" /\ C!Next /\ UNCHANGED <<part, sVars, wVars, fVars, nVars, eVars, rVars>>
  \/ part = "webhook" /\ W!Next /\ UNCHANGED <<part, sVars, cVars, fVars, nVars, eVars, rVars>>
  \/ part = "fabric" /\ F!Next /\ UNCHANGED <<part, sVars, cVars, wVars, nVars, eVars, rVars>>
  \/ part = "wiring" /\ B!Next /\ UNCHANGED <<part, sVars, cVars, wVars, fVars, eVars, rVars>>
  \/ part = "entries" /\ E!Next /\ UNCHANGED <<part, sVars, cVars, wVars, fVars, nVars, rVars>>
  \/ part = "router" /\ R!Next /\ UNCHANGED <<part, sVars, cVars, wVars, fVars, nVars, eVars>>

Spec == Init /\ [][Next]_vars

(* See ServerEdges, ClientStream, WebhookHandler, Fabric, Wiring, Entries,  *)
(* Router.                                                                  *)
AnsweredOnce == S!AnsweredOnce
NoFalseSuccess == S!NoFalseSuccess /\ C!QuietMeansWhole /\ R!RouterHonest
WebhookInv == W!WebhookInv
ShutdownInv == F!ShutdownInv
WiringInv == B!SettingsArrive /\ E!EntriesInv
==============================================================================
