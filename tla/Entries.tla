------------------------------- MODULE Entries -------------------------------
(***************************************************************************)
(* From the protocols of the settings to their handlers, one entry after   *)
(* the other: the assembler's loop that builds a channel for each          *)
(* (_build_protocol_handlers, with transport_provider and TransportFactory)*)
(* and the loop that builds the handlers from whatever channels a caller   *)
(* has (build_all_protocol_handlers).  The two loops do not treat an entry *)
(* that fails alike.  TransportFactory.create is also called directly, with*)
(* a retry hook or the declaration of one.                                 *)
(***************************************************************************)
EXTENDS Naturals, Sequences, FiniteSets

CONSTANTS
  EntryNames,   (* names of protocols in the settings                       *)
  Transports,   (* what an entry may have for its transport                 *)
  MaxEntries    (* bound: entries                                           *)

VARIABLES
  caller,     (* what runs: "assembler", "handlers", "factory"             *)
  entries,    (* the entries, in the order of the file                     *)
  next,       (* the place of the entry in turn                            *)
  channels,   (* the names that have a channel                             *)
  handlers,   (* name -> the channel and the direction of its handler      *)
  request,    (* what create is given                                      *)
  outcome     (* "none", "error", "configuration", or a hook               *)

eVars == <<caller, entries, next, channels, handlers, request, outcome>>

(* A bad value is one that the hook refuses, an odd one no parameter of it. *)
Requests ==
  [config : BOOLEAN, explicit : BOOLEAN, declared : {"none", "checkpoint_restore", "graceful_abort", "other"},
   arguments : {"good", "bad", "odd"}, importable : BOOLEAN]

NoRequest == [config |-> TRUE, explicit |-> FALSE, declared |-> "none", arguments |-> "good", importable |-> TRUE]

Forms == [name : EntryNames, transport : Transports, direction : {"outbound", "inbound", "both"},
          gives : {{}, {"endpoint_url"}, {"socket_path"}}]
Plain(e) == e.transport = "inprocess" /\ e.gives = {}
Lists == {s \in UNION {[1 .. n -> Forms] : n \in 1 .. MaxEntries} :
            \A i, j \in DOMAIN s : i # j => s[i].name # s[j].name}

Begin(who, list, with, r) ==
  /\ caller = who /\ entries = list /\ channels = with /\ request = r
  /\ next = 1 /\ handlers = <<>> /\ outcome = "none"

Init ==
  \/ \E s \in Lists : Begin("assembler", s, {}, NoRequest)
  \/ \E s \in Lists, with \in SUBSET (EntryNames \union {"_default"}) :
       (\A i \in DOMAIN s : Plain(s[i])) /\ Begin("handlers", s, with, NoRequest)
  \/ \E r \in Requests : Begin("factory", <<>>, {}, r)

------------------------------------------------------------------------------
(* Faults: wrong versions of definitions below, which the run swaps in.     *)

(* an entry without a channel keeps the one of the entry before it *)
LeftOver(name) ==
  IF name \in channels THEN name
  ELSE IF next > 1 /\ entries[next - 1].name \in channels THEN entries[next - 1].name
  ELSE IF "_default" \in channels THEN "_default" ELSE "none"

(* the first handler that cannot be built ends the loop *)
StopsAtFirst(e) == handlers' = handlers /\ next' = Len(entries) + 1

(* a declaration that cannot be used is left out *)
Lenient(r) ==
  IF r.explicit THEN "explicit"
  ELSE IF r.declared \in {"checkpoint_restore", "graceful_abort"} /\ r.importable /\ r.arguments = "good"
  THEN r.declared ELSE "none"

------------------------------------------------------------------------------
(* TransportFactory: an explicit hook, a declared one, none.  A value that  *)
(* only CheckpointRestoreHook refuses, or a name that is not registered, is *)
(* an error of the configuration; an unknown argument is just an error.     *)
Registered == {"checkpoint_restore", "graceful_abort"}

ResolveRetryHook(r) ==
  CASE r.explicit -> "explicit"
    [] ~r.explicit /\ (r.declared = "none" \/ ~r.importable) -> "none"
    [] ~r.explicit /\ r.declared # "none" /\ r.importable ->
         IF r.declared \notin Registered THEN "configuration"
         ELSE IF r.arguments = "odd" THEN "error"
         ELSE IF r.arguments = "bad" /\ r.declared = "checkpoint_restore" THEN "configuration"
         ELSE r.declared

(* create fails in any case: after the hook it compares the type with       *)
(* TransportType.COMPOSITE, which does not exist.                           *)
Create ==
  /\ caller = "factory" /\ next = 1
  /\ outcome' = IF ~request.config THEN "configuration" ELSE ResolveRetryHook(request)
  /\ next' = 2 /\ UNCHANGED <<caller, entries, channels, handlers, request>>

------------------------------------------------------------------------------
(* TransportConfig: what each transport has to be given.                    *)
Network == {"tcp", "http", "a2a", "websocket"}
Valid(transport, direction, given) ==
  /\ transport \in Network \union {"cli", "inprocess", "uds"}
  /\ direction \in {"outbound", "inbound"}
  /\ transport = "cli" => "subprocess_cmd" \in given
  /\ transport \in Network => given \intersect {"endpoint_url", "port"} # {}
  /\ transport = "uds" => "socket_path" \in given

(* What an entry gives is assigned to a frozen object, which raises.        *)
Bridged(e) == e.gives = {} /\ Valid(e.transport, e.direction, {})

(* The assembler's loop: an entry that does not make a configuration ends   *)
(* it, one whose channel cannot be built goes without; create always fails. *)
BuildChannel ==
  /\ caller = "assembler" /\ next <= Len(entries)
  /\ IF Bridged(entries[next]) THEN next' = next + 1 /\ UNCHANGED outcome
                               ELSE outcome' = "error" /\ next' = Len(entries) + 2
  /\ UNCHANGED <<caller, entries, channels, handlers, request>>

(* After the loop the pipeline for what comes in raises.                    *)
BuildInbound ==
  /\ caller = "assembler" /\ next = Len(entries) + 1
  /\ outcome' = "error" /\ next' = next + 1
  /\ UNCHANGED <<caller, entries, channels, handlers, request>>

------------------------------------------------------------------------------
(* build_all_protocol_handlers: an entry without a channel of its own takes *)
(* the default one, if there is one; one that fails is passed over.         *)
ChannelOf(name) ==
  IF name \in channels THEN name ELSE IF "_default" \in channels THEN "_default" ELSE "none"

Direction(e) == IF e.direction = "outbound" THEN "outbound" ELSE "inbound"

Known == {"http", "cli", "grpc", "graphql", "webhook", "local_ipc", "inprocess"}

(* The handler, in the pipeline of its direction.  Names are in lower case. *)
BuildProtocolHandler(e) ==
  [channel |-> IF e.name \in {"graphql", "webhook", "inprocess"} THEN "unused" ELSE ChannelOf(e.name),
   pipeline |-> Direction(e)]

PassOver(e) == handlers' = handlers /\ next' = next + 1

BuildHandler ==
  /\ caller = "handlers" /\ next <= Len(entries)
  /\ LET e == entries[next]
     IN IF e.name \in Known
        THEN /\ handlers' = [n \in DOMAIN handlers \union {e.name} |->
                               IF n = e.name THEN BuildProtocolHandler(e) ELSE handlers[n]]
             /\ next' = next + 1
        ELSE PassOver(e)
  /\ UNCHANGED <<caller, entries, channels, request, outcome>>

Next == Create \/ BuildChannel \/ BuildInbound \/ BuildHandler

------------------------------------------------------------------------------
(* Handlers do not depend on their neighbours: when the loop is over, each  *)
(* entry with a known name has its handler, whatever the others are, and no *)
(* handler works over the channel of another entry.                         *)
EachByItself ==
  /\ caller = "handlers" /\ next > Len(entries) =>
       DOMAIN handlers = {entries[i].name : i \in DOMAIN entries} \intersect Known
  /\ \A n \in DOMAIN handlers : handlers[n].channel \in {n, "_default", "none", "unused"}

(* A declared policy is not lost: create goes on without a hook only when   *)
(* none is asked for, or the module of the hooks cannot be imported.        *)
HookKept ==
  caller = "factory" /\ next = 2 /\ outcome = "none" /\ request.importable => request.declared = "none"

EntriesInv == EachByItself /\ HookKept
=============================================================================
