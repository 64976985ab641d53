------------------------------- MODULE Wiring -------------------------------
(***************************************************************************)
(* From the file of settings to the components: load_config                *)
(* (wiring/config/loader.py), the builders of CommunicationFabricAssembler *)
(* (wiring/assembler.py) and the providers (wiring/factories).  A setting  *)
(* that the file leaves out has its default in the dataclass and again in  *)
(* the loader; which of the two is used depends on how it is left out.     *)
(* Settings are text here: equal texts stand for equal values.             *)
(* assemble ends in build_presentation_pipeline in any case: the pipeline  *)
(* compares with Direction.INPROCESS, which does not exist.                *)
(***************************************************************************)
VARIABLES
  file,      (* what the file of settings says                             *)
  step,      (* the next builder of assemble, "failed" when one raised     *)
  settings,  (* AppConfig: every key of its three sections                 *)
  built      (* component -> the settings that it was built with           *)

nVars == <<file, step, settings, built>>

Sections == [
  network |-> {"pool_max_size", "pool_idle_timeout", "circuit_breaker_failure_threshold",
               "circuit_breaker_recovery_timeout", "circuit_breaker_success_threshold",
               "load_balancer_strategy"},
  session |-> {"default_ttl", "idle_timeout", "eviction_interval", "max_failover_attempts",
               "failover_delay", "checkpoint_enabled"},
  presentation |-> {"serializer", "compressor", "min_compression_bytes", "auto_detect_compression",
                    "bypass_inprocess"}]

Keys == UNION {Sections[s] : s \in DOMAIN Sections}
Section(key) == CHOOSE s \in DOMAIN Sections : key \in Sections[s]
Named == {"load_balancer_strategy", "serializer", "compressor"}
Words == {"round_robin", "least_active", "json", "gzip", "none", "other"}

NoFile ==
  [form |-> "missing", section |-> [s \in DOMAIN Sections |-> "none"], protocols |-> "none", gives |-> <<>>]

Begin(f) == file = f /\ step = "load" /\ settings = <<>> /\ built = <<>>

(* Each section is left out or empty, no mapping, or a mapping that gives   *)
(* all of its keys or at most one.  One word stands for every name given.   *)
Init ==
  \E form \in {"missing", "other", "mapping"},
     section \in [DOMAIN Sections -> {"none", "scalar", "mapping"}],
     protocols \in {"none", "null", "mapping"}, only \in Keys \union {"all"}, word \in Words :
    LET gives == {k \in Keys : section[Section(k)] = "mapping" /\ only \in {k, "all"}}
    IN Begin([form |-> form, section |-> section, protocols |-> protocols,
              gives |-> [k \in gives |-> IF k \in Named THEN word ELSE "given"]])

------------------------------------------------------------------------------
(* The defaults of the dataclasses, and those that the loader has for a     *)
(* section which is there.                                                  *)
Dataclass == [
  pool_max_size |-> "50", pool_idle_timeout |-> "120.0",
  circuit_breaker_failure_threshold |-> "5", circuit_breaker_recovery_timeout |-> "30.0",
  circuit_breaker_success_threshold |-> "2", load_balancer_strategy |-> "round_robin",
  default_ttl |-> "3600.0", idle_timeout |-> "300.0", eviction_interval |-> "60.0",
  max_failover_attempts |-> "3", failover_delay |-> "1.0", checkpoint_enabled |-> "False",
  serializer |-> "json", compressor |-> "gzip", min_compression_bytes |-> "1024",
  auto_detect_compression |-> "True", bypass_inprocess |-> "True"]

Loader == [
  pool_max_size |-> "50", pool_idle_timeout |-> "120.0",
  circuit_breaker_failure_threshold |-> "5", circuit_breaker_recovery_timeout |-> "30.0",
  circuit_breaker_success_threshold |-> "2", load_balancer_strategy |-> "round_robin",
  default_ttl |-> "3600.0", idle_timeout |-> "300.0", eviction_interval |-> "60.0",
  max_failover_attempts |-> "3", failover_delay |-> "1.0", checkpoint_enabled |-> "False",
  serializer |-> "json", compressor |-> "gzip", min_compression_bytes |-> "1024",
  auto_detect_compression |-> "True", bypass_inprocess |-> "True"]

(* Faults: wrong versions of definitions below, which the run swaps in.     *)

(* a section that is there starts from nothing, and get has no default *)
NoDefault(key) == IF key \in DOMAIN file.gives THEN file.gives[key] ELSE "None"

(* the registry takes the idle time of the pool *)
PoolsIdleTime ==
  [default_ttl |-> settings.default_ttl, idle_timeout |-> settings.pool_idle_timeout,
   eviction_interval |-> settings.eviction_interval]

------------------------------------------------------------------------------
Given(key) == IF key \in DOMAIN file.gives THEN file.gives[key] ELSE Loader[key]

LoadConfig ==
  /\ step = "load"
  /\ IF file.form # "mapping"
     THEN settings' = Dataclass /\ step' = "pool"
     ELSE IF file.protocols = "null" \/ \E s \in DOMAIN Sections : file.section[s] = "scalar"
     THEN step' = "failed" /\ UNCHANGED settings
     ELSE /\ settings' = [k \in Keys |-> IF file.section[Section(k)] = "mapping" THEN Given(k)
                                                                           ELSE Dataclass[k]]
          /\ step' = "pool"
  /\ UNCHANGED <<file, built>>

Build(component, with) ==
  built' = [c \in DOMAIN built \union {component} |-> IF c = component THEN with ELSE built[c]]

PoolSettings == [max_size |-> settings.pool_max_size, idle_timeout |-> settings.pool_idle_timeout]

BuildPool ==
  /\ step = "pool" /\ step' = "router"
  /\ Build("pool", PoolSettings) /\ UNCHANGED <<file, settings>>

(* A strategy of another name is round_robin.                               *)
Strategy(name) == IF name = "least_active" THEN "least_active" ELSE "round_robin"

BuildRouter ==
  /\ step = "router" /\ step' = "registry"
  /\ Build("router", [strategy |-> Strategy(settings.load_balancer_strategy)])
  /\ UNCHANGED <<file, settings>>

RegistrySettings ==
  [default_ttl |-> settings.default_ttl, idle_timeout |-> settings.idle_timeout,
   eviction_interval |-> settings.eviction_interval]

BuildRegistry ==
  /\ step = "registry" /\ step' = "dispatcher"
  /\ Build("registry", RegistrySettings) /\ UNCHANGED <<file, settings>>

BuildDispatcher ==
  /\ step = "dispatcher" /\ step' = "pipeline"
  /\ Build("dispatcher", [max_failover_attempts |-> settings.max_failover_attempts,
                          failover_delay |-> settings.failover_delay])
  /\ UNCHANGED <<file, settings>>

(* build_compressor gives CompressionAdapter a method, which it does not    *)
(* take: whatever the name, there is no compressor.                         *)
Serializer(name) == IF name = "none" THEN "None" ELSE "json"
Compressor(name) == "None"

BuildPipeline ==
  /\ step = "pipeline" /\ step' = "failed"
  /\ Build("pipeline", [serializer |-> Serializer(settings.serializer),
                        compressor |-> Compressor(settings.compressor),
                        min_compression_bytes |-> settings.min_compression_bytes,
                        auto_detect_compression |-> settings.auto_detect_compression])
  /\ UNCHANGED <<file, settings>>

Next ==
  LoadConfig \/ BuildPool \/ BuildRouter \/ BuildRegistry \/ BuildDispatcher \/ BuildPipeline

------------------------------------------------------------------------------
(* What the user asked for: what the file gives, and else the default, in   *)
(* whichever way the file is silent.                                        *)
Asked(key) ==
  IF file.form = "mapping" /\ key \in DOMAIN file.gives THEN file.gives[key] ELSE Dataclass[key]

AskedOf == [
  pool |-> [max_size |-> "pool_max_size", idle_timeout |-> "pool_idle_timeout"],
  router |-> [strategy |-> "load_balancer_strategy"],
  registry |-> [default_ttl |-> "default_ttl", idle_timeout |-> "idle_timeout",
                eviction_interval |-> "eviction_interval"],
  dispatcher |-> [max_failover_attempts |-> "max_failover_attempts",
                  failover_delay |-> "failover_delay"],
  pipeline |-> [min_compression_bytes |-> "min_compression_bytes", serializer |-> "serializer",
                auto_detect_compression |-> "auto_detect_compression"]]

(* Every component works with the settings the user asked for: the two      *)
(* places with defaults, and the three functions that a setting passes      *)
(* through, agree.  A name that is not known becomes the default one.       *)
SettingsArrive ==
  \A c \in DOMAIN built : \A p \in DOMAIN AskedOf[c] :
    LET asked == Asked(AskedOf[c][p])
    IN built[c][p] = CASE p = "strategy" -> Strategy(asked)
                       [] p = "serializer" -> Serializer(asked)
                       [] OTHER -> asked
=============================================================================
