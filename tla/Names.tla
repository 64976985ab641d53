-------------------------------- MODULE Names --------------------------------
(***************************************************************************)
(* Names and turns (network/adapters, network/algorithms): the cache of    *)
(* StandardDnsResolver for one service name, which several tasks resolve   *)
(* with overlapping lookups; the services of ConfigServiceResolver, loaded *)
(* again from a file that changes; and the two strategies that choose a    *)
(* channel.  Nothing here is locked, and the lookup is the only await.     *)
(***************************************************************************)
EXTENDS Naturals, Sequences, FiniteSets

CONSTANTS
  Askers,      (* tasks that resolve the name                               *)
  NameTTL,     (* _cache_ttl                                                *)
  MaxTime,     (* bound: the clock                                          *)
  Services,    (* names that the file may have                              *)
  MaxLoads,    (* bound: loads of the file                                  *)
  Channels,    (* numbers of the channels                                   *)
  MaxTurns     (* bound: choices among the same channels                    *)

VARIABLES
  time,
  cached,      (* _cache: what a lookup found and the time kept with it     *)
  asking,      (* task -> whether it waits for its lookup, and since when   *)
  given,       (* task -> its last answer: how it came, and when it asked   *)
  listed,      (* the file: service -> "good" or "bad"                      *)
  known,       (* _cache: service -> the number of the load that read it    *)
  loads, whole,(* loads so far, and what the last one that ended well read  *)
  index,       (* RoundRobinStrategy._index                                 *)
  healthy,     (* the healthy candidates, or all if none is                 *)
  turns        (* the choices since the candidates changed                  *)

dnsVars == <<time, cached, asking, given>>
configVars == <<listed, known, loads, whole>>
turnVars == <<index, healthy, turns>>
mVars == <<dnsVars, configVars, turnVars>>

(* A result is empty or not, and remembers when its lookup began.           *)
Result(some, begun) == [some |-> some, begun |-> begun]
Nothing == [result |-> Result(FALSE, 0), since |-> 0]

Init ==
  /\ time = 0 /\ cached = Nothing
  /\ asking = [t \in Askers |-> [waits |-> FALSE, now |-> 0]]
  /\ given = [t \in Askers |-> [how |-> "none", result |-> Result(FALSE, 0), asked |-> 0]]
  /\ listed = <<>> /\ known = <<>> /\ loads = 0 /\ whole = {}
  /\ index = 0 /\ healthy = <<>> /\ turns = <<>>

------------------------------------------------------------------------------
(* Faults: wrong versions of definitions below, which the run swaps in.     *)

(* the result is stamped when it arrives *)
StampedLate(t, result) == cached' = [result |-> result, since |-> time]

(* the index starts again with the second place *)
StartsAtTwo == index' = IF index + 1 = Len(healthy) THEN 1 ELSE index + 1
------------------------------------------------------------------------------
(* resolve: a cached answer that is not empty and young enough, or a lookup *)
(* in the executor.  The port is no part of the key.                        *)
Fresh == cached.result.some /\ time - cached.since < NameTTL

Answer(t, how, result, asked) == given' = [given EXCEPT ![t] = [how |-> how, result |-> result, asked |-> asked]]

Resolve(t) ==
  /\ ~asking[t].waits
  /\ IF Fresh THEN Answer(t, "cache", cached.result, time) /\ UNCHANGED asking
              ELSE asking' = [asking EXCEPT ![t] = [waits |-> TRUE, now |-> time]] /\ UNCHANGED given
  /\ UNCHANGED <<time, cached, configVars, turnVars>>

Keep(t, result) == cached' = [result |-> result, since |-> asking[t].now]
Done(t) == asking[t].waits /\ asking' = [asking EXCEPT ![t].waits = FALSE]

(* A name that does not exist is an empty result, and kept as any other.    *)
LookupEnds(t) ==
  /\ Done(t)
  /\ \E some \in BOOLEAN : LET result == Result(some, asking[t].now)
                          IN Keep(t, result) /\ Answer(t, "lookup", result, asking[t].now)
  /\ UNCHANGED <<time, configVars, turnVars>>

(* Any other error gives what is cached, however old.                       *)
LookupRaises(t) ==
  /\ Done(t) /\ Answer(t, "raised", cached.result, asking[t].now)
  /\ UNCHANGED <<time, cached, configVars, turnVars>>

Cancelled(t) == Done(t) /\ UNCHANGED <<time, cached, given, configVars, turnVars>>

Refresh == cached' = Nothing /\ UNCHANGED <<time, asking, given, configVars, turnVars>>

Tick == time < MaxTime /\ time' = time + 1 /\ UNCHANGED <<cached, asking, given, configVars, turnVars>>

------------------------------------------------------------------------------
(* _load_config: service after service in the order of the file, up to one  *)
(* that cannot be read.  What the file no longer has stays.                 *)
Orders == {o \in [1 .. Cardinality(DOMAIN listed) -> DOMAIN listed] :
             \A i, j \in DOMAIN o : i # j => o[i] # o[j]}

Load ==
  /\ loads < MaxLoads /\ loads' = loads + 1
  /\ \E order \in Orders :
       LET bad == {i \in DOMAIN order : listed[order[i]] = "bad"}
           got == {order[i] : i \in {j \in DOMAIN order : \A b \in bad : j < b}}
       IN /\ known' = [s \in DOMAIN known \union got |-> IF s \in got THEN loads' ELSE known[s]]
          /\ whole' = IF bad = {} THEN got ELSE {}
  /\ UNCHANGED <<listed, dnsVars, turnVars>>

FileChanges ==
  /\ \E some \in SUBSET Services : listed' \in [some -> {"good", "bad"}]
  /\ whole' = {} /\ UNCHANGED <<known, loads, dnsVars, turnVars>>

------------------------------------------------------------------------------
(* The candidates, in the order of their list, with their health: without a *)
(* healthy one, all are taken.                                              *)
Candidates(all, well) == IF all \intersect well = {} THEN all ELSE all \intersect well

Change ==
  /\ \E some, well \in SUBSET Channels :
       LET fit == Candidates(some, well)
       IN /\ healthy' \in [1 .. Cardinality(fit) -> fit]
          /\ \A i, j \in DOMAIN healthy' : i < j => healthy'[i] < healthy'[j]
  /\ healthy' # healthy /\ turns' = <<>> /\ UNCHANGED <<index, dnsVars, configVars>>

NextIndex == index' = index + 1

RoundRobin ==
  /\ healthy # <<>> /\ Len(turns) < MaxTurns /\ index < 2 * MaxTurns
  /\ turns' = Append(turns, healthy[(index % Len(healthy)) + 1])
  /\ NextIndex /\ UNCHANGED <<healthy, dnsVars, configVars>>

NextDns ==
  (\E t \in Askers : Resolve(t) \/ LookupEnds(t) \/ LookupRaises(t) \/ Cancelled(t)) \/ Refresh \/ Tick
NextFile == Load \/ FileChanges
NextTurn == Change \/ RoundRobin

------------------------------------------------------------------------------
(* An answer from the cache was looked up less than the time to live before *)
(* it was asked for, by a lookup that found something, however the lookups  *)
(* of other tasks overlapped; anything older comes only of a lookup that    *)
(* raised (StandardDnsResolver.resolve).                                    *)
AnswersYoung ==
  \A t \in Askers :
    given[t].how = "cache" => given[t].result.some /\ given[t].asked - given[t].result.begun < NameTTL

(* After a load that ended well every service of the file is answered from  *)
(* it, whatever earlier loads that broke off left (ConfigServiceResolver).  *)
LoadsWhole == \A s \in whole : s \in DOMAIN known /\ known[s] = loads

(* As long as the candidates stay, none is chosen twice more often than     *)
(* another that is not (RoundRobinStrategy.select).                         *)
Chosen(c) == Cardinality({i \in DOMAIN turns : turns[i] = c})
EvenTurns ==
  \A i, j \in DOMAIN healthy : Chosen(healthy[i]) <= Chosen(healthy[j]) + 1

CacheInv == AnswersYoung /\ LoadsWhole /\ EvenTurns
=============================================================================
