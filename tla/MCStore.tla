-------------------------------- MODULE MCStore --------------------------------
(* A session and its checkpoints, kept by one of the adapters that          *)
(* SessionFactory knows: in an external store, in memory or in files.  And   *)
(* what the network layer remembers of names, of a file and of turns.       *)
EXTENDS Naturals, FiniteSets, TLC

CONSTANTS Clients, Checkpoints, NoCheckpoint,
  SessionTTL, ClosedTTL, LatestTTL, CheckpointTTL, MaxDelay, MaxAge, TTL, MaxNow,
  Askers, NameTTL, MaxTime, Services, MaxLoads, Channels, MaxTurns

VARIABLES kept_in,
  state, data, latest, left, marked, at, read, answer, wait, late,
  adapter, life, kept, stamp, clock, newest, outcome, told,
  time, cached, asking, given, listed, known, loads, whole, index, healthy, turns

(* The lifetimes are those of NetworkSessionAdapter, a day for a checkpoint *)
(* and an hour for the pointer to it: the difference is more than what two  *)
(* calls of the store may take.                                             *)
ASSUME StoreAssumption ==
  /\ NoCheckpoint \notin Checkpoints /\ "nothing" \notin Checkpoints /\ NoCheckpoint # "nothing"
  /\ IsFiniteSet(Checkpoints) /\ IsFiniteSet(Channels) /\ Channels \subseteq Nat
  /\ {SessionTTL, ClosedTTL, CheckpointTTL, MaxDelay, MaxAge, TTL, NameTTL} \subseteq Nat
  /\ LatestTTL \in Nat \ {0} /\ CheckpointTTL >= LatestTTL + 2 * MaxDelay

N == INSTANCE NetworkSession
L == INSTANCE LocalSession WITH Ids <- Checkpoints
M == INSTANCE Names

nVars == <<state, data, latest, left, marked, at, read, answer, wait, late>>
lVars == <<adapter, life, kept, stamp, clock, newest, outcome, told>>
mVars == <<time, cached, asking, given, listed, known, loads, whole, index, healthy, turns>>
vars == <<kept_in, nVars, lVars, mVars>>

Init ==
  /\ kept_in \in {"store", "process", "names", "file", "turns"}
  /\ N!Init /\ L!Init /\ M!Init
  /\ kept_in # "process" => adapter = "inprocess"

Next ==
  \/ kept_in = "store" /\ N!Next /\ UNCHANGED <<kept_in, lVars, mVars>>
  \/ kept_in = "process" /\ L!Next /\ UNCHANGED <<kept_in, nVars, mVars>>
  \/ kept_in = "names" /\ M!NextDns /\ UNCHANGED <<kept_in, nVars, lVars>>
  \/ kept_in = "file" /\ M!NextFile /\ UNCHANGED <<kept_in, nVars, lVars>>
  \/ kept_in = "turns" /\ M!NextTurn /\ UNCHANGED <<kept_in, nVars, lVars>>

Spec == Init /\ [][Next]_vars

Symmetry == Permutations(Clients) \union Permutations(Checkpoints)

(* What is kept is found again, and nothing that is over: see NetworkSession,*)
(* LocalSession and Names.                                                  *)
FoundAgain == N!LatestResolves /\ L!RestoresNewest /\ L!ClosedHoldsNothing /\ M!CacheInv

(* See NetworkSession.                                                      *)
ImplementsRegister == N!ImplementsRegister
LateRefreshHarmless == N!LateRefreshHarmless
==============================================================================
