----------------------- MODULE ClientAndRegistryProofs -----------------------
(***************************************************************************)
(* Theorems about SessionRegistry, for any tasks, sessions and             *)
(* coordinators, and about the retry engine with the unix-socket client,   *)
(* for any calls, connections, policies and bound of the attempts.  Both   *)
(* are about things that are handed on: a coordinator moves from the map   *)
(* to the worker that took its session out, or through the list of a       *)
(* close(), and out of the invariant's sight only in the step that records *)
(* how it ended; a line moves from a call to the server and back as its    *)
(* answer, as long as no attempt leaves one behind.                        *)
(***************************************************************************)
EXTENDS SessionRegistry, UdsClient, TLAPS

------------------------------------------------------------------------------
(* The registry *)


(* Who is at an await of _on_session_end has a coordinator in hand, and only *)
(* such a worker may have a list to go through.                              *)
HandsFull ==
  \A w \in Workers :
    /\ op[w].at \in {"saving", "ending"} <=> op[w].co # NoCoordinator
    /\ rest[w] # {} => op[w].co # NoCoordinator

(* Only what is in the map can be idle. *)
IdleIsRegistered == \A s \in Sessions : idle[s] => Registered(s)

(* The maintenance loop has no list. *)
OnlyTasksClose == rest[Maintenance] = {}

(* The places a coordinator can be in. *)
InPlace(c) ==
  \/ \E s \in Sessions : entry[s] = c
  \/ \E w \in Workers : c = op[w].co \/ c \in rest[w]

RegistryCore == TypeOK /\ OneCustodian /\ NoneForgotten /\ EvictionIsCurrent

IInv == RegistryCore /\ HandsFull /\ IdleIsRegistered /\ OnlyTasksClose

LEMMA InitIInv == Init => IInv
  BY RegistryAssumption
     DEF Init, IInv, RegistryCore, TypeOK, OneCustodian, NoneForgotten, EvictionIsCurrent,
         HandsFull, IdleIsRegistered, OnlyTasksClose, Registered, Workers, Out

LEMMA EndingFacts ==
  ASSUME NEW c \in Coordinators, TypeOK
  PROVE  /\ Ending(c) \in [at : {"saving", "ending"}, co : Coordinators]
         /\ Ending(c).co = c /\ Ending(c).at \in {"saving", "ending"}
  BY DEF Ending, TypeOK

------------------------------------------------------------------------------
LEMMA RegisterPreserves ==
  ASSUME IInv, NEW s \in Sessions, NEW c \in Coordinators, Register(s, c)
  PROVE  IInv'
  <1> USE RegistryAssumption
  <1>1. TypeOK'
    BY DEF Register, IInv, RegistryCore, TypeOK
  <1>2. OneCustodian'
    BY DEF Register, IInv, RegistryCore, TypeOK, OneCustodian, NoneForgotten, Registered, Workers
  <1>3. NoneForgotten'
    BY DEF Register, IInv, RegistryCore, TypeOK, OneCustodian, NoneForgotten, Registered, Workers
  <1>4. EvictionIsCurrent'
    BY DEF Register, IInv, RegistryCore, TypeOK, EvictionIsCurrent, Registered, Workers
  <1>5. HandsFull' /\ IdleIsRegistered' /\ OnlyTasksClose'
    BY DEF Register, IInv, RegistryCore, TypeOK, HandsFull, IdleIsRegistered, OnlyTasksClose,
           Registered
  <1>6. QED
    BY <1>1, <1>2, <1>3, <1>4, <1>5 DEF IInv, RegistryCore

LEMMA TouchPreserves ==
  ASSUME IInv, NEW s \in Sessions, Touch(s) \/ Age(s)
  PROVE  IInv'
  <1> USE RegistryAssumption
  <1>1. TypeOK' /\ HandsFull' /\ IdleIsRegistered' /\ EvictionIsCurrent' /\ OnlyTasksClose'
    BY DEF Touch, Age, IInv, RegistryCore, TypeOK, EvictionIsCurrent, HandsFull,
           IdleIsRegistered, OnlyTasksClose, Registered, Workers
  <1>2. OneCustodian' /\ NoneForgotten'
    BY DEF Touch, Age, IInv, RegistryCore, OneCustodian, NoneForgotten, Registered
  <1>3. QED
    BY <1>1, <1>2 DEF IInv, RegistryCore

(* A session is taken out of the map by a worker with free hands. *)
LEMMA TakeOut ==
  ASSUME IInv, NEW w \in Workers, NEW s \in Sessions,
         Registered(s), op[w].at = "out",
         Pop(s), op' = [op EXCEPT ![w] = Ending(entry[s])],
         UNCHANGED <<coord, store, closable, rest, maint>>
  PROVE  OneCustodian' /\ NoneForgotten' /\ HandsFull' /\ IdleIsRegistered' /\ OnlyTasksClose'
  <1> DEFINE c == entry[s]
  <1>1. c \in Coordinators /\ op[w].co = NoCoordinator /\ rest[w] = {}
    BY DEF IInv, RegistryCore, TypeOK, HandsFull, Registered
  <1>2. /\ op'[w].co = c /\ op'[w].at \in {"saving", "ending"}
        /\ \A v \in Workers \ {w} : op'[v] = op[v]
    BY <1>1, EndingFacts DEF IInv, RegistryCore, TypeOK
  <1>3. entry'[s] = NoCoordinator /\ \A r \in Sessions \ {s} : entry'[r] = entry[r]
    BY DEF Pop, IInv, RegistryCore, TypeOK
  <1>4. OneCustodian'
    <2>1. \A r, q \in Sessions : entry'[r] = entry'[q] /\ entry'[r] # NoCoordinator => r = q
      BY <1>3 DEF IInv, RegistryCore, OneCustodian, Registered
    <2>2. \A r \in Sessions, v \in Workers :
            entry'[r] # NoCoordinator => entry'[r] # op'[v].co /\ entry'[r] \notin rest[v]
      BY <1>1, <1>2, <1>3 DEF IInv, RegistryCore, OneCustodian, Registered
    <2>3. \A v \in Workers : c # op[v].co /\ c \notin rest[v]
      BY DEF IInv, RegistryCore, OneCustodian
    <2>4. \A v, u \in Workers : op'[v].co = op'[u].co => v = u \/ op'[v].co = NoCoordinator
      BY <1>2, <2>3 DEF IInv, RegistryCore, OneCustodian
    <2>5. \A v, u \in Workers : op'[v].co \notin rest[u]
      BY <1>2, <2>3 DEF IInv, RegistryCore, OneCustodian
    <2>6. QED
      BY <2>1, <2>2, <2>4, <2>5 DEF IInv, RegistryCore, OneCustodian, Registered
  <1>5. NoneForgotten'
    <2> SUFFICES ASSUME NEW d \in Coordinators
                 PROVE  InPlace(d)' <=> InPlace(d)
      BY DEF NoneForgotten, InPlace, IInv, RegistryCore
    <2>1. CASE d = c
      BY <2>1, <1>1, <1>2 DEF InPlace
    <2>2. CASE d # c
      <3>1. \A r \in Sessions : entry'[r] = d <=> entry[r] = d
        BY <2>2, <1>3, RegistryAssumption
      <3>2. \A v \in Workers : op'[v].co = d <=> op[v].co = d
        BY <2>2, <1>1, <1>2, RegistryAssumption
      <3>3. QED
        BY <3>1, <3>2 DEF InPlace
    <2>3. QED
      BY <2>1, <2>2
  <1>6. HandsFull'
    BY <1>1, <1>2, RegistryAssumption DEF IInv, RegistryCore, TypeOK, HandsFull
  <1>7. IdleIsRegistered'
    BY <1>3 DEF Pop, IInv, RegistryCore, TypeOK, IdleIsRegistered, Registered
  <1>8. QED
    BY <1>4, <1>5, <1>6, <1>7 DEF IInv, OnlyTasksClose

(* A worker is done with the coordinator in its hands, however that ended,   *)
(* and goes on.                                                              *)
LEMMA GoOnPreserves ==
  ASSUME IInv, NEW w \in Workers, NEW end \in {"closed", "failed"},
         op[w].at \in {"saving", "ending"},
         coord' = [coord EXCEPT ![op[w].co] = end],
         GoOn(w), UNCHANGED <<store, closable, maint>>
  PROVE  IInv'
  <1> USE RegistryAssumption
  <1> DEFINE c == op[w].co
  <1>1. c \in Coordinators /\ coord[c] = "registered"
    BY DEF IInv, RegistryCore, TypeOK, HandsFull, NoneForgotten
  <1>2. /\ \A r \in Sessions : entry[r] # c
        /\ \A v \in Workers : c \notin rest[v] /\ (v # w => op[v].co # c)
    BY <1>1 DEF IInv, RegistryCore, OneCustodian, Registered
  <1>3. coord'[c] = end /\ \A d \in Coordinators \ {c} : coord'[d] = coord[d]
    BY <1>1 DEF IInv, RegistryCore, TypeOK
  <1>4. CASE NextEvicted(w)
    <2> PICK s \in stale : /\ Pop(s) /\ stale' = stale \ {s}
                           /\ op' = [op EXCEPT ![w] = Ending(entry[s])]
      BY <1>4 DEF NextEvicted
    <2>1. /\ lock = w /\ rest' = rest /\ lock' = lock /\ rest[w] = {}
          /\ s \in Sessions /\ entry[s] \in Coordinators /\ entry[s] # c
      BY <1>4, <1>2 DEF NextEvicted, IInv, RegistryCore, TypeOK, EvictionIsCurrent, Registered
    <2>2. /\ op'[w].co = entry[s] /\ op'[w].at \in {"saving", "ending"}
          /\ op'[w] \in [at : {"saving", "ending"}, co : Coordinators]
          /\ \A v \in Workers \ {w} : op'[v] = op[v]
      BY <2>1, EndingFacts DEF IInv, RegistryCore, TypeOK
    <2>3. entry'[s] = NoCoordinator /\ \A r \in Sessions \ {s} : entry'[r] = entry[r]
      BY <2>1 DEF Pop, IInv, RegistryCore, TypeOK
    <2>4. TypeOK'
      BY <2>1, <2>2, <1>1 DEF Pop, IInv, RegistryCore, TypeOK
    <2>5. OneCustodian'
      BY <2>1, <2>2, <2>3 DEF IInv, RegistryCore, TypeOK, OneCustodian, Registered
    <2>6. NoneForgotten'
      <3> SUFFICES ASSUME NEW d \in Coordinators
                   PROVE  coord'[d] = "registered" <=> InPlace(d)'
        BY DEF NoneForgotten, InPlace
      <3>1. CASE d = c
        <4>1. \A r \in Sessions : entry'[r] # c
          BY <2>3, <1>1, <1>2
        <4>2. \A v \in Workers : op'[v].co # c /\ c \notin rest'[v]
          BY <2>1, <2>2, <1>2
        <4>3. QED
          BY <3>1, <4>1, <4>2, <1>3 DEF InPlace
      <3>2. CASE d = entry[s]
        BY <3>2, <2>1, <2>2, <1>3 DEF InPlace, IInv, RegistryCore, NoneForgotten
      <3>3. CASE d # c /\ d # entry[s]
        <4>1. \A r \in Sessions : entry'[r] = d <=> entry[r] = d
          BY <3>3, <2>3
        <4>2. \A v \in Workers : op'[v].co = d <=> op[v].co = d
          BY <3>3, <2>2
        <4>3. QED
          BY <3>3, <4>1, <4>2, <2>1, <1>3 DEF InPlace, IInv, RegistryCore, NoneForgotten
      <3>4. QED
        BY <3>1, <3>2, <3>3
    <2>7. EvictionIsCurrent'
      BY <2>1, <2>2, <2>3 DEF Pop, IInv, RegistryCore, TypeOK, EvictionIsCurrent, Registered, Workers
    <2>8. HandsFull'
      BY <2>1, <2>2 DEF IInv, RegistryCore, TypeOK, HandsFull
    <2>9. IdleIsRegistered'
      BY <2>1, <2>3 DEF Pop, IInv, RegistryCore, TypeOK, IdleIsRegistered, Registered
    <2>10. OnlyTasksClose'
      BY <2>1 DEF IInv, OnlyTasksClose
    <2>11. QED
      BY <2>4, <2>5, <2>6, <2>7, <2>8, <2>9, <2>10 DEF IInv, RegistryCore
  <1>5. CASE NextOfClose(w)
    <2> PICK e \in rest[w] : /\ rest' = [rest EXCEPT ![w] = @ \ {e}]
                             /\ op' = [op EXCEPT ![w] = Ending(e)]
      BY <1>5 DEF NextOfClose
    <2>1. /\ e \in Coordinators /\ e # c /\ lock # w
          /\ UNCHANGED <<entry, idle, lock, stale>>
      BY <1>5, <1>2 DEF NextOfClose, IInv, RegistryCore, TypeOK, EvictionIsCurrent
    <2>2. /\ op'[w].co = e /\ op'[w].at \in {"saving", "ending"}
          /\ op'[w] \in [at : {"saving", "ending"}, co : Coordinators]
          /\ \A v \in Workers \ {w} : op'[v] = op[v]
      BY <2>1, EndingFacts DEF IInv, RegistryCore, TypeOK
    <2>3. rest'[w] = rest[w] \ {e} /\ \A v \in Workers \ {w} : rest'[v] = rest[v]
      BY DEF IInv, RegistryCore, TypeOK
    <2>4. TypeOK'
      BY <2>1, <2>2, <1>1 DEF IInv, RegistryCore, TypeOK
    <2>5. OneCustodian'
      BY <2>1, <2>2, <2>3 DEF IInv, RegistryCore, TypeOK, OneCustodian, Registered
    <2>6. NoneForgotten'
      <3> SUFFICES ASSUME NEW d \in Coordinators
                   PROVE  coord'[d] = "registered" <=> InPlace(d)'
        BY DEF NoneForgotten, InPlace
      <3>1. CASE d = c
        <4>1. \A v \in Workers : op'[v].co # c /\ c \notin rest'[v]
          BY <2>1, <2>2, <2>3, <1>2
        <4>2. QED
          BY <3>1, <4>1, <2>1, <1>2, <1>3 DEF InPlace
      <3>2. CASE d = e
        BY <3>2, <2>1, <2>2, <1>3 DEF InPlace, IInv, RegistryCore, NoneForgotten
      <3>3. CASE d # c /\ d # e
        <4>1. \A v \in Workers : /\ op'[v].co = d <=> op[v].co = d
                                 /\ d \in rest'[v] <=> d \in rest[v]
          BY <3>3, <2>2, <2>3
        <4>2. QED
          BY <3>3, <4>1, <2>1, <1>3 DEF InPlace, IInv, RegistryCore, NoneForgotten
      <3>4. QED
        BY <3>1, <3>2, <3>3
    <2>7. EvictionIsCurrent'
      BY <2>1, <2>2, <2>3 DEF IInv, RegistryCore, TypeOK, EvictionIsCurrent, Registered, Workers
    <2>8. HandsFull' /\ IdleIsRegistered' /\ OnlyTasksClose'
      BY <2>1, <2>2, <2>3 DEF IInv, RegistryCore, TypeOK, HandsFull, IdleIsRegistered, Registered,
                              OnlyTasksClose, Workers
    <2>9. QED
      BY <2>4, <2>5, <2>6, <2>7, <2>8 DEF IInv, RegistryCore
  <1>6. CASE CallEnds(w)
    <2>1. /\ UNCHANGED <<entry, idle, stale, rest>> /\ rest[w] = {}
          /\ lock = w => stale = {}
          /\ lock' = IF lock = w THEN Nobody ELSE lock
      BY <1>6 DEF CallEnds
    <2>2. op'[w] = Out /\ \A v \in Workers \ {w} : op'[v] = op[v]
      BY <1>6 DEF CallEnds, IInv, RegistryCore, TypeOK
    <2>3. TypeOK'
      BY <1>6, <2>1, <1>1 DEF CallEnds, IInv, RegistryCore, TypeOK, Out
    <2>4. OneCustodian'
      <3>1. /\ op'[w].co = NoCoordinator
            /\ \A v \in Workers \ {w} : op'[v].co = op[v].co
        BY <2>2 DEF Out
      <3>2. \A v \in Workers : NoCoordinator \notin rest[v]
        BY DEF IInv, RegistryCore, TypeOK
      <3>3. \A s \in Sessions, v \in Workers : Registered(s) => entry[s] # op'[v].co
        BY <3>1 DEF IInv, RegistryCore, OneCustodian, Registered
      <3>4. \A v, u \in Workers : /\ op'[v].co = op'[u].co => v = u \/ op'[v].co = NoCoordinator
                                 /\ op'[v].co \notin rest[u]
        BY <3>1, <3>2 DEF IInv, RegistryCore, OneCustodian
      <3>5. QED
        BY <2>1, <3>3, <3>4 DEF IInv, RegistryCore, OneCustodian, Registered
    <2>5. NoneForgotten'
      <3> SUFFICES ASSUME NEW d \in Coordinators
                   PROVE  coord'[d] = "registered" <=> InPlace(d)'
        BY DEF NoneForgotten, InPlace
      <3>1. CASE d = c
        <4>1. \A v \in Workers : op'[v].co # c
          BY <2>2, <1>1, <1>2 DEF Out
        <4>2. QED
          BY <3>1, <4>1, <2>1, <1>2, <1>3 DEF InPlace
      <3>2. CASE d # c
        <4>1. \A v \in Workers : op'[v].co = d <=> op[v].co = d
          BY <3>2, <2>2 DEF Out
        <4>2. QED
          BY <3>2, <4>1, <2>1, <1>3 DEF InPlace, IInv, RegistryCore, NoneForgotten
      <3>3. QED
        BY <3>1, <3>2
    <2>6. EvictionIsCurrent'
      BY <2>1, <2>2 DEF IInv, RegistryCore, TypeOK, EvictionIsCurrent, Registered, Workers
    <2>7. HandsFull' /\ IdleIsRegistered' /\ OnlyTasksClose'
      <3>1. HandsFull'
        BY <2>1, <2>2 DEF Out, IInv, HandsFull
      <3>2. QED
        BY <2>1, <3>1 DEF IInv, IdleIsRegistered, OnlyTasksClose, Registered
    <2>8. QED
      BY <2>3, <2>4, <2>5, <2>6, <2>7 DEF IInv, RegistryCore
  <1>7. QED
    BY <1>4, <1>5, <1>6 DEF GoOn

LEMMA EvictPreserves ==
  ASSUME IInv, NEW w \in Workers, Evict(w)
  PROVE  IInv'
  <1> USE RegistryAssumption
  <1> PICK s \in Stale : /\ Pop(s) /\ stale' = Stale \ {s}
                         /\ op' = [op EXCEPT ![w] = Ending(entry[s])]
    BY DEF Evict
  <1>1. /\ s \in Sessions /\ Registered(s) /\ op[w].at = "out" /\ rest[w] = {}
        /\ lock' = w /\ UNCHANGED <<coord, store, closable, rest, maint>>
    BY DEF Evict, Stale, IInv, IdleIsRegistered, RegistryCore, TypeOK, HandsFull
  <1>2. OneCustodian' /\ NoneForgotten' /\ HandsFull' /\ IdleIsRegistered' /\ OnlyTasksClose'
    BY <1>1, TakeOut
  <1>3. entry[s] \in Coordinators
    BY <1>1 DEF IInv, RegistryCore, TypeOK, Registered
  <1>4. TypeOK'
    BY <1>1, <1>3, EndingFacts DEF Pop, Stale, IInv, RegistryCore, TypeOK
  <1>5. op'[w].at \in {"saving", "ending"}
    BY <1>3, EndingFacts DEF IInv, RegistryCore, TypeOK
  <1>6. EvictionIsCurrent'
    BY <1>1, <1>5 DEF Pop, Stale, IInv, RegistryCore, TypeOK, EvictionIsCurrent,
                      IdleIsRegistered, Registered, Workers
  <1>7. QED
    BY <1>2, <1>4, <1>6 DEF IInv, RegistryCore

LEMMA UnregisterPreserves ==
  ASSUME IInv, NEW t \in Tasks, NEW s \in Sessions, Unregister(t, s)
  PROVE  IInv'
  <1> USE RegistryAssumption
  <1>1. /\ Registered(s) /\ op[t].at = "out" /\ t \in Workers /\ lock = Nobody /\ Pop(s)
        /\ op' = [op EXCEPT ![t] = Ending(entry[s])]
        /\ UNCHANGED <<coord, store, closable, lock, stale, rest, maint>>
    BY DEF Unregister, Workers
  <1>2. OneCustodian' /\ NoneForgotten' /\ HandsFull' /\ IdleIsRegistered' /\ OnlyTasksClose'
    BY <1>1, TakeOut
  <1>3. entry[s] \in Coordinators
    BY <1>1 DEF IInv, RegistryCore, TypeOK, Registered
  <1>4. TypeOK'
    BY <1>1, <1>3, EndingFacts DEF Pop, IInv, RegistryCore, TypeOK
  <1>5. EvictionIsCurrent'
    BY <1>1 DEF IInv, RegistryCore, TypeOK, EvictionIsCurrent, Workers
  <1>6. QED
    BY <1>2, <1>4, <1>5 DEF IInv, RegistryCore

LEMMA SavedPreserves ==
  ASSUME IInv, NEW w \in Workers, Saved(w)
  PROVE  IInv'
  <1>1. /\ op'[w].at = "ending" /\ op'[w].co = op[w].co
        /\ \A v \in Workers \ {w} : op'[v] = op[v]
    BY DEF Saved, IInv, RegistryCore, TypeOK
  <1>2. \A v \in Workers : op'[v].co = op[v].co
    BY <1>1
  <1>3. TypeOK'
    BY DEF Saved, IInv, RegistryCore, TypeOK
  <1>4. OneCustodian' /\ NoneForgotten'
    BY <1>2 DEF Saved, IInv, RegistryCore, OneCustodian, NoneForgotten, Registered
  <1>5. EvictionIsCurrent' /\ HandsFull' /\ IdleIsRegistered' /\ OnlyTasksClose'
    BY <1>1 DEF Saved, IInv, RegistryCore, EvictionIsCurrent, HandsFull, IdleIsRegistered,
                OnlyTasksClose, Registered
  <1>6. QED
    BY <1>3, <1>4, <1>5 DEF IInv, RegistryCore

LEMMA ClosePreserves ==
  ASSUME IInv, NEW t \in Tasks, Close(t)
  PROVE  IInv'
  <1> USE RegistryAssumption
  <1>1. \A w \in Workers : /\ op'[w].co = op[w].co
                           /\ op'[w].at \in {"saving", "ending"} <=> op[w].at \in {"saving", "ending"}
    BY DEF Close, IInv, RegistryCore, TypeOK
  <1>2. TypeOK'
    BY DEF Close, IInv, RegistryCore, TypeOK
  <1>3. OneCustodian' /\ NoneForgotten'
    BY <1>1 DEF Close, IInv, RegistryCore, OneCustodian, NoneForgotten, Registered
  <1>4. EvictionIsCurrent' /\ HandsFull' /\ IdleIsRegistered' /\ OnlyTasksClose'
    BY <1>1 DEF Close, IInv, RegistryCore, EvictionIsCurrent, HandsFull, IdleIsRegistered,
                OnlyTasksClose, Registered
  <1>5. QED
    BY <1>2, <1>3, <1>4 DEF IInv, RegistryCore

LEMMA StartPreserves ==
  ASSUME IInv, StartMaintenance
  PROVE  IInv'
  BY DEF StartMaintenance, IInv, RegistryCore, TypeOK, OneCustodian, NoneForgotten,
         EvictionIsCurrent, HandsFull, IdleIsRegistered, OnlyTasksClose, Registered

(* A cancelled eviction lets go of the coordinator it was finalising. *)
LEMMA MaintenanceEndsPreserves ==
  ASSUME IInv, MaintenanceEnds
  PROVE  IInv'
  <1> USE RegistryAssumption
  <1> DEFINE c == op[Maintenance].co
  <1>1. /\ Maintenance \in Workers /\ op'[Maintenance].co = NoCoordinator
        /\ op'[Maintenance].at = "out"
        /\ \A w \in Workers \ {Maintenance} :
              /\ op'[w].co = op[w].co
              /\ op'[w].at \in {"saving", "ending"} <=> op[w].at \in {"saving", "ending"}
    BY DEF MaintenanceEnds, IInv, RegistryCore, TypeOK, Workers, Out
  <1>2. TypeOK'
    BY DEF MaintenanceEnds, IInv, RegistryCore, TypeOK, Out
  <1>3. rest' = rest /\ entry' = entry /\ rest[Maintenance] = {}
    BY <1>1 DEF MaintenanceEnds, IInv, OnlyTasksClose
  <1>4. OneCustodian'
    BY <1>1, <1>3 DEF IInv, RegistryCore, TypeOK, OneCustodian, Registered
  <1>5. NoneForgotten'
    <2> SUFFICES ASSUME NEW d \in Coordinators
                 PROVE  coord'[d] = "registered" <=> InPlace(d)'
      BY DEF NoneForgotten, InPlace
    <2>1. coord'[d] = IF d = c THEN "interrupted" ELSE coord[d]
      BY DEF MaintenanceEnds
    <2>2. CASE d = c
      <3>1. \A r \in Sessions : entry'[r] # d
        BY <2>2, <1>1, <1>3 DEF IInv, RegistryCore, OneCustodian, Registered
      <3>2. \A w \in Workers : op'[w].co # d /\ d \notin rest'[w]
        BY <2>2, <1>1, <1>3 DEF IInv, RegistryCore, OneCustodian
      <3>3. QED
        BY <2>1, <2>2, <3>1, <3>2 DEF InPlace
    <2>3. CASE d # c
      <3>1. \A w \in Workers : op'[w].co = d <=> op[w].co = d
        BY <2>3, <1>1
      <3>2. QED
        BY <2>1, <2>3, <3>1, <1>3 DEF InPlace, IInv, RegistryCore, NoneForgotten
    <2>4. QED
      BY <2>2, <2>3
  <1>6. EvictionIsCurrent'
    BY <1>1 DEF MaintenanceEnds, IInv, RegistryCore, TypeOK, EvictionIsCurrent, Registered, Workers
  <1>7. HandsFull' /\ IdleIsRegistered' /\ OnlyTasksClose'
    BY <1>1, <1>3 DEF MaintenanceEnds, IInv, RegistryCore, TypeOK, HandsFull, IdleIsRegistered,
                      Registered, OnlyTasksClose
  <1>8. QED
    BY <1>2, <1>4, <1>5, <1>6, <1>7 DEF IInv, RegistryCore

(* close() takes everything off the map, onto its own list. *)
LEMMA ClearPreserves ==
  ASSUME IInv, NEW t \in Tasks, Clear(t)
  PROVE  IInv'
  <1> USE RegistryAssumption
  <1> DEFINE left == {entry[s] : s \in {r \in Sessions : Registered(r)}}
  <1>1. /\ t \in Workers /\ op[t].at = "clearing" /\ op[t].co = NoCoordinator /\ rest[t] = {}
        /\ left \subseteq Coordinators
        /\ UNCHANGED <<coord, store, closable, lock, stale, maint>> /\ lock = Nobody /\ stale = {}
        /\ \A s \in Sessions : entry'[s] = NoCoordinator /\ ~idle'[s]
    BY DEF Clear, IInv, RegistryCore, TypeOK, HandsFull, Registered, Workers, EvictionIsCurrent
  <1>2. CASE left = {} /\ op' = [op EXCEPT ![t] = Out] /\ UNCHANGED rest
    <2>1. op'[t] = Out /\ \A v \in Workers \ {t} : op'[v] = op[v]
      BY <1>1, <1>2 DEF IInv, RegistryCore, TypeOK
    <2>2. \A v \in Workers : op'[v].co = op[v].co
      BY <1>1, <2>1 DEF Out
    <2>3. \A s \in Sessions : entry[s] = NoCoordinator
      BY <1>2 DEF Registered
    <2>4. TypeOK'
      BY <1>1, <1>2 DEF Clear, IInv, RegistryCore, TypeOK, Out
    <2>5. OneCustodian' /\ NoneForgotten'
      BY <1>1, <1>2, <2>2, <2>3 DEF IInv, RegistryCore, OneCustodian, NoneForgotten, Registered
    <2>6. EvictionIsCurrent' /\ HandsFull' /\ IdleIsRegistered' /\ OnlyTasksClose'
      BY <1>1, <1>2, <2>1 DEF Out, IInv, RegistryCore, TypeOK, EvictionIsCurrent, HandsFull,
                              IdleIsRegistered, OnlyTasksClose, Workers
    <2>7. QED
      BY <2>4, <2>5, <2>6 DEF IInv, RegistryCore
  <1>3. ASSUME NEW c \in left, op' = [op EXCEPT ![t] = Ending(c)],
               rest' = [rest EXCEPT ![t] = left \ {c}]
        PROVE  IInv'
    <2>1. /\ op'[t].co = c /\ op'[t].at \in {"saving", "ending"}
          /\ op'[t] \in [at : {"saving", "ending"}, co : Coordinators]
          /\ \A v \in Workers \ {t} : op'[v] = op[v]
      BY <1>1, <1>3, EndingFacts DEF IInv, RegistryCore, TypeOK
    <2>2. rest'[t] = left \ {c} /\ \A v \in Workers \ {t} : rest'[v] = rest[v]
      BY <1>1, <1>3 DEF IInv, RegistryCore, TypeOK
    <2>3. \A d \in left, v \in Workers : op[v].co # d /\ d \notin rest[v]
      BY DEF IInv, RegistryCore, OneCustodian, Registered
    <2>4. TypeOK'
      BY <1>1, <1>3, <2>1 DEF Clear, IInv, RegistryCore, TypeOK
    <2>5. OneCustodian'
      <3>1. \A v, u \in Workers : op'[v].co = op'[u].co => v = u \/ op'[v].co = NoCoordinator
        BY <2>1, <2>3 DEF IInv, RegistryCore, OneCustodian
      <3>2. \A v, u \in Workers : op'[v].co \notin rest'[u]
        BY <1>1, <2>1, <2>2, <2>3 DEF IInv, RegistryCore, OneCustodian
      <3>3. \A v, u \in Workers : v # u => rest'[v] \cap rest'[u] = {}
        BY <1>1, <2>2, <2>3 DEF IInv, RegistryCore, OneCustodian
      <3>4. QED
        BY <1>1, <3>1, <3>2, <3>3 DEF OneCustodian, Registered
    <2>6. NoneForgotten'
      <3> SUFFICES ASSUME NEW d \in Coordinators
                   PROVE  InPlace(d)' <=> InPlace(d)
        BY <1>1 DEF NoneForgotten, InPlace, IInv, RegistryCore
      <3>1. CASE d \in left
        <4>1. InPlace(d)
          BY <3>1 DEF InPlace
        <4>2. InPlace(d)'
          BY <3>1, <1>1, <2>1, <2>2 DEF InPlace
        <4>3. QED
          BY <4>1, <4>2
      <3>2. CASE d \notin left
        <4>1. \A r \in Sessions : entry[r] # d /\ entry'[r] # d
          BY <3>2, <1>1 DEF Registered
        <4>2. \A v \in Workers : /\ op'[v].co = d <=> op[v].co = d
                                 /\ d \in rest'[v] <=> d \in rest[v]
          BY <3>2, <1>1, <2>1, <2>2
        <4>3. QED
          BY <4>1, <4>2 DEF InPlace
      <3>3. QED
        BY <3>1, <3>2
    <2>7. EvictionIsCurrent' /\ HandsFull'
      BY <1>1, <2>1, <2>2 DEF IInv, RegistryCore, TypeOK, EvictionIsCurrent, HandsFull, Workers
    <2>8. IdleIsRegistered' /\ OnlyTasksClose'
      BY <1>1, <2>2 DEF IInv, IdleIsRegistered, OnlyTasksClose, Workers
    <2>9. QED
      BY <2>4, <2>5, <2>6, <2>7, <2>8 DEF IInv, RegistryCore
  <1>4. QED
    BY <1>2, <1>3 DEF Clear

(* The sessions of S end in one step: their coordinators leave the map and   *)
(* are done with, nothing else moves.                                        *)
LEMMA EndAtOncePreserves ==
  ASSUME IInv, NEW S \in SUBSET Sessions, \A s \in S : Registered(s), EndAtOnce(S),
         stale = {}, lock = Nobody, op' \in [Workers -> [at : {"out", "saving", "ending",
                                                   "awaiting", "clearing"},
                                             co : Coordinators \cup {NoCoordinator}]],
         \A w \in Workers : op'[w] = op[w] \/ (op[w].co = NoCoordinator /\ op'[w] = Out),
         UNCHANGED <<store, closable, lock, stale, rest, maint>>
  PROVE  IInv'
  <1> USE RegistryAssumption
  <1>1. /\ \A s \in Sessions : entry'[s] = IF s \in S THEN NoCoordinator ELSE entry[s]
        /\ \A s \in Sessions : idle'[s] = (idle[s] /\ s \notin S)
        /\ \A c \in Coordinators :
             coord'[c] = IF \E s \in S : entry[s] = c THEN "failed" ELSE coord[c]
        /\ entry' \in [Sessions -> Coordinators \cup {NoCoordinator}]
        /\ idle' \in [Sessions -> BOOLEAN]
    BY DEF EndAtOnce, IInv, RegistryCore, TypeOK
  <1>2. TypeOK'
    BY <1>1 DEF EndAtOnce, IInv, RegistryCore, TypeOK
  <1>3. \A w \in Workers :
          /\ op'[w].co = op[w].co
          /\ op'[w].at \in {"saving", "ending"} <=> op[w].at \in {"saving", "ending"}
    BY DEF Out, IInv, HandsFull
  <1>4. OneCustodian'
    BY <1>1, <1>3 DEF IInv, RegistryCore, OneCustodian, Registered
  <1>5. NoneForgotten'
    <2> SUFFICES ASSUME NEW c \in Coordinators
                 PROVE  coord'[c] = "registered" <=> InPlace(c)'
      BY DEF NoneForgotten, InPlace
    <2>1. CASE \E s \in S : entry[s] = c
      <3>1. PICK s \in S : entry[s] = c
        BY <2>1
      <3>2. Registered(s)
        BY <3>1
      <3>3. \A r \in Sessions : entry'[r] # c
        BY <1>1, <3>1, <3>2 DEF IInv, RegistryCore, OneCustodian
      <3>4. \A w \in Workers : op'[w].co # c /\ c \notin rest'[w]
        BY <1>3, <3>1, <3>2 DEF IInv, RegistryCore, OneCustodian
      <3>5. QED
        BY <1>1, <2>1, <3>3, <3>4 DEF InPlace
    <2>2. CASE ~\E s \in S : entry[s] = c
      <3>1. \A r \in Sessions : entry'[r] = c <=> entry[r] = c
        BY <1>1, <2>2
      <3>2. coord[c] = "registered" <=> InPlace(c)
        BY DEF IInv, RegistryCore, NoneForgotten, InPlace
      <3>3. QED
        BY <1>1, <1>3, <2>2, <3>1, <3>2 DEF InPlace
    <2>3. QED
      BY <2>1, <2>2
  <1>6. EvictionIsCurrent'
    <2>1. lock' = Nobody /\ stale' = {} /\ Nobody \notin Workers
      BY DEF Workers
    <2>2. QED
      BY <2>1 DEF EvictionIsCurrent
  <1>7. HandsFull'
    BY <1>3 DEF IInv, HandsFull
  <1>8. IdleIsRegistered' /\ OnlyTasksClose'
    BY <1>1 DEF IInv, IdleIsRegistered, OnlyTasksClose, Registered
  <1>9. QED
    BY <1>2, <1>4, <1>5, <1>6, <1>7, <1>8 DEF IInv, RegistryCore

LEMMA AtOncePreserves ==
  ASSUME IInv,
         \/ \E w \in Workers : EvictAtOnce(w)
         \/ \E t \in Tasks : ClearAtOnce(t) \/ \E s \in Sessions : UnregisterAtOnce(t, s)
  PROVE  IInv'
  <1> USE RegistryAssumption
  <1>1. lock = Nobody => stale = {}
    BY DEF IInv, RegistryCore, EvictionIsCurrent
  <1>2. ASSUME NEW w \in Workers, EvictAtOnce(w)
        PROVE  IInv'
    <2>1. Stale \in SUBSET Sessions /\ \A s \in Stale : Registered(s)
      BY DEF Stale, IInv, IdleIsRegistered
    <2>2. op' = op /\ op \in [Workers -> [at : {"out", "saving", "ending", "awaiting", "clearing"},
                                         co : Coordinators \cup {NoCoordinator}]]
      BY <1>2 DEF EvictAtOnce, IInv, RegistryCore, TypeOK
    <2>3. QED
      BY <1>1, <1>2, <2>1, <2>2, EndAtOncePreserves DEF EvictAtOnce
  <1>3. ASSUME NEW t \in Tasks, ClearAtOnce(t)
        PROVE  IInv'
    <2> DEFINE S == {s \in Sessions : Registered(s)}
    <2>1. S \in SUBSET Sessions /\ (\A s \in S : Registered(s)) /\ t \in Workers
      BY DEF Workers
    <2>2. op[t].co = NoCoordinator
      BY <1>3, <2>1 DEF ClearAtOnce, IInv, HandsFull
    <2>3. op' = [op EXCEPT ![t] = Out]
      BY <1>3 DEF ClearAtOnce
    <2>4. /\ op' \in [Workers -> [at : {"out", "saving", "ending", "awaiting", "clearing"},
                                 co : Coordinators \cup {NoCoordinator}]]
          /\ \A w \in Workers : op'[w] = op[w] \/ (op[w].co = NoCoordinator /\ op'[w] = Out)
      BY <2>1, <2>2, <2>3 DEF IInv, RegistryCore, TypeOK, Out
    <2>5. EndAtOnce(S) /\ lock = Nobody /\ UNCHANGED <<store, closable, lock, stale, rest, maint>>
      BY <1>3 DEF ClearAtOnce
    <2> HIDE DEF S
    <2>6. QED
      BY <1>1, <2>1, <2>4, <2>5, EndAtOncePreserves
  <1>4. ASSUME NEW t \in Tasks, NEW s \in Sessions, UnregisterAtOnce(t, s)
        PROVE  IInv'
    <2>1. {s} \in SUBSET Sessions /\ \A r \in {s} : Registered(r)
      BY <1>4 DEF UnregisterAtOnce
    <2>2. op' = op /\ op \in [Workers -> [at : {"out", "saving", "ending", "awaiting", "clearing"},
                                         co : Coordinators \cup {NoCoordinator}]]
      BY <1>4 DEF UnregisterAtOnce, IInv, RegistryCore, TypeOK
    <2>3. QED
      BY <1>1, <1>4, <2>1, <2>2, EndAtOncePreserves DEF UnregisterAtOnce
  <1>5. QED
    BY <1>2, <1>3, <1>4

(* The steps that finalise are all beyond the point that fails at once.      *)
LEMMA NothingPreserves ==
  ASSUME IInv, NothingIsFinalised, [Next]_vars
  PROVE  NothingIsFinalised'
  <1> USE RegistryAssumption
  <1> SUFFICES ASSUME FailsAtOnce'
               PROVE  /\ \A c \in Coordinators : coord'[c] \notin {"closed", "interrupted"}
                      /\ lock' = Nobody /\ \A w \in Workers : op'[w].co = NoCoordinator
    BY DEF NothingIsFinalised
  <1>1. UNCHANGED <<store, closable>>
    BY DEF Next, vars, Touch, Age, Register, EvictionRound, Evict, EvictAtOnce, Finalise, Saved,
           EndFailed, Ended, Close, Clearing, Clear, ClearAtOnce, Unregister, UnregisterAtOnce,
           StartMaintenance, MaintenanceEnds
  <1>2. FailsAtOnce
    BY <1>1 DEF FailsAtOnce
  <1>3. /\ \A c \in Coordinators : coord[c] \notin {"closed", "interrupted"}
        /\ lock = Nobody /\ \A w \in Workers : op[w].co = NoCoordinator
    BY <1>2 DEF NothingIsFinalised
  <1>4. /\ coord \in [Coordinators -> {"new", "registered", "closed", "failed",
                                       "replaced", "interrupted"}]
        /\ op \in [Workers -> [at : {"out", "saving", "ending", "awaiting", "clearing"},
                               co : Coordinators \cup {NoCoordinator}]]
    BY DEF IInv, RegistryCore, TypeOK
  <1>5. \A w \in Workers : op[w].at \notin {"saving", "ending"}
    BY <1>3 DEF IInv, HandsFull
  <1>6. CASE \E s \in Sessions : Touch(s) \/ Age(s)
    BY <1>6, <1>3 DEF Touch, Age
  <1>7. CASE \E s \in Sessions, c \in Coordinators : Register(s, c)
    BY <1>7, <1>3, <1>4 DEF Register
  <1>8. CASE \E w \in Workers : EvictionRound(w) \/ Finalise(w)
    <2>1. PICK w \in Workers : EvictAtOnce(w)
      BY <1>8, <1>2, <1>5 DEF EvictionRound, Evict, Finalise, Saved, EndFailed, Ended
    <2>2. QED
      BY <2>1, <1>3, <1>4 DEF EvictAtOnce, EndAtOnce
  <1>9. CASE \E t \in Tasks : Close(t) \/ Clearing(t)
    <2>1. PICK t \in Tasks : Close(t) \/ ClearAtOnce(t)
      BY <1>9, <1>2 DEF Clearing, Clear
    <2>2. t \in Workers
      BY DEF Workers
    <2>3. CASE Close(t)
      BY <2>2, <2>3, <1>3, <1>4 DEF Close
    <2>4. CASE ClearAtOnce(t)
      BY <2>2, <2>4, <1>3, <1>4 DEF ClearAtOnce, EndAtOnce, Out
    <2>5. QED
      BY <2>1, <2>3, <2>4
  <1>10. CASE \E t \in Tasks, s \in Sessions : Unregister(t, s) \/ UnregisterAtOnce(t, s)
    <2>1. PICK t \in Tasks, s \in Sessions : UnregisterAtOnce(t, s)
      BY <1>10, <1>2 DEF Unregister
    <2>2. QED
      BY <2>1, <1>3, <1>4 DEF UnregisterAtOnce, EndAtOnce
  <1>11. CASE StartMaintenance
    BY <1>11, <1>3 DEF StartMaintenance
  <1>12. CASE MaintenanceEnds
    <2>1. op[Maintenance].co = NoCoordinator
      BY <1>3 DEF Workers
    <2>2. \A c \in Coordinators : coord'[c] = coord[c]
      BY <1>12, <2>1 DEF MaintenanceEnds
    <2>3. \A w \in Workers : op'[w].co = NoCoordinator
      BY <1>12, <1>3, <1>4 DEF MaintenanceEnds, Out
    <2>4. QED
      BY <1>12, <1>3, <2>2, <2>3 DEF MaintenanceEnds
  <1>13. CASE UNCHANGED vars
    BY <1>13, <1>3 DEF vars
  <1>14. QED
    BY <1>6, <1>7, <1>8, <1>9, <1>10, <1>11, <1>12, <1>13 DEF Next

------------------------------------------------------------------------------
(* Whatever the tasks do, and whenever saving and closing fail or the loop   *)
(* is cancelled: no coordinator is forgotten, none is finalised twice or     *)
(* while its session can be resolved, and evictions act on current data.     *)
(* With collaborators that lack what is asked of them, every end of a        *)
(* session is a failure, and no finalisation is ever seen under way.         *)
THEOREM RegistryInvariant == Spec => []RegistryInv
  <1>1. IInv /\ [Next]_vars => IInv'
    <2> SUFFICES ASSUME IInv, [Next]_vars
                 PROVE  IInv'
      OBVIOUS
    <2>1. CASE \E s \in Sessions : Touch(s) \/ Age(s)
      BY <2>1, TouchPreserves
    <2>2. CASE \E s \in Sessions, c \in Coordinators : Register(s, c)
      BY <2>2, RegisterPreserves
    <2>3. ASSUME NEW w \in Workers, EvictionRound(w)
          PROVE  IInv'
      BY <2>3, EvictPreserves, AtOncePreserves DEF EvictionRound
    <2>4. ASSUME NEW w \in Workers, Saved(w)
          PROVE  IInv'
      BY <2>4, SavedPreserves
    <2>5. ASSUME NEW w \in Workers, EndFailed(w)
          PROVE  IInv'
      BY <2>5, GoOnPreserves DEF EndFailed
    <2>6. ASSUME NEW w \in Workers, Ended(w)
          PROVE  IInv'
      BY <2>6, GoOnPreserves DEF Ended
    <2>7. ASSUME NEW t \in Tasks,
                 \/ Close(t) \/ Clearing(t)
                 \/ \E s \in Sessions : Unregister(t, s) \/ UnregisterAtOnce(t, s)
          PROVE  IInv'
      BY <2>7, ClosePreserves, ClearPreserves, UnregisterPreserves, AtOncePreserves DEF Clearing
    <2>8. CASE StartMaintenance
      BY <2>8, StartPreserves
    <2>9. CASE MaintenanceEnds
      BY <2>9, MaintenanceEndsPreserves
    <2>10. CASE UNCHANGED vars
      BY <2>10 DEF vars, IInv, RegistryCore, TypeOK, OneCustodian, NoneForgotten, EvictionIsCurrent,
                   HandsFull, IdleIsRegistered, OnlyTasksClose, Registered
    <2>11. QED
      BY <2>1, <2>2, <2>3, <2>4, <2>5, <2>6, <2>7, <2>8, <2>9, <2>10 DEF Next, Finalise
  <1>2. Init => NothingIsFinalised
    BY DEF Init, NothingIsFinalised, Out
  <1>3. IInv /\ NothingIsFinalised => RegistryInv
    BY DEF IInv, RegistryCore, RegistryInv
  <1>4. IInv /\ NothingIsFinalised /\ [Next]_vars => NothingIsFinalised'
    BY NothingPreserves
  <1>5. QED
    BY <1>1, <1>2, <1>3, <1>4, InitIInv, PTL DEF Spec


------------------------------------------------------------------------------
(* The engine *)

EngineStep(r) == \/ Begin(r) \/ Succeed(r) \/ BackoffEnds(r)
                 \/ Fail(r, "transient") \/ Fail(r, "permanent")

(* A call backs off only under a policy that retries. *)
EngineInv == /\ RetryBounded
             /\ \A r \in Calls : call[r].at = "backoff" => hook \notin {"graceful", "raises"}

LEMMA EngineInitial == EngineInit => EngineInv
BY RetryAssumption, SMTT(30)
DEF EngineInit, EngineInv, RetryBounded, EngineTypeOK, NoReport, ErrorType, HookKinds

(* What each decision of the hook says about the policy. *)
LEMMA Decisions ==
  ASSUME hook \in Hooks, NEW n \in 1..MaxAttempts, NEW e \in ErrorType,
         Decide(e, n) = "retry"
  PROVE  /\ e = "transient"
         /\ hook \notin {"graceful", "raises"}
         /\ n = MaxAttempts => hook = "none"
<1>1. CASE hook = "none" BY <1>1 DEF Decide, ErrorType
<1>2. CASE hook = "checkpoint" BY <1>2, RetryAssumption DEF Decide, ErrorType
<1>3. CASE hook = "checkpoint_0" BY <1>3, RetryAssumption DEF Decide, ErrorType
<1>4. CASE hook = "graceful" BY <1>4 DEF Decide, ErrorType
<1>5. CASE hook = "raises" BY <1>5 DEF Decide, ErrorType
<1> QED BY <1>1, <1>2, <1>3, <1>4, <1>5, RetryAssumption DEF HookKinds

LEMMA EngineStepInv ==
  ASSUME EngineInv, NEW r \in Calls, EngineStep(r)
  PROVE  EngineInv'
<1> USE RetryAssumption DEF EngineInv, RetryBounded, EngineTypeOK, ErrorType
<1>1. CASE Begin(r) BY <1>1 DEF Begin
<1>2. CASE Succeed(r) BY <1>2 DEF Succeed, Finish, Trying
<1>3. CASE BackoffEnds(r) BY <1>3 DEF BackoffEnds
<1>4. ASSUME NEW e \in ErrorType, Fail(r, e) PROVE EngineInv'
  <2>0. ASSUME Trying(r) PROVE call[r].attempt \in 1..MaxAttempts
    BY <2>0 DEF Trying
  <2>1. CASE GiveUp(r, e) BY <2>1, <2>0, <1>4 DEF GiveUp, Finish, Trying
  <2>2. CASE Repeat(r, e)
    <3>1. e = "transient" /\ hook \notin {"graceful", "raises"}
      BY <2>2, <2>0, <1>4, Decisions DEF Repeat
    <3> QED BY <2>2, <2>0, <3>1, <1>4 DEF Repeat, Trying
  <2>3. CASE Exhausted(r, e)
    <3>1. e = "transient" /\ hook = "none"
      BY <2>3, <2>0, <1>4, Decisions DEF Exhausted
    <3> QED BY <2>3, <2>0, <3>1, <1>4 DEF Exhausted, Finish, Trying
  <2> QED BY <1>4, <2>1, <2>2, <2>3 DEF Fail
<1> QED BY <1>1, <1>2, <1>3, <1>4 DEF EngineStep

------------------------------------------------------------------------------
(* The client *)

(* An attempt is on a connection that was made exactly while it waits for a  *)
(* line, and only a call that is trying has one under way.                   *)
Placed ==
  \A r \in Calls :
    /\ io[r].at = "waiting" <=> io[r].on # NoConn
    /\ io[r].on # NoConn => conn[io[r].on].st # "unused"
    /\ io[r].at # "none" => call[r].at = "trying"

(* Every step of the client is one of the engine, or none of its business. *)
LEMMA StepOfEngine ==
  UdsNext => (\E r \in Calls : EngineStep(r)) \/ UNCHANGED retryVars
<1> SUFFICES ASSUME UdsNext PROVE (\E r \in Calls : EngineStep(r)) \/ UNCHANGED retryVars
  OBVIOUS
<1>1. ASSUME NEW r \in Calls, Start(r) \/ Again(r)
      PROVE  EngineStep(r)
  BY <1>1 DEF Start, Again, EngineStep
<1>2. ASSUME NEW r \in Calls, Attempt(r)
      PROVE  EngineStep(r) \/ UNCHANGED retryVars
  BY <1>2 DEF Attempt, Send, SendClash, SendLost, StartConnect, NoSocket, Broken, EngineStep
<1>3. ASSUME NEW r \in Calls, Connect(r) \/ Receive(r)
      PROVE  EngineStep(r) \/ UNCHANGED retryVars
  BY <1>3 DEF Connect, ConnectFailed, Connected, Receive, Read, ReadEnd, ReadReset, Timeout,
              Broken, EngineStep
<1>4. CASE UdsClose \/ Serve
  BY <1>4 DEF UdsClose, StartClose, EndClose, CloseUnconnected, Serve
<1>5. ASSUME NEW k \in Conns, Answer(k) \/ AnswerError(k) \/ \E s \in ConnState : HangUp(k, s)
      PROVE  UNCHANGED retryVars
  BY <1>5 DEF Answer, AnswerError, HangUp
<1> QED BY <1>1, <1>2, <1>3, <1>4, <1>5 DEF UdsNext

LEMMA EngineInvPreserved == EngineInv /\ [UdsNext]_udsVars => EngineInv'
<1> SUFFICES ASSUME EngineInv, [UdsNext]_udsVars PROVE EngineInv' OBVIOUS
<1>1. CASE \E r \in Calls : EngineStep(r)
  BY <1>1, EngineStepInv
<1>2. CASE UNCHANGED retryVars
  BY <1>2 DEF retryVars, EngineInv, RetryBounded, EngineTypeOK
<1> QED BY <1>1, <1>2, StepOfEngine DEF udsVars, retryVars

(* The attempts are bounded, only transient errors are repeated and only     *)
(* under a policy that asks for it, and the report counts the repetitions    *)
(* (RetryEngine.execute_with_retry), for any policy and bound.               *)
THEOREM RetryIsBounded == UdsSpec => []RetryBounded
<1>1. UdsInit => EngineInv BY EngineInitial DEF UdsInit
<1>2. EngineInv => RetryBounded BY DEF EngineInv
<1> QED BY <1>1, <1>2, EngineInvPreserved, PTL DEF UdsSpec

------------------------------------------------------------------------------
(* What is under way on a connection, when a line or an answer moves *)

LEMMA AnswerMoves ==
  ASSUME NEW S, NEW a \in Seq(S), NEW w \in Seq(S), w # <<>>
  PROVE  /\ Append(a, Head(w)) \in Seq(S) /\ Tail(w) \in Seq(S)
         /\ Append(a, Head(w)) \o Tail(w) = a \o w
<1>1. Append(a, Head(w)) \in Seq(S) /\ Tail(w) \in Seq(S)
  OBVIOUS
<1>2. Len(Append(a, Head(w)) \o Tail(w)) = Len(a \o w)
  OBVIOUS
<1>3. \A i \in 1..Len(a \o w) : (Append(a, Head(w)) \o Tail(w))[i] = (a \o w)[i]
  OBVIOUS
<1> QED BY <1>1, <1>2, <1>3

LEMMA LineSent ==
  ASSUME NEW S, NEW a \in Seq(S), NEW w \in Seq(S), NEW x \in S, a \o w = <<>>
  PROVE  a \o Append(w, x) = <<x>>
<1>1. a = <<>> /\ w = <<>>
  OBVIOUS
<1> QED BY <1>1

LEMMA AnswerRead ==
  ASSUME NEW S, NEW a \in Seq(S), NEW w \in Seq(S), NEW x \in S,
         a # <<>>, a \o w = <<x>>
  PROVE  Head(a) = x /\ Tail(a) \o w = <<>>
<1>0. Len(a) > 0 /\ Len(a) \in Nat /\ Len(w) \in Nat
  OBVIOUS
<1>1. Len(a) = 1 /\ Len(w) = 0
  <2>1. Len(a) + Len(w) = 1
    BY Len(a \o w) = Len(<<x>>)
  <2>2. \A m, n \in Nat : m > 0 /\ m + n = 1 => m = 1 /\ n = 0
    OBVIOUS
  <2> QED BY <1>0, <2>1, <2>2
<1>2. a[1] = x
  BY <1>1, (a \o w)[1] = x
<1> QED BY <1>1, <1>2

------------------------------------------------------------------------------
(* What an error does to the calls *)
LEMMA FailFacts ==
  ASSUME EngineTypeOK, NEW r \in Calls, NEW e, Fail(r, e)
  PROVE  \A q \in Calls \ {r} : call'[q] = call[q]
BY DEF Fail, GiveUp, Repeat, Exhausted, Finish, EngineTypeOK

(* The connection an attempt leaves or joins *)
LEMMA OnAfter ==
  ASSUME UdsTypeOK, NEW r \in Calls, NEW place, NEW k, Go(r, place, k)
  PROVE  /\ io'[r] = [at |-> place, on |-> k]
         /\ \A q \in Calls \ {r} : io'[q] = io[q]
         /\ \A l : On(l)' = IF l = k THEN On(l) \cup {r} ELSE On(l) \ {r}
<1>1. /\ io'[r] = [at |-> place, on |-> k]
      /\ \A q \in Calls \ {r} : io'[q] = io[q]
  BY DEF Go, UdsTypeOK
<1> QED BY <1>1 DEF On

Own(k) ==
  conn[k].st = "open" =>
    \/ On(k) = {} /\ UnderWay(k) = <<>>
    \/ \E r \in Calls : On(k) = {r} /\ UnderWay(k) = <<r>>

LEMMA OwnIsOwn == OwnUnlessMixed <=> \A k \in Conns \ mixed : Own(k)
BY DEF OwnUnlessMixed, Own

(* A connection nobody touches stays as it is. *)
LEMMA Untouched ==
  ASSUME NEW k, Own(k), conn'[k] = conn[k], On(k)' = On(k)
  PROVE  Own(k)'
BY DEF Own, UnderWay, On

ClientPart == UdsTypeOK /\ OwnUnlessMixed /\ Placed

LEMMA BrokenPreserves ==
  ASSUME ClientPart, EngineTypeOK', NEW r \in Calls, NEW e, Broken(r, e),
         UNCHANGED current,
         \/ UNCHANGED conn
         \/ /\ io[r].on = NoConn
            /\ \E k \in Conns : /\ conn[k].st # "unused"
                                /\ conn' = [conn EXCEPT ![k].st = "closed"]
  PROVE  ClientPart'
<1> USE ConnAssumption
<1>1. Go(r, "none", NoConn)
  BY DEF Broken, Go, Idle
<1>2. /\ io'[r] = [at |-> "none", on |-> NoConn]
      /\ \A q \in Calls \ {r} : io'[q] = io[q]
      /\ \A l \in Conns : On(l)' = On(l) \ {r}
  BY <1>1, OnAfter DEF ClientPart
<1>3. UdsTypeOK'
  <2>1. conn' \in [Conns -> [st : ConnState, wire : Seq(Calls), replies : Seq(Calls)]]
    <3>1. ASSUME NEW k \in Conns, conn' = [conn EXCEPT ![k].st = "closed"]
          PROVE  conn' \in [Conns -> [st : ConnState, wire : Seq(Calls), replies : Seq(Calls)]]
      <4>1. conn \in [Conns -> [st : ConnState, wire : Seq(Calls), replies : Seq(Calls)]]
        BY DEF ClientPart, UdsTypeOK
      <4>2. [conn[k] EXCEPT !.st = "closed"] \in [st : ConnState, wire : Seq(Calls), replies : Seq(Calls)]
        BY <4>1, SMTT(20) DEF ConnState
      <4> QED BY <3>1, <4>1, <4>2
    <3> QED BY <3>1 DEF ClientPart, UdsTypeOK
  <2>2. io' \in [Calls -> [at : {"none", "connecting", "waiting"}, on : Conns \cup {NoConn}]]
    BY DEF ClientPart, UdsTypeOK, Broken, Idle
  <2>3. mixed' \subseteq Conns
    BY DEF ClientPart, UdsTypeOK, Broken
  <2> QED BY <2>1, <2>2, <2>3 DEF ClientPart, UdsTypeOK, Broken
<1>4. \A k \in Conns : conn'[k] = conn[k] \/ conn'[k].st = "closed"
  BY DEF ClientPart, UdsTypeOK
<1>5. OwnUnlessMixed'
  <2> SUFFICES ASSUME NEW k \in Conns, k \notin mixed'
               PROVE  Own(k)'
    BY DEF OwnUnlessMixed, Own
  <2>1. k \notin mixed /\ k # io[r].on
    BY DEF Broken
  <2>2. On(k)' = On(k)
    BY <1>2, <2>1 DEF On
  <2>3. CASE conn'[k] = conn[k]
    BY <2>1, <2>2, <2>3, Untouched, OwnIsOwn DEF ClientPart
  <2>4. CASE conn'[k].st = "closed"
    BY <2>4 DEF Own
  <2> QED BY <2>3, <2>4, <1>4
<1>6. Placed'
  <2>1. \A q \in Calls \ {r} : call'[q] = call[q]
    BY FailFacts DEF ClientPart, UdsTypeOK, Broken
  <2>2. \A k \in Conns : conn[k].st # "unused" => conn'[k].st # "unused"
    BY DEF ClientPart, UdsTypeOK
  <2>3. \A q \in Calls : io[q].on \in Conns \cup {NoConn}
    BY DEF ClientPart, UdsTypeOK
  <2> QED BY <1>2, <2>1, <2>2, <2>3 DEF ClientPart, Placed
<1> QED BY <1>3, <1>5, <1>6 DEF ClientPart

(* An action of r, which leaves no connection unused. *)
LEMMA PlacedAfter ==
  ASSUME ClientPart, NEW r \in Calls,
         \A q \in Calls \ {r} : io'[q] = io[q] /\ call'[q] = call[q],
         \A k \in Conns : conn[k].st # "unused" => conn'[k].st # "unused",
         io'[r].at = "waiting" <=> io'[r].on # NoConn,
         io'[r].on # NoConn => conn'[io'[r].on].st # "unused",
         io'[r].at # "none" => call'[r].at = "trying"
  PROVE  Placed'
<1>1. \A q \in Calls : io[q].on \in Conns \cup {NoConn}
  BY DEF ClientPart, UdsTypeOK
<1> QED BY <1>1 DEF ClientPart, Placed

(* A line is written on the current connection, by an attempt that is on     *)
(* none, and the read follows or clashes with that of another.               *)
LEMMA SendPreserves ==
  ASSUME ClientPart, EngineTypeOK', NEW r \in Calls, Send(r) \/ SendClash(r)
  PROVE  ClientPart'
<1> USE ConnAssumption
<1> DEFINE k == current
<1>1. /\ k \in Conns /\ conn[k].st = "open"
      /\ conn[k].wire \in Seq(Calls) /\ conn[k].replies \in Seq(Calls)
  BY DEF Send, SendClash, Usable, Dry, ClientPart, UdsTypeOK
<1>2. /\ conn'[k].st = "open" /\ conn'[k].replies = conn[k].replies
      /\ conn'[k].wire = Append(conn[k].wire, r)
      /\ \A l \in Conns \ {k} : conn'[l] = conn[l]
      /\ conn' \in [Conns -> [st : ConnState, wire : Seq(Calls), replies : Seq(Calls)]]
  <2>1. /\ conn \in [Conns -> [st : ConnState, wire : Seq(Calls), replies : Seq(Calls)]]
        /\ conn' = [conn EXCEPT ![k].wire = Append(@, r)]
    BY DEF ClientPart, UdsTypeOK, Send, SendClash
  <2>2. Append(conn[k].wire, r) \in Seq(Calls)
    BY <1>1
  <2> HIDE DEF k
  <2>3. [conn[k] EXCEPT !.wire = Append(@, r)] \in [st : ConnState, wire : Seq(Calls), replies : Seq(Calls)]
    BY <1>1, <2>1, <2>2
  <2> QED BY <1>1, <2>1, <2>3
<1>3. CASE Send(r)
  <2>1. Go(r, "waiting", k) /\ UNCHANGED <<retryVars, current, closing, path, answer>>
    BY <1>3 DEF Send
  <2>2. /\ io'[r] = [at |-> "waiting", on |-> k]
        /\ \A q \in Calls \ {r} : io'[q] = io[q]
        /\ \A l : On(l)' = IF l = k THEN On(l) \cup {r} ELSE On(l) \ {r}
    BY <2>1, OnAfter DEF ClientPart
  <2>3. \A l \in Conns : r \notin On(l)
    BY <1>3 DEF Send, Attempting, On, ClientPart, Placed
  <2>4. UdsTypeOK'
    BY <1>1, <1>2, <1>3, <2>1 DEF ClientPart, UdsTypeOK, Send, Go
  <2>5. OwnUnlessMixed'
    <3> SUFFICES ASSUME NEW l \in Conns, l \notin mixed'
                 PROVE  Own(l)'
      BY DEF OwnUnlessMixed, Own
    <3>0. l \notin mixed /\ Own(l)
      BY <1>3, OwnIsOwn DEF Send, ClientPart
    <3>1. CASE l # k
      BY <3>0, <3>1, <1>2, <2>2, <2>3, Untouched
    <3>2. CASE l = k
      <4>1. On(k) = {} /\ UnderWay(k) = <<>>
        BY <3>0, <3>2, <1>1, <1>3 DEF Send, Own
      <4>2. conn[k].replies \o Append(conn[k].wire, r) = <<r>>
        BY <4>1, <1>1, LineSent DEF UnderWay
      <4>3. On(l)' = {r}
        BY <3>2, <4>1, <2>2
      <4>4. UnderWay(l)' = <<r>>
        BY <3>2, <4>2, <1>2 DEF UnderWay
      <4> QED BY <4>3, <4>4 DEF Own
    <3> QED BY <3>1, <3>2
  <2>6. Placed'
    <3>1. call' = call /\ call[r].at = "trying"
      BY <1>3, <2>1 DEF Send, Attempting, Trying, retryVars
    <3>2. \A l \in Conns : conn[l].st # "unused" => conn'[l].st # "unused"
      BY <1>2
    <3>3. io'[r].at = "waiting" /\ io'[r].on = k /\ k # NoConn
      BY <1>1, <2>2
    <3> QED BY <1>1, <1>2, <2>2, <3>1, <3>2, <3>3, PlacedAfter
  <2> QED BY <2>4, <2>5, <2>6 DEF ClientPart
<1>4. CASE SendClash(r)
  <2>1. UdsTypeOK'
    BY <1>1, <1>2, <1>4 DEF ClientPart, UdsTypeOK, SendClash
  <2>2. OwnUnlessMixed'
    <3> SUFFICES ASSUME NEW l \in Conns, l \notin mixed'
                 PROVE  Own(l)'
      BY DEF OwnUnlessMixed, Own
    <3>1. l \notin mixed /\ l # k
      BY <1>4 DEF SendClash
    <3>2. On(l)' = On(l)
      BY <1>4 DEF SendClash, On
    <3> QED BY <1>2, <3>1, <3>2, Untouched, OwnIsOwn DEF ClientPart
  <2>3. Placed'
    <3>1. \A q \in Calls \ {r} : call'[q] = call[q]
      BY <1>4, FailFacts DEF ClientPart, UdsTypeOK, SendClash
    <3>2. io' = io /\ io[r].at = "none" /\ io[r].on = NoConn
      BY <1>4 DEF SendClash, Attempting, ClientPart, Placed
    <3>3. \A l \in Conns : conn[l].st # "unused" => conn'[l].st # "unused"
      BY <1>2
    <3> QED BY <3>1, <3>2, <3>3, PlacedAfter
  <2> QED BY <2>1, <2>2, <2>3 DEF ClientPart
<1> QED BY <1>3, <1>4

(* A fresh connection carries the line of the attempt that made it. *)
LEMMA ConnectPreserves ==
  ASSUME ClientPart, EngineTypeOK', NEW r \in Calls,
         StartConnect(r) \/ \E k \in Conns : Connected(r, k)
  PROVE  ClientPart'
<1> USE ConnAssumption
<1>1. CASE StartConnect(r)
  <2>1. /\ io'[r] = [at |-> "connecting", on |-> NoConn]
        /\ \A q \in Calls \ {r} : io'[q] = io[q]
        /\ \A l : On(l)' = IF l = NoConn THEN On(l) \cup {r} ELSE On(l) \ {r}
    BY <1>1, OnAfter DEF ClientPart, StartConnect
  <2>2. \A l \in Conns : r \notin On(l)
    BY <1>1 DEF StartConnect, Attempting, On, ClientPart, Placed
  <2>3. UdsTypeOK'
    BY <1>1 DEF ClientPart, UdsTypeOK, StartConnect, Go
  <2>4. OwnUnlessMixed'
    <3> SUFFICES ASSUME NEW l \in Conns, l \notin mixed'
                 PROVE  Own(l)'
      BY DEF OwnUnlessMixed, Own
    <3> QED BY <1>1, <2>1, <2>2, Untouched, OwnIsOwn DEF ClientPart, StartConnect
  <2>5. Placed'
    BY <1>1, <2>1 DEF ClientPart, Placed, StartConnect, Attempting, Trying, retryVars
  <2> QED BY <2>3, <2>4, <2>5 DEF ClientPart
<1>2. ASSUME NEW k \in Conns, Connected(r, k)
      PROVE  ClientPart'
  <2> DEFINE fresh == [st |-> "open", wire |-> <<r>>, replies |-> <<>>]
  <2>1. /\ io'[r] = [at |-> "waiting", on |-> k]
        /\ \A q \in Calls \ {r} : io'[q] = io[q]
        /\ \A l : On(l)' = IF l = k THEN On(l) \cup {r} ELSE On(l) \ {r}
    BY <1>2, OnAfter DEF ClientPart, Connected
  <2>2. /\ conn'[k] = fresh
        /\ \A l \in Conns \ {k} : conn'[l] = conn[l]
    BY <1>2 DEF Connected, ClientPart, UdsTypeOK
  <2>3. fresh \in [st : ConnState, wire : Seq(Calls), replies : Seq(Calls)]
    BY DEF ConnState
  <2>4. conn' \in [Conns -> [st : ConnState, wire : Seq(Calls), replies : Seq(Calls)]]
    <3> HIDE DEF fresh
    <3>1. conn' = [conn EXCEPT ![k] = fresh]
      BY <1>2 DEF Connected, fresh
    <3> QED BY <2>3, <3>1 DEF ClientPart, UdsTypeOK
  <2>5. UdsTypeOK'
    BY <1>2, <2>4 DEF ClientPart, UdsTypeOK, Connected, Go
  <2>6. \A l \in Conns : r \notin On(l)
    BY <1>2 DEF Connected, Attempting, On, ClientPart, Placed
  <2>7. On(k) = {}
    BY <1>2 DEF Connected, On, ClientPart, Placed
  <2>8. OwnUnlessMixed'
    <3> SUFFICES ASSUME NEW l \in Conns, l \notin mixed'
                 PROVE  Own(l)'
      BY DEF OwnUnlessMixed, Own
    <3>1. CASE l # k
      BY <3>1, <1>2, <2>1, <2>2, <2>6, Untouched, OwnIsOwn DEF ClientPart, Connected
    <3>2. CASE l = k
      <4>1. On(l)' = {r}
        BY <3>2, <2>1, <2>7
      <4>2. <<>> \o <<r>> = <<r>>
        OBVIOUS
      <4>3. UnderWay(l)' = <<r>>
        BY <3>2, <2>2, <4>2 DEF UnderWay
      <4> QED BY <4>1, <4>3 DEF Own
    <3> QED BY <3>1, <3>2
  <2>9. Placed'
    <3>1. call' = call /\ call[r].at = "trying"
      BY <1>2 DEF Connected, Attempting, Trying, retryVars
    <3>2. conn'[k].st = "open" /\ \A l \in Conns : conn[l].st # "unused" => conn'[l].st # "unused"
      BY <2>2
    <3>3. io'[r].at = "waiting" /\ io'[r].on = k /\ k # NoConn
      BY <2>1
    <3> QED BY <2>1, <3>1, <3>2, <3>3, PlacedAfter
  <2> QED BY <2>5, <2>8, <2>9 DEF ClientPart
<1> QED BY <1>1, <1>2

(* Reading the answer that is next *)
LEMMA ReadPreserves ==
  ASSUME ClientPart, EngineTypeOK', NEW r \in Calls, Read(r)
  PROVE  ClientPart'
<1> USE ConnAssumption
<1> DEFINE k == io[r].on
<1>1. /\ k \in Conns
      /\ conn[k].wire \in Seq(Calls) /\ conn[k].replies \in Seq(Calls)
      /\ conn[k].replies # <<>>
  BY DEF Read, Attempting, ClientPart, Placed, UdsTypeOK
<1>2. Head(conn[k].replies) \in Calls /\ Tail(conn[k].replies) \in Seq(Calls)
  BY <1>1
<1>3. /\ conn'[k].st = conn[k].st /\ conn'[k].wire = conn[k].wire
      /\ conn'[k].replies = Tail(conn[k].replies)
      /\ \A l \in Conns \ {k} : conn'[l] = conn[l]
      /\ conn' \in [Conns -> [st : ConnState, wire : Seq(Calls), replies : Seq(Calls)]]
  <2>1. /\ conn \in [Conns -> [st : ConnState, wire : Seq(Calls), replies : Seq(Calls)]]
        /\ conn' = [conn EXCEPT ![k].replies = Tail(@)]
    BY DEF ClientPart, UdsTypeOK, Read
  <2> HIDE DEF k
  <2>2. [conn[k] EXCEPT !.replies = Tail(@)] \in [st : ConnState, wire : Seq(Calls), replies : Seq(Calls)]
    BY <1>1, <1>2, <2>1
  <2> QED BY <1>1, <2>1, <2>2
<1>4. /\ io'[r] = [at |-> "none", on |-> NoConn]
      /\ \A q \in Calls \ {r} : io'[q] = io[q]
      /\ \A l : On(l)' = IF l = NoConn THEN On(l) \cup {r} ELSE On(l) \ {r}
  <2>1. Go(r, "none", NoConn)
    BY DEF Read, Go, Idle
  <2> QED BY <2>1, OnAfter DEF ClientPart
<1>5. UdsTypeOK'
  <2>1. answer' \in [Calls -> Calls]
    BY <1>2 DEF Read, ClientPart, UdsTypeOK
  <2>2. io' \in [Calls -> [at : {"none", "connecting", "waiting"}, on : Conns \cup {NoConn}]]
    BY DEF Read, ClientPart, UdsTypeOK, Idle
  <2> QED BY <1>3, <2>1, <2>2 DEF Read, ClientPart, UdsTypeOK
<1>6. OwnUnlessMixed'
  <2> SUFFICES ASSUME NEW l \in Conns, l \notin mixed'
               PROVE  Own(l)'
    BY DEF OwnUnlessMixed, Own
  <2>1. Own(l) /\ l # NoConn
    BY OwnIsOwn DEF Read, ClientPart
  <2>2. CASE l # k
    <3>1. On(l)' = On(l)
      BY <1>4, <2>1, <2>2 DEF On
    <3> QED BY <1>3, <2>1, <2>2, <3>1, Untouched
  <2>3. CASE l = k
    <3> SUFFICES ASSUME conn[k].st = "open"
                 PROVE  On(l)' = {} /\ UnderWay(l)' = <<>>
      BY <2>3, <1>3 DEF Own
    <3>1. r \in On(k)
      BY DEF On
    <3>2. PICK q \in Calls : On(k) = {q} /\ UnderWay(k) = <<q>>
      BY <2>1, <2>3, <3>1 DEF Own
    <3>3. On(l)' = {}
      BY <1>4, <2>1, <2>3, <3>1, <3>2
    <3>4. Tail(conn[k].replies) \o conn[k].wire = <<>>
      BY <1>1, <3>2, AnswerRead DEF UnderWay
    <3>5. UnderWay(l)' = <<>>
      BY <1>3, <3>4, <2>3 DEF UnderWay
    <3> QED BY <3>3, <3>5
  <2> QED BY <2>2, <2>3
<1>7. Placed'
  <2>1. \A q \in Calls \ {r} : call'[q] = call[q]
    BY DEF Read, Succeed, Finish, ClientPart, UdsTypeOK, EngineTypeOK
  <2>2. \A l \in Conns : conn[l].st # "unused" => conn'[l].st # "unused"
    BY <1>3
  <2> QED BY <1>4, <2>1, <2>2, PlacedAfter
<1> QED BY <1>5, <1>6, <1>7 DEF ClientPart

(* The server, and close() *)
LEMMA OthersPreserve ==
  ASSUME ClientPart, EngineTypeOK',
         \/ UdsClose \/ Serve
         \/ \E k \in Conns : Answer(k) \/ AnswerError(k) \/ \E s \in ConnState : HangUp(k, s)
  PROVE  ClientPart'
<1> USE ConnAssumption
<1> DEFINE ConnType == [Conns -> [st : ConnState, wire : Seq(Calls), replies : Seq(Calls)]]
<1>0. conn \in ConnType /\ current \in Conns \cup {NoConn}
  BY DEF ClientPart, UdsTypeOK
<1>1. UNCHANGED <<retryVars, io, answer, mixed>>
  BY DEF UdsClose, StartClose, EndClose, CloseUnconnected, Serve, Answer, AnswerError, HangUp
<1>2. ASSUME conn' \in ConnType,
             current' \in Conns \cup {NoConn}, closing' \in Conns \cup {NoConn}, path' \in BOOLEAN,
             \A l \in Conns : \/ conn'[l] = conn[l]
                              \/ conn'[l].st \notin {"unused", "open"}
                              \/ /\ conn'[l].st = "open" /\ conn[l].st = "open"
                                 /\ UnderWay(l)' = UnderWay(l)
      PROVE  ClientPart'
  <2>1. UdsTypeOK'
    BY <1>1, <1>2 DEF ClientPart, UdsTypeOK, retryVars
  <2>2. OwnUnlessMixed'
    <3> SUFFICES ASSUME NEW l \in Conns, l \notin mixed'
                 PROVE  Own(l)'
      BY DEF OwnUnlessMixed, Own
    <3>1. Own(l) /\ On(l)' = On(l)
      BY <1>1, OwnIsOwn DEF ClientPart, On
    <3>2. CASE conn'[l] = conn[l]
      BY <3>1, <3>2, Untouched
    <3>3. CASE conn'[l].st \notin {"unused", "open"}
      BY <3>3 DEF Own
    <3>4. CASE conn[l].st = "open" /\ UnderWay(l)' = UnderWay(l)
      BY <3>1, <3>4 DEF Own
    <3> QED BY <3>2, <3>3, <3>4, <1>2
  <2>3. Placed'
    BY <1>1, <1>2, ZenonT(40) DEF ClientPart, UdsTypeOK, Placed, retryVars
  <2> QED BY <2>1, <2>2, <2>3 DEF ClientPart
<1>3. CASE EndClose \/ CloseUnconnected \/ Serve
  BY <1>0, <1>2, <1>3 DEF EndClose, CloseUnconnected, Serve, ClientPart, UdsTypeOK
<1>4. CASE StartClose
  <2>1. current \in Conns
    BY <1>0, <1>4 DEF StartClose, Usable
  <2>2. /\ conn' \in ConnType /\ conn'[current].st = "closed"
        /\ \A l \in Conns \ {current} : conn'[l] = conn[l]
    <3>1. <<>> \in Seq(Calls) /\ "closed" \in ConnState
      BY DEF ConnState
    <3>3. conn' = [conn EXCEPT ![current] = [st |-> "closed", wire |-> <<>>,
                                             replies |-> conn[current].replies]]
      BY <1>4 DEF StartClose
    <3>4. conn[current].replies \in Seq(Calls)
      BY <1>0, <2>1
    <3> QED BY <1>0, <2>1, <3>1, <3>3, <3>4
  <2> QED BY <1>0, <1>2, <1>4, <2>1, <2>2 DEF StartClose, ClientPart, UdsTypeOK
<1>5. ASSUME NEW k \in Conns, Answer(k)
      PROVE  ClientPart'
  <2>1. conn[k].wire \in Seq(Calls) /\ conn[k].replies \in Seq(Calls) /\ conn[k].wire # <<>>
    BY <1>0, <1>5 DEF Answer
  <2>2. /\ Append(conn[k].replies, Head(conn[k].wire)) \in Seq(Calls)
        /\ Tail(conn[k].wire) \in Seq(Calls)
        /\ Append(conn[k].replies, Head(conn[k].wire)) \o Tail(conn[k].wire)
             = conn[k].replies \o conn[k].wire
    BY <2>1, AnswerMoves
  <2>3. /\ conn'[k] = [st |-> "open", wire |-> Tail(conn[k].wire),
                       replies |-> Append(conn[k].replies, Head(conn[k].wire))]
        /\ \A l \in Conns \ {k} : conn'[l] = conn[l]
    BY <1>0, <1>5 DEF Answer
  <2>4. conn' \in ConnType
    BY <1>0, <1>5, <2>2, SMTT(20) DEF Answer
  <2>5. UnderWay(k)' = UnderWay(k) /\ conn[k].st = "open"
    <3>1. /\ conn'[k].wire = Tail(conn[k].wire)
          /\ conn'[k].replies = Append(conn[k].replies, Head(conn[k].wire))
      BY <2>3
    <3> QED BY <1>5, <2>2, <3>1 DEF UnderWay, Answer
  <2> QED BY <1>0, <1>2, <1>5, <2>3, <2>4, <2>5 DEF Answer, ClientPart, UdsTypeOK
<1>6. ASSUME NEW k \in Conns, AnswerError(k)
      PROVE  ClientPart'
  <2>1. Append(conn[k].replies, Head(conn[k].wire)) \in Seq(Calls) /\ <<>> \in Seq(Calls)
    BY <1>0, <1>6 DEF AnswerError
  <2>2. /\ conn' \in ConnType /\ conn'[k].st = "eof"
        /\ \A l \in Conns \ {k} : conn'[l] = conn[l]
    BY <1>0, <1>6, <2>1 DEF AnswerError, ConnState
  <2> QED BY <1>0, <1>2, <1>6, <2>2 DEF AnswerError, ClientPart, UdsTypeOK
<1>7. ASSUME NEW k \in Conns, NEW s \in ConnState, HangUp(k, s)
      PROVE  ClientPart'
  <2>1. /\ conn' \in ConnType /\ conn'[k].st = s
        /\ \A l \in Conns \ {k} : conn'[l] = conn[l]
    BY <1>0, <1>7 DEF HangUp
  <2> QED BY <1>0, <1>2, <1>7, <2>1 DEF HangUp, ClientPart, UdsTypeOK
<1> QED BY <1>3, <1>4, <1>5, <1>6, <1>7 DEF UdsClose

LEMMA ClientInitial == UdsInit => ClientPart
<1> SUFFICES ASSUME UdsInit PROVE ClientPart OBVIOUS
<1>1. UdsTypeOK
  <2>1. EngineTypeOK
    BY EngineInitial DEF UdsInit, EngineInv, RetryBounded
  <2>2. <<>> \in Seq(Calls)
    OBVIOUS
  <2> QED BY <2>1, <2>2 DEF UdsInit, UdsTypeOK, Idle, ConnState
<1>2. OwnUnlessMixed /\ Placed
  BY DEF UdsInit, OwnUnlessMixed, Placed, Idle
<1> QED BY <1>1, <1>2 DEF ClientPart

LEMMA ClientUnchanged ==
  ASSUME EngineTypeOK', UdsTypeOK, OwnUnlessMixed, UNCHANGED clientVars
  PROVE  UdsTypeOK' /\ OwnUnlessMixed'
<1>1. UdsTypeOK'
  BY DEF UdsTypeOK, clientVars
<1>2. \A k \in Conns : On(k)' = On(k) /\ UnderWay(k)' = UnderWay(k)
  BY DEF On, UnderWay, clientVars
<1>3. OwnUnlessMixed'
  BY <1>2 DEF OwnUnlessMixed, clientVars
<1> QED BY <1>1, <1>3

LEMMA ClientPreserved == EngineTypeOK' /\ ClientPart /\ [UdsNext]_udsVars => ClientPart'
<1> SUFFICES ASSUME EngineTypeOK', ClientPart, [UdsNext]_udsVars PROVE ClientPart' OBVIOUS
<1>1. ASSUME NEW r \in Calls, Start(r) \/ Again(r) PROVE ClientPart'
  <2>1. /\ UNCHANGED clientVars
        /\ call[r].at \in {"idle", "backoff"}
        /\ \A q \in Calls \ {r} : call'[q] = call[q]
    BY <1>1 DEF Start, Again, Begin, BackoffEnds, ClientPart, UdsTypeOK, EngineTypeOK
  <2>2. io[r].at = "none" /\ io[r].on = NoConn
    BY <2>1 DEF ClientPart, Placed, UdsTypeOK
  <2>3. UdsTypeOK' /\ OwnUnlessMixed'
    BY <2>1, ClientUnchanged DEF ClientPart
  <2>4. Placed'
    BY <2>1, <2>2, PlacedAfter DEF clientVars
  <2> QED BY <2>3, <2>4 DEF ClientPart
<1>2. ASSUME NEW r \in Calls, SendLost(r) \/ NoSocket(r) PROVE ClientPart'
  <2>1. CASE SendLost(r)
    <3>1. io[r].on = NoConn /\ current \in Conns /\ conn[current].st # "unused"
      BY <2>1 DEF SendLost, Attempting, Usable, ClientPart, Placed, UdsTypeOK
    <3> QED BY <2>1, <3>1, BrokenPreserves DEF SendLost
  <2>2. CASE NoSocket(r)
    BY <2>2, BrokenPreserves DEF NoSocket
  <2> QED BY <1>2, <2>1, <2>2
<1>3. ASSUME NEW r \in Calls, ConnectFailed(r) \/ ReadEnd(r) \/ ReadReset(r) \/ Timeout(r)
      PROVE  ClientPart'
  BY <1>3, BrokenPreserves DEF ConnectFailed, ReadEnd, ReadReset, Timeout
<1>4. ASSUME NEW r \in Calls, Attempt(r) \/ Connect(r) \/ Receive(r) PROVE ClientPart'
  BY <1>2, <1>3, <1>4, SendPreserves, ConnectPreserves, ReadPreserves
     DEF Attempt, Connect, Receive
<1>5. CASE UNCHANGED udsVars
  <2>1. UdsTypeOK' /\ OwnUnlessMixed'
    BY <1>5, ClientUnchanged DEF udsVars, clientVars, ClientPart
  <2>2. Placed'
    BY <1>5 DEF udsVars, ClientPart, Placed
  <2> QED BY <2>1, <2>2 DEF ClientPart
<1> QED BY <1>1, <1>4, <1>5, OthersPreserve DEF UdsNext

(* A connection that no attempt gave up and no two attempts shared carries   *)
(* the line or the answer of the one call that waits for it and nothing else *)
(* (UDSTransporter._do_send), for any calls, connections and policies.       *)
THEOREM ClientInvariant == UdsSpec => []ClientInv
<1>1. UdsInit => EngineInv /\ ClientPart
  BY EngineInitial, ClientInitial DEF UdsInit
<1>2. EngineInv => EngineTypeOK
  BY DEF EngineInv, RetryBounded
<1>3. EngineInv' => EngineTypeOK'
  BY DEF EngineInv, RetryBounded
<1>4. ClientPart => ClientInv
  BY DEF ClientPart, ClientInv
<1> QED BY <1>1, <1>3, <1>4, EngineInvPreserved, ClientPreserved, PTL DEF UdsSpec
=============================================================================
