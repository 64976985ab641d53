------------------------------- MODULE StoreProofs -------------------------------
(***************************************************************************)
(* Proofs about what is kept and found again: the session in an external   *)
(* store or in this process, and the names, services and turns that the    *)
(* network layer remembers.  Each part that MCStore runs has an inductive  *)
(* invariant of its own, which the steps of the others leave alone.        *)
(***************************************************************************)
EXTENDS MCStore, Sequences, FiniteSetTheorems, TLAPS

------------------------------------------------------------------------------
(* The session in a store.  A checkpoint outlives the pointer to it by what *)
(* a call may take, counted from where each call stands; a checkpoint whose *)
(* pointer is yet to be written is in the hands of one call; and a call that *)
(* began when no session was active has read none.                          *)
KeyTypes ==
  /\ state \in [status : {"absent", "active", "closed"}, left : Nat]
  /\ data \in [Checkpoints -> Nat]
  /\ latest \in Checkpoints \union {NoCheckpoint} /\ left \in Nat
  /\ marked \subseteq Checkpoints
  /\ at \in [Clients -> N!Calls \union N!Ends]
  /\ read \in [Clients -> {"absent", "active", "closed"}]
  /\ answer \in [Clients -> Checkpoints \union {NoCheckpoint, "nothing"}]
  /\ wait \in [Clients -> 0 .. MaxDelay] /\ late \in [Clients -> BOOLEAN]

PointerHeld ==
  latest # NoCheckpoint => left > 0 /\ data[latest] + LatestTTL + MaxDelay >= left + CheckpointTTL

MarkingHeld ==
  \A c \in Clients : at[c] = "mark_latest" =>
    /\ answer[c] \in Checkpoints \ marked /\ data[answer[c]] + wait[c] >= CheckpointTTL
    /\ \A d \in Clients : at[d] = "mark_latest" /\ answer[d] = answer[c] => d = c

AskingHeld ==
  \A c \in Clients : at[c] = "data_get" =>
    answer[c] \in Checkpoints /\ data[answer[c]] + wait[c] + LatestTTL + MaxDelay > CheckpointTTL

LateReads ==
  \A c \in Clients :
    late[c] => state.status # "active" /\ (at[c] = "refresh_set" => read[c] # "active")

KeysInv == KeyTypes /\ PointerHeld /\ MarkingHeld /\ AskingHeld /\ LateReads

LEMMA KeysInit == N!Init => KeysInv
  <1> SUFFICES ASSUME N!Init PROVE KeysInv
    OBVIOUS
  <1> USE StoreAssumption DEF N!Init
  <1>1. KeyTypes
    BY DEF KeyTypes, N!Calls, N!Ends
  <1>2. PointerHeld /\ MarkingHeld /\ AskingHeld
    BY DEF PointerHeld, MarkingHeld, AskingHeld
  <1>3. LateReads
    <2>1. \A c \in Clients : ~late[c]
      BY DEF N!Init
    <2> QED
      BY <2>1 DEF LateReads
  <1> QED
    BY <1>1, <1>2, <1>3 DEF KeysInv

(* A call that goes on: where it stands is what the others' part of the     *)
(* invariant does not depend on.                                            *)
LEMMA KeysStep == KeysInv /\ N!Next => KeysInv'
  <1> SUFFICES ASSUME KeysInv, N!Next PROVE KeysInv'
    OBVIOUS
  <1> USE StoreAssumption
  <1>t. KeyTypes /\ PointerHeld /\ MarkingHeld /\ AskingHeld /\ LateReads
    BY DEF KeysInv
  <1>1. ASSUME NEW c \in Clients, N!Begin(c) PROVE KeysInv'
    <2>1. KeyTypes' /\ PointerHeld' /\ MarkingHeld' /\ AskingHeld'
      BY <1>t, <1>1 DEF N!Begin, N!Goto, N!Calls, N!Ends, KeyTypes, PointerHeld, MarkingHeld, AskingHeld
    <2>2. LateReads'
      <3>1. /\ state' = state /\ read' = [read EXCEPT ![c] = "absent"]
            /\ \A d \in Clients : d # c => at'[d] = at[d]
        BY <1>t, <1>1 DEF N!Begin, N!Goto, KeyTypes
      <3>2. late' = [late EXCEPT ![c] = state.status # "active"] /\ late \in [Clients -> BOOLEAN]
        BY <1>t, <1>1 DEF N!Begin, KeyTypes
      <3>3. \A d \in Clients : late'[d] => (d = c /\ state.status # "active") \/ (d # c /\ late[d])
        BY <3>2
      <3>4. read'[c] # "active" /\ \A d \in Clients : d # c => read'[d] = read[d]
        BY <1>t, <3>1 DEF KeyTypes
      <3> QED
        BY <1>t, <3>1, <3>3, <3>4 DEF LateReads
    <2> QED
      BY <2>1, <2>2 DEF KeysInv
  <1>2. ASSUME NEW c \in Clients, N!CloseGet(c) PROVE KeysInv'
    <2>1. KeyTypes' /\ PointerHeld' /\ MarkingHeld' /\ AskingHeld'
      BY <1>t, <1>2 DEF N!CloseGet, N!Goto, N!Calls, N!Ends, KeyTypes, PointerHeld, MarkingHeld, AskingHeld
    <2>2. LateReads'
      BY <1>t, <1>2 DEF N!CloseGet, N!Goto, KeyTypes, LateReads
    <2> QED
      BY <2>1, <2>2 DEF KeysInv
  <1>3. ASSUME NEW c \in Clients, N!CloseSet(c) PROVE KeysInv'
    <2>1. KeyTypes' /\ PointerHeld' /\ MarkingHeld' /\ AskingHeld'
      BY <1>t, <1>3 DEF N!CloseSet, N!Goto, N!Calls, N!Ends, KeyTypes, PointerHeld, MarkingHeld, AskingHeld
    <2>2. LateReads'
      BY <1>t, <1>3 DEF N!CloseSet, N!Goto, KeyTypes, LateReads
    <2> QED
      BY <2>1, <2>2 DEF KeysInv
  <1>4. ASSUME NEW c \in Clients, N!RefreshGet(c) PROVE KeysInv'
    <2>1. KeyTypes' /\ PointerHeld' /\ MarkingHeld' /\ AskingHeld'
      BY <1>t, <1>4 DEF N!RefreshGet, N!Goto, N!Calls, N!Ends, KeyTypes, PointerHeld, MarkingHeld, AskingHeld
    <2>2. LateReads'
      BY <1>t, <1>4 DEF N!RefreshGet, N!Goto, KeyTypes, LateReads
    <2> QED
      BY <2>1, <2>2 DEF KeysInv
  <1>5. ASSUME NEW c \in Clients, N!RefreshSet(c) PROVE KeysInv'
    <2>1. KeyTypes' /\ PointerHeld' /\ MarkingHeld' /\ AskingHeld'
      BY <1>t, <1>5 DEF N!RefreshSet, N!Refreshed, N!Goto, N!Calls, N!Ends, KeyTypes, PointerHeld, MarkingHeld, AskingHeld
    <2>2. LateReads'
      BY <1>t, <1>5 DEF N!RefreshSet, N!Goto, KeyTypes, LateReads
    <2> QED
      BY <2>1, <2>2 DEF KeysInv
  <1>6. ASSUME NEW c \in Clients, N!MarkData(c) PROVE KeysInv'
    <2>1. PICK k \in Checkpoints :
            /\ data[k] = 0 /\ k \notin marked /\ \A d \in Clients : answer[d] # k
            /\ data' = [data EXCEPT ![k] = CheckpointTTL] /\ answer' = [answer EXCEPT ![c] = k]
      BY <1>6 DEF N!MarkData, N!DataTTL
    <2>2. UNCHANGED <<state, latest, left, marked, read, late>> /\ at[c] = "mark_data"
          /\ at' = [at EXCEPT ![c] = "mark_latest"] /\ wait' = [wait EXCEPT ![c] = 0]
      BY <1>6 DEF N!MarkData, N!Goto
    <2>3. KeyTypes'
      BY <1>t, <2>1, <2>2 DEF KeyTypes, N!Calls, N!Ends
    <2>4. PointerHeld'
      BY <1>t, <2>1, <2>2 DEF KeyTypes, PointerHeld
    <2>5. MarkingHeld'
      BY <1>t, <2>1, <2>2 DEF KeyTypes, MarkingHeld
    <2>6. AskingHeld'
      BY <1>t, <2>1, <2>2 DEF KeyTypes, AskingHeld
    <2>7. LateReads'
      BY <1>t, <2>1, <2>2 DEF KeyTypes, LateReads
    <2> QED
      BY <2>3, <2>4, <2>5, <2>6, <2>7 DEF KeysInv
  <1>7. ASSUME NEW c \in Clients, N!MarkLatest(c) PROVE KeysInv'
    <2>1. UNCHANGED <<state, data, read, answer, late>> /\ at[c] = "mark_latest"
          /\ at' = [at EXCEPT ![c] = "marked"] /\ wait' = [wait EXCEPT ![c] = 0]
          /\ latest' = answer[c] /\ left' = LatestTTL /\ marked' = marked \union {answer[c]}
      BY <1>7 DEF N!MarkLatest, N!Goto
    <2>2. answer[c] \in Checkpoints /\ data[answer[c]] + wait[c] >= CheckpointTTL
      BY <1>t, <2>1 DEF MarkingHeld
    <2>3. KeyTypes'
      BY <1>t, <2>1, <2>2 DEF KeyTypes, N!Calls, N!Ends
    <2>4. PointerHeld'
      BY <1>t, <2>1, <2>2 DEF KeyTypes, PointerHeld
    <2>5. MarkingHeld'
      BY <1>t, <2>1, <2>2 DEF KeyTypes, MarkingHeld
    <2>6. AskingHeld'
      BY <1>t, <2>1, <2>2 DEF KeyTypes, AskingHeld
    <2>7. LateReads'
      BY <1>t, <2>1, <2>2 DEF KeyTypes, LateReads
    <2> QED
      BY <2>3, <2>4, <2>5, <2>6, <2>7 DEF KeysInv
  <1>8. ASSUME NEW c \in Clients, N!LatestGet(c) PROVE KeysInv'
    <2>1. UNCHANGED <<state, data, latest, left, marked, read, late>> /\ at[c] = "latest_get"
          /\ answer' = [answer EXCEPT ![c] = latest] /\ wait' = [wait EXCEPT ![c] = 0]
          /\ at' = [at EXCEPT ![c] = IF latest = NoCheckpoint THEN "close_get" ELSE "data_get"]
      BY <1>8 DEF N!LatestGet, N!Goto
    <2>3. KeyTypes'
      BY <1>t, <2>1 DEF KeyTypes, N!Calls, N!Ends
    <2>4. PointerHeld' /\ MarkingHeld'
      BY <1>t, <2>1 DEF KeyTypes, PointerHeld, MarkingHeld
    <2>6. AskingHeld'
      BY <1>t, <2>1 DEF KeyTypes, AskingHeld, PointerHeld
    <2>7. LateReads'
      BY <1>t, <2>1 DEF KeyTypes, LateReads
    <2> QED
      BY <2>3, <2>4, <2>6, <2>7 DEF KeysInv
  <1>9. ASSUME NEW c \in Clients, N!Tell(c) PROVE KeysInv'
    <2>1. KeyTypes' /\ PointerHeld' /\ MarkingHeld' /\ AskingHeld'
      BY <1>t, <1>9 DEF N!Tell, N!Goto, N!Calls, N!Ends, KeyTypes, PointerHeld, MarkingHeld, AskingHeld
    <2>2. LateReads'
      BY <1>t, <1>9 DEF N!Tell, N!Goto, KeyTypes, LateReads
    <2> QED
      BY <2>1, <2>2 DEF KeysInv
  <1>10. ASSUME NEW c \in Clients, N!Interrupt(c) PROVE KeysInv'
    <2>1. KeyTypes' /\ PointerHeld' /\ MarkingHeld' /\ AskingHeld'
      BY <1>t, <1>10 DEF N!Interrupt, N!Goto, N!Calls, N!Ends, KeyTypes, PointerHeld, MarkingHeld, AskingHeld
    <2>2. LateReads'
      BY <1>t, <1>10 DEF N!Interrupt, N!Goto, KeyTypes, LateReads
    <2> QED
      BY <2>1, <2>2 DEF KeysInv
  <1>11. CASE N!Tick
    <2>1. /\ \A c \in Clients : at[c] \in N!Calls => wait[c] < MaxDelay
          /\ wait' = [c \in Clients |-> IF at[c] \in N!Calls THEN wait[c] + 1 ELSE 0]
          /\ data' = [k \in Checkpoints |-> N!Less(data[k])] /\ left' = N!Less(left)
          /\ latest' = IF left > 1 THEN latest ELSE NoCheckpoint
          /\ UNCHANGED <<marked, at, read, answer, late>>
      BY <1>11 DEF N!Tick
    <2>2. /\ state' \in [status : {"absent", "active", "closed"}, left : Nat]
          /\ state.status # "active" => state'.status # "active"
      BY <1>11, <1>t DEF N!Tick, N!Absent, KeyTypes
    <2>3. KeyTypes'
      BY <1>t, <2>1, <2>2 DEF KeyTypes, N!Less
    <2>4. PointerHeld'
      BY <1>t, <2>1 DEF KeyTypes, PointerHeld, N!Less
    <2>5. MarkingHeld'
      BY <1>t, <2>1 DEF KeyTypes, MarkingHeld, N!Less, N!Calls
    <2>6. AskingHeld'
      BY <1>t, <2>1 DEF KeyTypes, AskingHeld, N!Less, N!Calls
    <2>7. LateReads'
      BY <1>t, <2>1, <2>2 DEF LateReads
    <2> QED
      BY <2>3, <2>4, <2>5, <2>6, <2>7 DEF KeysInv
  <1> QED
    BY <1>1, <1>2, <1>3, <1>4, <1>5, <1>6, <1>7, <1>8, <1>9, <1>10, <1>11 DEF N!Next

LEMMA KeysSafe == KeysInv => N!LatestResolves
  <1> SUFFICES ASSUME KeysInv, NEW c \in Clients, at[c] = "data_get" PROVE data[answer[c]] > 0
    BY DEF N!LatestResolves
  <1>1. /\ answer[c] \in Checkpoints /\ wait[c] \in 0 .. MaxDelay /\ data[answer[c]] \in Nat
        /\ data[answer[c]] + wait[c] + LatestTTL + MaxDelay > CheckpointTTL
    BY DEF KeysInv, KeyTypes, AskingHeld
  <1> QED
    BY <1>1, StoreAssumption

------------------------------------------------------------------------------
(* The session in this process: the checkpoint marked last is kept as long  *)
(* as any is.                                                               *)
KeptTypes ==
  /\ adapter \in {"inprocess", "cli"} /\ life \in {"none", "active", "closed", "expired"}
  /\ kept \subseteq Checkpoints /\ stamp \in [Checkpoints -> Nat]
  /\ clock \in Nat /\ newest \in Nat /\ newest <= clock

NewestKept ==
  /\ \A k \in kept : stamp[k] <= newest
  /\ kept # {} => \E k \in kept : stamp[k] = newest

KeptInv == KeptTypes /\ NewestKept /\ L!RestoresNewest /\ L!ClosedHoldsNothing

LEMMA KeptInit == L!Init => KeptInv
  BY DEF L!Init, KeptInv, KeptTypes, NewestKept, L!RestoresNewest, L!ClosedHoldsNothing

(* Whatever prune is asked to keep, the newest is among what is left.       *)
LEMMA PrunedKeepsNewest ==
  ASSUME KeptInv, NEW n \in Nat, NEW age, NEW rest \in L!Pruned(n, age)
  PROVE  rest \subseteq kept /\ (kept # {} => \E k \in rest : stamp[k] = newest)
  <1>t. /\ kept \subseteq Checkpoints /\ stamp \in [Checkpoints -> Nat] /\ newest \in Nat
        /\ \A k \in kept : stamp[k] <= newest
        /\ kept # {} => \E k \in kept : stamp[k] = newest
    BY DEF KeptInv, KeptTypes, NewestKept
  <1>1. CASE n = 0
    BY <1>1, <1>t DEF L!Pruned
  <1>2. CASE n # 0
    <2>1. PICK last \in L!LastOf(n) :
            rest = last \union {k \in kept : adapter = "cli" /\ clock - stamp[k] <= age}
      BY <1>2 DEF L!Pruned
    <2>2. /\ last \subseteq kept /\ \A k \in last, j \in kept \ last : stamp[j] <= stamp[k]
          /\ L!Cardinality(last) = IF L!Cardinality(kept) < n THEN L!Cardinality(kept) ELSE n
      BY <2>1 DEF L!LastOf
    <2>3. SUFFICES ASSUME kept # {} PROVE \E k \in last : stamp[k] = newest
      BY <2>1, <2>2
    <2>4. \A X : L!Cardinality(X) = Cardinality(X)
      BY DEF L!Cardinality, Cardinality
    <2>5. IsFiniteSet(kept)
      BY <1>t, FS_Subset, StoreAssumption
    <2>6. Cardinality(kept) \in Nat /\ Cardinality(kept) # 0
      BY <2>3, <2>5, FS_CardinalityType, FS_EmptySet
    <2>7. Cardinality(last) # 0
      BY <2>2, <2>4, <2>6, <1>2
    <2>8. PICK k \in last : TRUE
      BY <2>7, FS_EmptySet
    <2>9. PICK j \in kept : stamp[j] = newest
      BY <1>t, <2>3
    <2>10. CASE j \in last
      BY <2>9, <2>10
    <2>11. CASE j \notin last
      BY <1>t, <2>2, <2>8, <2>9, <2>11
    <2> QED
      BY <2>10, <2>11
  <1> QED
    BY <1>1, <1>2

LEMMA KeptStep == KeptInv /\ L!Next => KeptInv'
  <1> SUFFICES ASSUME KeptInv, L!Next PROVE KeptInv'
    OBVIOUS
  <1> USE DEF KeptInv, KeptTypes, NewestKept, L!RestoresNewest, L!ClosedHoldsNothing
  <1>1. CASE L!Open
    BY <1>1 DEF L!Open
  <1>2. ASSUME NEW done, L!Close(done) PROVE KeptInv'
    <2>1. told' = {} /\ UNCHANGED <<adapter, stamp, clock, newest>>
      BY <1>2 DEF L!Close
    <2>2. CASE life = "none"
      BY <1>2, <2>1, <2>2 DEF L!Close
    <2>3. CASE life # "none" /\ adapter = "inprocess"
      BY <1>2, <2>1, <2>3 DEF L!Close
    <2>4. CASE life # "none" /\ adapter = "cli"
      <3>1. life' = "closed" /\ kept' \in L!Pruned(1, MaxAge)
        BY <1>2, <2>4 DEF L!Close
      <3>2. kept' \subseteq kept /\ (kept # {} => \E k \in kept' : stamp[k] = newest)
        BY <3>1, PrunedKeepsNewest
      <3> QED
        BY <2>1, <2>4, <3>1, <3>2
    <2> QED
      BY <2>2, <2>3, <2>4
  <1>3. CASE L!HandleSuccess
    BY <1>3 DEF L!HandleSuccess
  <1>4. CASE L!HandleFailure
    BY <1>4, <1>2 DEF L!HandleFailure
  <1>5. CASE L!Restore
    BY <1>5 DEF L!Restore, L!Latest
  <1>6. CASE L!RestoreNothing
    BY <1>6, <1>2 DEF L!RestoreNothing
  <1>7. CASE L!MarkCheckpoint
    <2>1. CASE L!Known
      BY <1>7, <2>1 DEF L!MarkCheckpoint, L!Known
    <2>2. CASE ~L!Known
      BY <1>7, <2>2 DEF L!MarkCheckpoint
    <2> QED
      BY <2>1, <2>2
  <1>8. CASE L!RestoreCheckpoint
    BY <1>8 DEF L!RestoreCheckpoint
  <1>9. CASE L!Prune
    <2>1. PICK n \in 0 .. 2, age \in {0, MaxAge} : kept' \in L!Pruned(n, age)
      BY <1>9 DEF L!Prune
    <2>2. kept' \subseteq kept /\ (kept # {} => \E k \in kept' : stamp[k] = newest)
      BY <2>1, PrunedKeepsNewest
    <2> QED
      BY <1>9, <2>2 DEF L!Prune
  <1>10. CASE L!Tick
    BY <1>10 DEF L!Tick
  <1> QED
    BY <1>1, <1>2, <1>3, <1>4, <1>5, <1>6, <1>7, <1>8, <1>9, <1>10 DEF L!Next

------------------------------------------------------------------------------
(* Names: what the cache holds is as old as the time kept with it.          *)
NameTypes ==
  /\ time \in Nat
  /\ cached \in [result : [some : BOOLEAN, begun : Nat], since : Nat]
  /\ asking \in [Askers -> [waits : BOOLEAN, now : Nat]]
  /\ given \in [Askers -> [how : {"none", "cache", "lookup", "raised"},
                           result : [some : BOOLEAN, begun : Nat], asked : Nat]]

NamesInv == NameTypes /\ cached.since = cached.result.begun /\ M!AnswersYoung

LEMMA NamesInit == M!Init => NamesInv
  <1> SUFFICES ASSUME M!Init PROVE NamesInv
    OBVIOUS
  <1>1. cached = [result |-> [some |-> FALSE, begun |-> 0], since |-> 0] /\ time = 0
    BY DEF M!Init, M!Nothing, M!Result
  <1>2. /\ asking = [t \in Askers |-> [waits |-> FALSE, now |-> 0]]
        /\ given = [t \in Askers |->
                      [how |-> "none", result |-> [some |-> FALSE, begun |-> 0], asked |-> 0]]
    BY DEF M!Init, M!Result
  <1> QED
    BY <1>1, <1>2 DEF NamesInv, NameTypes, M!AnswersYoung

LEMMA NamesStep == NamesInv /\ M!NextDns => NamesInv'
  <1> SUFFICES ASSUME NamesInv, M!NextDns PROVE NamesInv'
    OBVIOUS
  <1>t. /\ time \in Nat /\ cached \in [result : [some : BOOLEAN, begun : Nat], since : Nat]
        /\ asking \in [Askers -> [waits : BOOLEAN, now : Nat]]
        /\ given \in [Askers -> [how : {"none", "cache", "lookup", "raised"},
                                 result : [some : BOOLEAN, begun : Nat], asked : Nat]]
        /\ cached.since = cached.result.begun /\ M!AnswersYoung
    BY DEF NamesInv, NameTypes
  <1>d. ASSUME NEW t \in Askers, M!Done(t)
        PROVE  asking' \in [Askers -> [waits : BOOLEAN, now : Nat]] /\ asking[t].now \in Nat
    <2>1. asking' = [asking EXCEPT ![t] = [asking[t] EXCEPT !.waits = FALSE]]
      BY <1>d DEF M!Done
    <2>2. asking[t] \in [waits : BOOLEAN, now : Nat]
      BY <1>t, <1>d
    <2>3. [asking[t] EXCEPT !.waits = FALSE] \in [waits : BOOLEAN, now : Nat]
      BY <2>2
    <2> QED
      BY <1>t, <1>d, <2>1, <2>2, <2>3
  <1>1. ASSUME NEW t \in Askers, M!Resolve(t) PROVE NamesInv'
    <2>1. time' = time /\ cached' = cached
      BY <1>1 DEF M!Resolve
    <2>2. CASE M!Fresh
      <3>1. /\ given' = [given EXCEPT ![t] = [how |-> "cache", result |-> cached.result, asked |-> time]]
            /\ asking' = asking
        BY <1>1, <2>2 DEF M!Resolve, M!Answer
      <3>2. cached.result.some /\ time - cached.result.begun < NameTTL
        BY <1>t, <2>2 DEF M!Fresh
      <3> QED
        BY <1>t, <2>1, <3>1, <3>2 DEF NamesInv, NameTypes, M!AnswersYoung
    <2>3. CASE ~M!Fresh
      <3>1. given' = given /\ asking' = [asking EXCEPT ![t] = [waits |-> TRUE, now |-> time]]
        BY <1>1, <2>3 DEF M!Resolve
      <3> QED
        BY <1>t, <2>1, <3>1 DEF NamesInv, NameTypes, M!AnswersYoung
    <2> QED
      BY <2>2, <2>3
  <1>2. ASSUME NEW t \in Askers, M!LookupEnds(t) PROVE NamesInv'
    <2>1. PICK some \in BOOLEAN :
            /\ cached' = [result |-> [some |-> some, begun |-> asking[t].now], since |-> asking[t].now]
            /\ given' = [given EXCEPT ![t] =
                           [how |-> "lookup", result |-> [some |-> some, begun |-> asking[t].now],
                            asked |-> asking[t].now]]
      BY <1>2 DEF M!LookupEnds, M!Keep, M!Answer, M!Result
    <2>2. time' = time /\ asking' \in [Askers -> [waits : BOOLEAN, now : Nat]] /\ asking[t].now \in Nat
      BY <1>2, <1>d DEF M!LookupEnds
    <2>3. cached' \in [result : [some : BOOLEAN, begun : Nat], since : Nat]
          /\ cached'.since = cached'.result.begun
      BY <2>1, <2>2
    <2>4. given' \in [Askers -> [how : {"none", "cache", "lookup", "raised"},
                                 result : [some : BOOLEAN, begun : Nat], asked : Nat]]
      BY <1>t, <2>1, <2>2
    <2>5. M!AnswersYoung'
      BY <1>t, <2>1 DEF M!AnswersYoung
    <2> QED
      BY <1>t, <2>2, <2>3, <2>4, <2>5 DEF NamesInv, NameTypes
  <1>3. ASSUME NEW t \in Askers, M!LookupRaises(t) PROVE NamesInv'
    <2>1. /\ given' = [given EXCEPT ![t] =
                         [how |-> "raised", result |-> cached.result, asked |-> asking[t].now]]
          /\ time' = time /\ cached' = cached
          /\ asking' \in [Askers -> [waits : BOOLEAN, now : Nat]] /\ asking[t].now \in Nat
      BY <1>3, <1>d DEF M!LookupRaises, M!Answer
    <2> QED
      BY <1>t, <2>1 DEF NamesInv, NameTypes, M!AnswersYoung
  <1>4. ASSUME NEW t \in Askers, M!Cancelled(t) PROVE NamesInv'
    <2>1. UNCHANGED <<time, cached, given>>
          /\ asking' \in [Askers -> [waits : BOOLEAN, now : Nat]]
      BY <1>4, <1>d DEF M!Cancelled
    <2> QED
      BY <1>t, <2>1 DEF NamesInv, NameTypes, M!AnswersYoung
  <1>5. CASE M!Refresh
    <2>1. /\ UNCHANGED <<time, asking, given>>
          /\ cached' = [result |-> [some |-> FALSE, begun |-> 0], since |-> 0]
      BY <1>5 DEF M!Refresh, M!Nothing, M!Result
    <2> QED
      BY <1>t, <2>1 DEF NamesInv, NameTypes, M!AnswersYoung
  <1>6. CASE M!Tick
    <2>1. UNCHANGED <<cached, asking, given>> /\ time' = time + 1
      BY <1>6 DEF M!Tick
    <2> QED
      BY <1>t, <2>1 DEF NamesInv, NameTypes, M!AnswersYoung
  <1> QED
    BY <1>1, <1>2, <1>3, <1>4, <1>5, <1>6 DEF M!NextDns

(* The file: what the last whole load read is held as that load read it.    *)
LEMMA FileInit == M!Init => M!LoadsWhole
  BY DEF M!Init, M!LoadsWhole

LEMMA FileStep == M!NextFile => M!LoadsWhole'
  <1> SUFFICES ASSUME M!NextFile PROVE M!LoadsWhole'
    OBVIOUS
  <1>1. CASE M!Load
    <2>1. PICK got :
            /\ known' = [s \in DOMAIN known \union got |-> IF s \in got THEN loads' ELSE known[s]]
            /\ whole' \subseteq got
      BY <1>1 DEF M!Load
    <2> QED
      BY <2>1 DEF M!LoadsWhole
  <1>2. CASE M!FileChanges
    BY <1>2 DEF M!FileChanges, M!LoadsWhole
  <1> QED
    BY <1>1, <1>2 DEF M!NextFile

(* Turns: from the candidate that was first, around to the one that is next, *)
(* each has been chosen once more often than the others.                    *)
Served(i, first, next) ==
  IF first <= next THEN first < i /\ i <= next ELSE first < i \/ i <= next

TimesIn(s, c) == Cardinality({i \in 1 .. Len(s) : s[i] = c})

TurnsInv ==
  /\ healthy \in Seq(Nat) /\ turns \in Seq(Nat) /\ index \in Nat
  /\ \A i, j \in 1 .. Len(healthy) : healthy[i] = healthy[j] => i = j
  /\ healthy # <<>> =>
       \E first \in 0 .. Len(healthy) - 1, rounds \in Nat :
         \A i \in 1 .. Len(healthy) :
           TimesIn(turns, healthy[i]) =
             IF Served(i, first, index % Len(healthy)) THEN rounds + 1 ELSE rounds

(* Counting along the places, and counting how often one was chosen.        *)
LEMMA PlaceIs ==
  ASSUME NEW i \in Nat, NEW n \in Nat \ {0}, NEW q \in Nat, NEW r \in 0 .. n - 1, i = n * q + r
  PROVE  i % n = r
  OBVIOUS

LEMMA NextPlace ==
  ASSUME NEW i \in Nat, NEW n \in Nat \ {0}
  PROVE  i % n \in 0 .. n - 1 /\ (i + 1) % n = IF (i % n) + 1 = n THEN 0 ELSE (i % n) + 1
  <1> DEFINE q == i \div n
             r == i % n
  <1>1. i = n * q + r /\ q \in Nat /\ r \in 0 .. n - 1
    OBVIOUS
  <1>2. n * (q + 1) = n * q + n
    BY <1>1
  <1> HIDE DEF q, r
  <1>3. CASE r + 1 = n
    <2>1. i + 1 = n * (q + 1) + 0
      BY <1>1, <1>2, <1>3
    <2>2. (i + 1) % n = 0
      BY <1>1, <2>1, PlaceIs
    <2> QED
      BY <1>1, <1>3, <2>2 DEF r
  <1>4. CASE r + 1 # n
    <2>1. i + 1 = n * q + (r + 1) /\ r + 1 \in 0 .. n - 1
      BY <1>1, <1>4
    <2>2. (i + 1) % n = r + 1
      BY <1>1, <2>1, PlaceIs
    <2> QED
      BY <1>1, <1>4, <2>2 DEF r
  <1> QED
    BY <1>3, <1>4

LEMMA OnceMore ==
  ASSUME NEW s \in Seq(Nat), NEW x \in Nat
  PROVE  /\ \A c : TimesIn(s, c) \in Nat
         /\ TimesIn(Append(s, x), x) = TimesIn(s, x) + 1
         /\ \A c : c # x => TimesIn(Append(s, x), c) = TimesIn(s, c)
  <1> DEFINE n == Len(s)
             Places(c) == {i \in 1 .. n : s[i] = c}
             PlacesNow(c) == {i \in 1 .. n + 1 : Append(s, x)[i] = c}
  <1>1. n \in Nat
    OBVIOUS
  <1>2. \A c : IsFiniteSet(Places(c))
    <2>1. IsFiniteSet(1 .. n)
      BY <1>1, FS_Interval
    <2>2. \A c : Places(c) \subseteq 1 .. n
      OBVIOUS
    <2> HIDE DEF Places
    <2> QED
      BY <2>1, <2>2, FS_Subset
  <1>3. \A c : Cardinality(Places(c)) \in Nat
    <2> HIDE DEF Places
    <2> QED
      BY <1>2, FS_CardinalityType
  <1>4. \A i \in 1 .. n : Append(s, x)[i] = s[i]
    OBVIOUS
  <1>5. Append(s, x)[n + 1] = x /\ Len(Append(s, x)) = n + 1
    OBVIOUS
  <1>6. PlacesNow(x) = Places(x) \union {n + 1} /\ n + 1 \notin Places(x)
    BY <1>1, <1>4, <1>5
  <1>7. \A c : c # x => PlacesNow(c) = Places(c)
    BY <1>1, <1>4, <1>5
  <1>8. Cardinality(PlacesNow(x)) = Cardinality(Places(x)) + 1
    <2> HIDE DEF Places, PlacesNow
    <2> QED
      BY <1>2, <1>6, FS_AddElement
  <1> QED
    BY <1>3, <1>5, <1>7, <1>8 DEF TimesIn

LEMMA TurnsInit == M!Init => TurnsInv
  BY DEF M!Init, TurnsInv

(* One more turn moves the next place on by one, and when it comes back to  *)
(* the first a round is complete.                                           *)
Turned(f, n, first, next, rounds) ==
  \A i \in 1 .. n : f[i] = IF Served(i, first, next) THEN rounds + 1 ELSE rounds

LEMMA Around ==
  ASSUME NEW n \in Nat \ {0}, NEW first \in 0 .. n - 1, NEW place \in 0 .. n - 1, NEW rounds \in Nat,
         NEW f, NEW g, NEW next, next = IF place + 1 = n THEN 0 ELSE place + 1,
         Turned(f, n, first, place, rounds),
         \A i \in 1 .. n : g[i] = IF i = place + 1 THEN f[i] + 1 ELSE f[i]
  PROVE  \E r \in Nat : Turned(g, n, first, next, r)
  <1> USE DEF Turned
  <1>1. CASE next = first
    <2>1. \A i \in 1 .. n : g[i] = IF Served(i, first, next) THEN (rounds + 1) + 1 ELSE rounds + 1
      BY <1>1 DEF Served
    <2> QED
      BY <2>1
  <1>2. CASE next # first
    <2>1. \A i \in 1 .. n : g[i] = IF Served(i, first, next) THEN rounds + 1 ELSE rounds
      BY <1>2 DEF Served
    <2> QED
      BY <2>1
  <1> QED
    BY <1>1, <1>2

LEMMA TurnsStep == TurnsInv /\ M!NextTurn => TurnsInv'
  <1> SUFFICES ASSUME TurnsInv, M!NextTurn PROVE TurnsInv'
    OBVIOUS
  <1>t. /\ healthy \in Seq(Nat) /\ turns \in Seq(Nat) /\ index \in Nat
        /\ \A i, j \in 1 .. Len(healthy) : healthy[i] = healthy[j] => i = j
    BY DEF TurnsInv
  <1>1. CASE M!Change
    <2>1. turns' = <<>> /\ index' = index
      BY <1>1 DEF M!Change
    <2>2. PICK some \in SUBSET Channels, well \in SUBSET Channels :
            /\ healthy' \in [1 .. M!Cardinality(M!Candidates(some, well)) -> M!Candidates(some, well)]
            /\ \A i, j \in DOMAIN healthy' : i < j => healthy'[i] < healthy'[j]
      BY <1>1 DEF M!Change
    <2> DEFINE fit == M!Candidates(some, well)
               n == Cardinality(fit)
    <2>3. fit \subseteq Channels
      BY DEF M!Candidates
    <2>4. n \in Nat /\ fit \subseteq Nat
      BY <2>3, FS_Subset, FS_CardinalityType, StoreAssumption
    <2>5. M!Cardinality(fit) = n
      BY DEF M!Cardinality, Cardinality
    <2> HIDE DEF n, fit
    <2>6. healthy' \in [1 .. n -> fit]
      BY <2>2, <2>5 DEF fit
    <2>7. healthy' \in Seq(Nat) /\ Len(healthy') = n
      <3>1. healthy' \in [1 .. n -> Nat]
        BY <2>4, <2>6
      <3> QED
        BY <2>4, <3>1
    <2>8. \A i, j \in 1 .. n : i < j => healthy'[i] < healthy'[j]
      BY <2>2, <2>6
    <2>9. \A i, j \in 1 .. n : healthy'[i] = healthy'[j] => i = j
      <3>1. SUFFICES ASSUME NEW i \in 1 .. n, NEW j \in 1 .. n, i < j PROVE healthy'[i] # healthy'[j]
        BY <2>4
      <3>2. healthy'[i] \in Nat /\ healthy'[j] \in Nat /\ healthy'[i] < healthy'[j]
        BY <2>4, <2>6, <2>8, <3>1
      <3> QED
        BY <3>2
    <2>10. ASSUME healthy' # <<>>
           PROVE  \E first \in 0 .. n - 1, rounds \in Nat : \A i \in 1 .. n :
                    TimesIn(turns', healthy'[i]) =
                      IF Served(i, first, index % n) THEN rounds + 1 ELSE rounds
      <3>1. n \in Nat \ {0}
        BY <2>4, <2>7, <2>10
      <3>2. index % n \in 0 .. n - 1
        BY <1>t, <3>1, NextPlace
      <3>3. \A c : TimesIn(turns', c) = 0
        BY <2>1, FS_EmptySet DEF TimesIn
      <3>4. \A i \in 1 .. n : ~Served(i, index % n, index % n)
        BY <3>1, <3>2 DEF Served
      <3> QED
        BY <3>2, <3>3, <3>4
    <2> QED
      BY <1>t, <2>1, <2>7, <2>9, <2>10 DEF TurnsInv
  <1>2. CASE M!RoundRobin
    <2> DEFINE n == Len(healthy)
               place == index % n
               x == healthy[place + 1]
    <2>1. healthy # <<>> /\ turns' = Append(turns, x) /\ index' = index + 1 /\ healthy' = healthy
      BY <1>2 DEF M!RoundRobin, M!NextIndex
    <2>2. n \in Nat \ {0}
      BY <1>t, <2>1
    <2>3. place \in 0 .. n - 1 /\ index' % n = IF place + 1 = n THEN 0 ELSE place + 1
      BY <1>t, <2>1, <2>2, NextPlace
    <2>4. place + 1 \in 1 .. n /\ x \in Nat
      BY <1>t, <2>2, <2>3
    <2>5. PICK first \in 0 .. n - 1, rounds \in Nat : \A i \in 1 .. n :
            TimesIn(turns, healthy[i]) = IF Served(i, first, place) THEN rounds + 1 ELSE rounds
      BY <2>1 DEF TurnsInv
    <2> DEFINE f == [i \in 1 .. n |-> TimesIn(turns, healthy[i])]
               g == [i \in 1 .. n |-> TimesIn(turns', healthy[i])]
               next == index' % n
    <2> HIDE DEF n, place, x
    <2>6. Turned(f, n, first, place, rounds)
      BY <2>5 DEF Turned
    <2>7. \A i \in 1 .. n : (healthy[i] = x) <=> (i = place + 1)
      BY <1>t, <2>4 DEF x, n
    <2>8. \A i \in 1 .. n : g[i] = IF i = place + 1 THEN f[i] + 1 ELSE f[i]
      <3>1. /\ \A c : c # x => TimesIn(turns', c) = TimesIn(turns, c)
            /\ TimesIn(turns', x) = TimesIn(turns, x) + 1
        BY <1>t, <2>1, <2>4, OnceMore
      <3> QED
        BY <2>7, <3>1
    <2> HIDE DEF f, g, next
    <2>9. next = IF place + 1 = n THEN 0 ELSE place + 1
      BY <2>3 DEF next
    <2>10. \E r \in Nat : Turned(g, n, first, next, r)
      BY <2>2, <2>3, <2>5, <2>6, <2>8, <2>9, Around
    <2>11. \E one \in 0 .. Len(healthy) - 1, r \in Nat : \A i \in 1 .. Len(healthy) :
             TimesIn(turns', healthy[i]) = IF Served(i, one, index' % Len(healthy)) THEN r + 1 ELSE r
      BY <2>5, <2>10 DEF Turned, g, next, n
    <2>12. turns' \in Seq(Nat) /\ index' \in Nat
      BY <1>t, <2>1, <2>4
    <2> QED
      BY <1>t, <2>1, <2>11, <2>12, ZenonT(40) DEF TurnsInv
  <1> QED
    BY <1>1, <1>2 DEF M!NextTurn

LEMMA TurnsSafe == TurnsInv => M!EvenTurns
  <1> SUFFICES ASSUME TurnsInv, NEW i \in DOMAIN healthy, NEW j \in DOMAIN healthy
               PROVE  M!Chosen(healthy[i]) <= M!Chosen(healthy[j]) + 1
    BY DEF M!EvenTurns
  <1>1. healthy \in Seq(Nat) /\ turns \in Seq(Nat) /\ index \in Nat
    BY DEF TurnsInv
  <1>2. i \in 1 .. Len(healthy) /\ j \in 1 .. Len(healthy) /\ healthy # <<>>
    BY <1>1
  <1>3. \A c : M!Chosen(c) = TimesIn(turns, c)
    <2>1. \A X : M!Cardinality(X) = Cardinality(X)
      BY DEF M!Cardinality, Cardinality
    <2>2. DOMAIN turns = 1 .. Len(turns)
      BY <1>1
    <2> QED
      BY <2>1, <2>2 DEF M!Chosen, TimesIn
  <1>4. PICK rounds \in Nat : \A k \in 1 .. Len(healthy) : TimesIn(turns, healthy[k]) \in {rounds, rounds + 1}
    BY <1>2 DEF TurnsInv
  <1> QED
    BY <1>2, <1>3, <1>4

FileInv == M!LoadsWhole

------------------------------------------------------------------------------
(* All that is kept: the steps of one part leave the others as they are.    *)
StoreInv == KeysInv /\ KeptInv /\ NamesInv /\ FileInv /\ TurnsInv

LEMMA KeysStill == KeysInv /\ UNCHANGED nVars => KeysInv'
  <1> SUFFICES ASSUME KeysInv, UNCHANGED nVars PROVE KeysInv'
    OBVIOUS
  <1>1. UNCHANGED <<state, data, latest, left, marked, at, read, answer, wait, late>>
    BY DEF nVars
  <1> QED
    BY <1>1 DEF KeysInv, KeyTypes, PointerHeld, MarkingHeld, AskingHeld, LateReads

LEMMA KeptStill == KeptInv /\ UNCHANGED lVars => KeptInv'
  BY DEF lVars, KeptInv, KeptTypes, NewestKept, L!RestoresNewest, L!ClosedHoldsNothing

LEMMA NamesStill == NamesInv /\ UNCHANGED M!dnsVars => NamesInv'
  BY DEF M!dnsVars, NamesInv, NameTypes, M!AnswersYoung

LEMMA FileStill == FileInv /\ UNCHANGED M!configVars => FileInv'
  BY DEF M!configVars, FileInv, M!LoadsWhole

LEMMA TurnsStill == TurnsInv /\ UNCHANGED M!turnVars => TurnsInv'
  <1> SUFFICES ASSUME TurnsInv, UNCHANGED M!turnVars PROVE TurnsInv'
    OBVIOUS
  <1>1. index' = index /\ healthy' = healthy /\ turns' = turns
    BY DEF M!turnVars
  <1>2. \A c : TimesIn(turns', c) = TimesIn(turns, c)
    BY <1>1
  <1> QED
    BY <1>1, <1>2 DEF TurnsInv

LEMMA StoreInit == Init => StoreInv
  BY KeysInit, KeptInit, NamesInit, FileInit, TurnsInit DEF Init, StoreInv, FileInv

LEMMA StoreStep == StoreInv /\ [Next]_vars => StoreInv'
  <1> SUFFICES ASSUME StoreInv, [Next]_vars PROVE StoreInv'
    OBVIOUS
  <1>t. KeysInv /\ KeptInv /\ NamesInv /\ FileInv /\ TurnsInv
    BY DEF StoreInv
  <1>m. UNCHANGED mVars => UNCHANGED M!dnsVars /\ UNCHANGED M!configVars /\ UNCHANGED M!turnVars
    BY DEF mVars, M!dnsVars, M!configVars, M!turnVars
  <1>1. CASE N!Next /\ UNCHANGED <<lVars, mVars>>
    BY <1>1, <1>t, <1>m, KeysStep, KeptStill, NamesStill, FileStill, TurnsStill DEF StoreInv
  <1>2. CASE L!Next /\ UNCHANGED <<nVars, mVars>>
    BY <1>2, <1>t, <1>m, KeysStill, KeptStep, NamesStill, FileStill, TurnsStill DEF StoreInv
  <1>3. CASE M!NextDns /\ UNCHANGED <<nVars, lVars>>
    <2>1. UNCHANGED M!configVars /\ UNCHANGED M!turnVars
      BY <1>3 DEF M!NextDns, M!Resolve, M!LookupEnds, M!LookupRaises, M!Cancelled, M!Refresh, M!Tick
    <2> QED
      BY <1>3, <1>t, <2>1, KeysStill, KeptStill, NamesStep, FileStill, TurnsStill DEF StoreInv
  <1>4. CASE M!NextFile /\ UNCHANGED <<nVars, lVars>>
    <2>1. UNCHANGED M!dnsVars /\ UNCHANGED M!turnVars
      BY <1>4 DEF M!NextFile, M!Load, M!FileChanges
    <2> QED
      BY <1>4, <1>t, <2>1, KeysStill, KeptStill, NamesStill, FileStep, TurnsStill DEF StoreInv, FileInv
  <1>5. CASE M!NextTurn /\ UNCHANGED <<nVars, lVars>>
    <2>1. UNCHANGED M!dnsVars /\ UNCHANGED M!configVars
      BY <1>5 DEF M!NextTurn, M!Change, M!RoundRobin
    <2> QED
      BY <1>5, <1>t, <2>1, KeysStill, KeptStill, NamesStill, FileStill, TurnsStep DEF StoreInv
  <1>6. CASE UNCHANGED vars
    <2>1. UNCHANGED nVars /\ UNCHANGED lVars /\ UNCHANGED mVars
      BY <1>6 DEF vars
    <2> QED
      BY <1>t, <1>m, <2>1, KeysStill, KeptStill, NamesStill, FileStill, TurnsStill DEF StoreInv
  <1> QED
    BY <1>1, <1>2, <1>3, <1>4, <1>5, <1>6 DEF Next

LEMMA StoreAlways == Spec => []StoreInv
  BY StoreInit, StoreStep, PTL DEF Spec

(* What is kept is found again: a pointer that a call has read leads to a   *)
(* checkpoint however calls, expiries and failures interleave; a session in *)
(* this process restores the newest checkpoint whatever was pruned, and     *)
(* none once it is closed; the cache of names answers nothing that is older *)
(* than its time to live; the services of a file that was loaded whole are  *)
(* all answered from that load; and turns go round evenly.                  *)
THEOREM KeptIsFound == Spec => []FoundAgain
  <1>1. StoreInv => FoundAgain
    BY KeysSafe, TurnsSafe DEF StoreInv, FoundAgain, KeptInv, NamesInv, FileInv, M!CacheInv
  <1> QED
    BY <1>1, StoreAlways, PTL

(* A refresh that began when no session was active does not make one active,*)
(* whatever its two awaits are interleaved with.                            *)
THEOREM LateRefreshRevivesNothing == Spec => LateRefreshHarmless
  <1>1. StoreInv => [\A c \in Clients : N!RefreshSet(c) /\ late[c] => state'.status # "active"]_(N!vars)
    <2>1. SUFFICES ASSUME StoreInv, NEW c \in Clients, N!RefreshSet(c), late[c]
                   PROVE  state'.status # "active"
      OBVIOUS
    <2>2. state'.status = read[c] /\ at[c] = "refresh_set"
      BY <2>1 DEF N!RefreshSet, N!Refreshed
    <2>3. late[c] => (at[c] = "refresh_set" => read[c] # "active")
      BY <2>1 DEF StoreInv, KeysInv, LateReads
    <2> QED
      BY <2>1, <2>2, <2>3
  <1> QED
    BY <1>1, StoreAlways, PTL DEF LateRefreshHarmless, N!LateRefreshHarmless

------------------------------------------------------------------------------
(* The store as the register: marking is the step that writes the pointer,  *)
(* and a call is told when it reads it.                                     *)
LEMMA RegisterInit == N!Init => N!Register!Init
  BY DEF N!Init, N!Register!Init, N!told

LEMMA ToldBy ==
  ASSUME KeyTypes, NEW c \in Clients, NEW call, NEW k,
         at' = [at EXCEPT ![c] = call], answer' = [answer EXCEPT ![c] = k]
  PROVE  N!told' = [N!told EXCEPT ![c] = IF call \in {"mark_latest", "marked"} THEN "nothing" ELSE k]
  BY DEF KeyTypes, N!told

LEMMA ToldAsBefore ==
  ASSUME KeyTypes, NEW c \in Clients, NEW call, at' = [at EXCEPT ![c] = call], answer' = answer,
         call \in {"mark_latest", "marked"} <=> at[c] \in {"mark_latest", "marked"}
  PROVE  N!told' = N!told
  BY DEF KeyTypes, N!told

LEMMA RegisterStep == KeysInv /\ [N!Next]_(N!vars) => [N!Register!Next]_(N!Register!vars)
  <1> SUFFICES ASSUME KeysInv, [N!Next]_(N!vars) PROVE [N!Register!Next]_(N!Register!vars)
    OBVIOUS
  <1>t. KeyTypes /\ MarkingHeld
    BY DEF KeysInv
  <1>s. ASSUME latest' = latest, marked' = marked, N!told' = N!told PROVE UNCHANGED N!Register!vars
    BY <1>s DEF N!Register!vars
  <1>a. ASSUME NEW c \in Clients, latest' = latest, marked' = marked,
               N!told' = [N!told EXCEPT ![c] = "nothing"]
        PROVE  N!Register!Next
    BY <1>a DEF N!Register!Next, N!Register!AskAgain
  <1>1. ASSUME NEW c \in Clients, N!Begin(c) PROVE N!Register!Next
    <2>1. PICK call \in {"close_get", "refresh_get", "mark_data", "latest_get"} : N!Goto(c, call)
      BY <1>1 DEF N!Begin
    <2>2. at' = [at EXCEPT ![c] = call] /\ answer' = [answer EXCEPT ![c] = "nothing"]
      BY <1>1, <2>1 DEF N!Begin, N!Goto
    <2>3. N!told' = [N!told EXCEPT ![c] = "nothing"]
      BY <1>t, <2>2, ToldBy
    <2> QED
      BY <1>1, <1>a, <2>3 DEF N!Begin
  <1>2. ASSUME NEW c \in Clients, N!MarkData(c) PROVE N!Register!Next
    <2>1. PICK k \in Checkpoints : answer' = [answer EXCEPT ![c] = k]
      BY <1>2 DEF N!MarkData
    <2>2. at' = [at EXCEPT ![c] = "mark_latest"] /\ latest' = latest /\ marked' = marked
      BY <1>2 DEF N!MarkData, N!Goto
    <2>3. N!told' = [N!told EXCEPT ![c] = "nothing"]
      BY <1>t, <2>1, <2>2, ToldBy
    <2> QED
      BY <1>a, <2>2, <2>3
  <1>3. ASSUME NEW c \in Clients, N!Interrupt(c) PROVE N!Register!Next
    <2>1. at' = [at EXCEPT ![c] = "idle"] /\ answer' = [answer EXCEPT ![c] = "nothing"]
          /\ latest' = latest /\ marked' = marked
      BY <1>3 DEF N!Interrupt, N!Goto
    <2>2. N!told' = [N!told EXCEPT ![c] = "nothing"]
      BY <1>t, <2>1, ToldBy
    <2> QED
      BY <1>a, <2>1, <2>2
  <1>4. ASSUME NEW c \in Clients, N!LatestGet(c) PROVE N!Register!Next
    <2>1. PICK call \in {"close_get", "data_get"} : at' = [at EXCEPT ![c] = call]
      BY <1>4 DEF N!LatestGet, N!Goto
    <2>2. answer' = [answer EXCEPT ![c] = latest] /\ latest' = latest /\ marked' = marked
      BY <1>4 DEF N!LatestGet
    <2>3. N!told' = [N!told EXCEPT ![c] = latest]
      BY <1>t, <2>1, <2>2, ToldBy
    <2> QED
      BY <2>2, <2>3 DEF N!Register!Next, N!Register!Tell
  <1>5. ASSUME NEW c \in Clients, N!MarkLatest(c) PROVE N!Register!Next
    <2>1. at[c] = "mark_latest" /\ at' = [at EXCEPT ![c] = "marked"] /\ answer' = answer
          /\ latest' = answer[c] /\ marked' = marked \union {answer[c]}
      BY <1>5 DEF N!MarkLatest, N!Goto
    <2>2. N!told' = N!told
      BY <1>t, <2>1, ToldAsBefore
    <2>3. answer[c] \in Checkpoints /\ answer[c] \notin marked
      BY <1>t, <2>1 DEF MarkingHeld
    <2> QED
      BY <2>1, <2>2, <2>3 DEF N!Register!Next, N!Register!Mark
  <1>6. CASE N!Tick
    <2>1. N!told' = N!told /\ marked' = marked
      BY <1>6 DEF N!Tick, N!told
    <2>2. latest' = latest \/ latest' = NoCheckpoint
      BY <1>6 DEF N!Tick
    <2> QED
      BY <1>s, <2>1, <2>2 DEF N!Register!Next, N!Register!Forget
  <1>7. ASSUME NEW c \in Clients,
               N!CloseGet(c) \/ N!CloseSet(c) \/ N!RefreshGet(c) \/ N!RefreshSet(c) \/ N!Tell(c)
        PROVE  UNCHANGED N!Register!vars
    <2>1. latest' = latest /\ marked' = marked /\ answer' = answer /\ at[c] \notin {"mark_latest", "marked"}
      BY <1>7 DEF N!CloseGet, N!CloseSet, N!RefreshGet, N!RefreshSet, N!Tell
    <2>2. PICK call \in {"close_set", "aborted", "continue", "refresh_set", "restored", "crashed"} :
            at' = [at EXCEPT ![c] = call]
      BY <1>7 DEF N!CloseGet, N!CloseSet, N!RefreshGet, N!RefreshSet, N!Tell, N!Goto
    <2>3. N!told' = N!told
      BY <1>t, <2>1, <2>2, ToldAsBefore
    <2> QED
      BY <1>s, <2>1, <2>3
  <1>8. CASE UNCHANGED N!vars
    BY <1>8 DEF N!vars, N!Register!vars, N!told
  <1> QED
    BY <1>1, <1>2, <1>3, <1>4, <1>5, <1>6, <1>7, <1>8 DEF N!Next

(* The store, shared by several processes and with keys that expire, is the *)
(* register of the latest checkpoint that ICheckpointSync describes.        *)
THEOREM StoreIsRegister == Spec => ImplementsRegister
  <1>1. Init => N!Register!Init
    BY RegisterInit DEF Init
  <1>2. StoreInv /\ [Next]_vars => [N!Register!Next]_(N!Register!vars)
    <2> SUFFICES ASSUME StoreInv, [Next]_vars PROVE [N!Register!Next]_(N!Register!vars)
      OBVIOUS
    <2>1. N!Next \/ UNCHANGED nVars
      BY DEF Next, vars
    <2>2. UNCHANGED nVars => UNCHANGED N!vars
      BY DEF nVars, N!vars
    <2> QED
      BY <2>1, <2>2, RegisterStep DEF StoreInv
  <1> QED
    BY <1>1, <1>2, StoreAlways, PTL DEF Spec, ImplementsRegister, N!ImplementsRegister, N!Register!Spec

==============================================================================
