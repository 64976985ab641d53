----------------------------- MODULE NetworkSession -----------------------------
(***************************************************************************)
(* NetworkSessionAdapter (session/adapters/network_session.py): a session  *)
(* and its checkpoints in an external store shared by several processes,   *)
(* and the coordinator's use of it (session/coordinator.py).  Every call   *)
(* is two awaits of the store, and anything may happen between them: other *)
(* calls, the expiry of a key, the death of the caller.  The store is      *)
(* modelled from how the adapter uses it: a map whose keys expire.  A unit *)
(* of time is longer than a call of the store takes.                       *)
(***************************************************************************)
EXTENDS Naturals

CONSTANTS
  Clients,      (* tasks, in any process, that use the session               *)
  Checkpoints,  (* checkpoint ids                                            *)
  NoCheckpoint,
  SessionTTL, ClosedTTL, LatestTTL, CheckpointTTL, (* lifetimes of the keys  *)
  MaxDelay      (* bound: time between the two awaits of a call              *)

Absent == [status |-> "absent", left |-> 0]

VARIABLES
  state,   (* the key ...:state and the time it has left                     *)
  data,    (* checkpoint -> time left of its key ...:ckpt:id                 *)
  latest,  (* the key ...:latest                                             *)
  left,    (* and the time it has left                                       *)
  marked,  (* the checkpoints that key has held                              *)
  at,      (* client -> the store call it is about to make                   *)
  read,    (* client -> the status it has read                               *)
  answer,  (* client -> the checkpoint it has read, or "nothing"             *)
  wait,    (* client -> time since its last store call                       *)
  late     (* client -> whether no session is active since its call began    *)

vars == <<state, data, latest, left, marked, at, read, answer, wait, late>>

Calls == {"close_get", "close_set", "refresh_get", "refresh_set",
          "mark_data", "mark_latest", "latest_get", "data_get"}
Ends == {"idle", "continue", "restored", "aborted", "crashed", "marked"}

TypeOK ==
  /\ state \in [status: {"absent", "active", "closed"}, left: 0 .. SessionTTL + ClosedTTL]
  /\ data \in [Checkpoints -> 0 .. CheckpointTTL]
  /\ latest \in Checkpoints \union {NoCheckpoint} /\ left \in 0 .. LatestTTL
  /\ marked \subseteq Checkpoints
  /\ at \in [Clients -> Calls \union Ends]
  /\ read \in [Clients -> {"absent", "active", "closed"}]
  /\ answer \in [Clients -> Checkpoints \union {NoCheckpoint, "nothing"}]
  /\ wait \in [Clients -> 0 .. MaxDelay] /\ late \in [Clients -> BOOLEAN]

(* open has returned                                                        *)
Init ==
  /\ state = [status |-> "active", left |-> SessionTTL]
  /\ data = [k \in Checkpoints |-> 0]
  /\ latest = NoCheckpoint /\ left = 0 /\ marked = {}
  /\ at = [c \in Clients |-> "idle"]
  /\ read = [c \in Clients |-> "absent"]
  /\ answer = [c \in Clients |-> "nothing"]
  /\ wait = [c \in Clients |-> 0] /\ late = [c \in Clients |-> FALSE]

Goto(c, call) == at' = [at EXCEPT ![c] = call] /\ wait' = [wait EXCEPT ![c] = 0]

------------------------------------------------------------------------------
(* Faults: wrong versions of definitions below, which the runs swap in.     *)

(* the checkpoint itself expires no later than the pointer to it *)
ShortData == LatestTTL

(* asking for the latest checkpoint prolongs the pointer that was read *)
TellProlonging(c) ==
  /\ at[c] = "data_get" /\ data[answer[c]] > 0
  /\ latest' = answer[c] /\ left' = LatestTTL
  /\ Goto(c, "restored")
  /\ UNCHANGED <<state, data, marked, read, answer, late>>

(* refreshing marks the session active *)
Activate(status) == "active"
------------------------------------------------------------------------------
(* A call begins.  handle_success refreshes; handle_failure closes, or asks *)
(* for the latest checkpoint; marking without metadata fails before it      *)
(* reaches the store.                                                       *)
Begin(c) ==
  /\ at[c] \in Ends
  /\ \E call \in {"close_get", "refresh_get", "mark_data", "latest_get"} : Goto(c, call)
  /\ read' = [read EXCEPT ![c] = "absent"]
  /\ answer' = [answer EXCEPT ![c] = "nothing"]
  /\ late' = [late EXCEPT ![c] = state.status # "active"]
  /\ UNCHANGED <<state, data, latest, left, marked>>

(* close: it overwrites the status it reads                                 *)
CloseGet(c) ==
  /\ at[c] = "close_get"
  /\ Goto(c, "close_set")
  /\ UNCHANGED <<state, data, latest, left, marked, read, answer, late>>

CloseSet(c) ==
  /\ at[c] = "close_set"
  /\ state' = [status |-> "closed", left |-> ClosedTTL]
  /\ Goto(c, "aborted")
  /\ UNCHANGED <<data, latest, left, marked, read, answer, late>>

(* refresh: handle_success goes on whether or not there is a session        *)
RefreshGet(c) ==
  /\ at[c] = "refresh_get"
  /\ read' = [read EXCEPT ![c] = state.status]
  /\ Goto(c, IF state.status = "absent" THEN "continue" ELSE "refresh_set")
  /\ UNCHANGED <<state, data, latest, left, marked, answer, late>>

Refreshed(status) == status

RefreshSet(c) ==
  /\ at[c] = "refresh_set"
  /\ state' = [status |-> Refreshed(read[c]), left |-> SessionTTL]
  /\ late' = [d \in Clients |-> late[d] /\ state'.status # "active"]
  /\ Goto(c, "continue")
  /\ UNCHANGED <<data, latest, left, marked, read, answer>>

DataTTL == CheckpointTTL

(* mark: the checkpoint, then the pointer to it                             *)
MarkData(c) ==
  /\ at[c] = "mark_data"
  /\ \E k \in Checkpoints :
       /\ data[k] = 0 /\ k \notin marked
       /\ \A d \in Clients : answer[d] # k
       /\ data' = [data EXCEPT ![k] = DataTTL]
       /\ answer' = [answer EXCEPT ![c] = k]
  /\ Goto(c, "mark_latest")
  /\ UNCHANGED <<state, latest, left, marked, read, late>>

MarkLatest(c) ==
  /\ at[c] = "mark_latest"
  /\ latest' = answer[c] /\ left' = LatestTTL
  /\ marked' = marked \union {answer[c]}
  /\ Goto(c, "marked")
  /\ UNCHANGED <<state, data, read, answer, late>>

(* get_latest, which restore calls too: the pointer, then the checkpoint.   *)
(* Without a pointer the coordinator closes the session; without the        *)
(* checkpoint the call dies of a TypeError.                                 *)
LatestGet(c) ==
  /\ at[c] = "latest_get"
  /\ answer' = [answer EXCEPT ![c] = latest]
  /\ Goto(c, IF latest = NoCheckpoint THEN "close_get" ELSE "data_get")
  /\ UNCHANGED <<state, data, latest, left, marked, read, late>>

Tell(c) ==
  /\ at[c] = "data_get"
  /\ Goto(c, IF data[answer[c]] > 0 THEN "restored" ELSE "crashed")
  /\ UNCHANGED <<state, data, latest, left, marked, read, answer, late>>

(* The store call fails or the caller dies: what is done stays done.        *)
Interrupt(c) ==
  /\ at[c] \in Calls
  /\ Goto(c, "idle")
  /\ answer' = [answer EXCEPT ![c] = "nothing"]
  /\ UNCHANGED <<state, data, latest, left, marked, read, late>>

Less(n) == IF n > 0 THEN n - 1 ELSE 0

(* Time passes and keys expire.                                             *)
Tick ==
  /\ \A c \in Clients : at[c] \in Calls => wait[c] < MaxDelay
  /\ wait' = [c \in Clients |-> IF at[c] \in Calls THEN wait[c] + 1 ELSE 0]
  /\ data' = [k \in Checkpoints |-> Less(data[k])]
  /\ left' = Less(left)
  /\ latest' = IF left > 1 THEN latest ELSE NoCheckpoint
  /\ state' = IF state.left > 1 THEN [state EXCEPT !.left = @ - 1] ELSE Absent
  /\ UNCHANGED <<marked, at, read, answer, late>>

Next ==
  \/ \E c \in Clients :
       \/ Begin(c) \/ CloseGet(c) \/ CloseSet(c) \/ RefreshGet(c) \/ RefreshSet(c)
       \/ MarkData(c) \/ MarkLatest(c) \/ LatestGet(c) \/ Tell(c) \/ Interrupt(c)
  \/ Tick

Spec == Init /\ [][Next]_vars

------------------------------------------------------------------------------
(* A pointer that was read can be followed: the checkpoint is written       *)
(* before the pointer and outlives it by more than any call lasts (mark,    *)
(* get_latest).                                                             *)
LatestResolves == \A c \in Clients : at[c] = "data_get" => data[answer[c]] > 0

(* The pointer and the answers of get_latest are those of the register that *)
(* ICheckpointSync describes, whatever is interleaved and interrupted.      *)
told == [c \in Clients |-> IF at[c] \in {"mark_latest", "marked"} THEN "nothing" ELSE answer[c]]
Register == INSTANCE CheckpointRegister WITH answer <- told
ImplementsRegister == Register!Spec

(* A session that is closed, or has expired, is revived only by a refresh   *)
(* that had begun before: one that begins later leaves it as it is,         *)
(* although it reports success on a closed one (refresh, close).            *)
LateRefreshHarmless ==
  [][\A c \in Clients : RefreshSet(c) /\ late[c] => state'.status # "active"]_vars
==============================================================================
