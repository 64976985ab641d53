--------------------------- MODULE CheckpointRegister ---------------------------
(***************************************************************************)
(* What ICheckpointSync promises of the latest checkpoint of a session:    *)
(* marks take effect one at a time, each once, and asking for the latest   *)
(* gives the last one marked at some moment between question and answer.   *)
(* A store may forget it, but never goes back to one that was overtaken.   *)
(***************************************************************************)
CONSTANTS Clients, Checkpoints, NoCheckpoint

VARIABLES
  latest, (* the latest checkpoint, or NoCheckpoint                          *)
  marked, (* the checkpoints that have been latest                           *)
  answer  (* client -> what it was told, or "nothing"                        *)

vars == <<latest, marked, answer>>

Init ==
  /\ latest = NoCheckpoint /\ marked = {}
  /\ answer = [c \in Clients |-> "nothing"]

Mark(k) == k \notin marked /\ latest' = k /\ marked' = marked \union {k} /\ UNCHANGED answer
Forget == latest' = NoCheckpoint /\ UNCHANGED <<marked, answer>>
Tell(c) == answer' = [answer EXCEPT ![c] = latest] /\ UNCHANGED <<latest, marked>>
AskAgain(c) == answer' = [answer EXCEPT ![c] = "nothing"] /\ UNCHANGED <<latest, marked>>

Next ==
  \/ \E k \in Checkpoints : Mark(k)
  \/ Forget
  \/ \E c \in Clients : Tell(c) \/ AskAgain(c)

Spec == Init /\ [][Next]_vars
==============================================================================
