------------------------------ MODULE LocalSession ------------------------------
(***************************************************************************)
(* A session kept in this process: InProcessSessionAdapter holds it in     *)
(* memory, CLISessionAdapter holds its checkpoints in files (session/      *)
(* adapters/), and SessionCoordinator acts on the deliveries that it is    *)
(* told of (session/coordinator.py).  No call suspends while it works on   *)
(* the session, so each is a step.  Files are ordered by the time of their *)
(* last change, whose grain is coarse: checkpoints marked in one tick tie. *)
(***************************************************************************)
EXTENDS Naturals, FiniteSets

CONSTANTS
  Ids,        (* checkpoint ids                                              *)
  MaxAge,     (* how long close() of the CLI adapter spares old files        *)
  TTL,        (* config.ttl_seconds                                          *)
  MaxNow      (* bound: ticks of the clock                                   *)

VARIABLES
  adapter,  (* "inprocess" or "cli"                                          *)
  life,     (* "none" before open, then the status                           *)
  kept,     (* the checkpoints that are stored                               *)
  stamp,    (* when each was stored                                          *)
  clock,
  newest,   (* when the last checkpoint was marked                           *)
  outcome,  (* what the last call came to                                    *)
  told      (* the checkpoints get_latest may have answered                  *)

vars == <<adapter, life, kept, stamp, clock, newest, outcome, told>>

Init ==
  /\ adapter \in {"inprocess", "cli"}
  /\ life = "none" /\ kept = {} /\ stamp = [k \in Ids |-> 0]
  /\ clock = 1 /\ newest = 0 /\ outcome = "none" /\ told = {}

(* The last of the stored checkpoints; of files that tie any may be.        *)
Latest == {k \in kept : \A j \in kept : stamp[j] <= stamp[k]}

------------------------------------------------------------------------------
(* Faults: wrong versions of definitions below, which the runs swap in.     *)

(* prune keeps the first of the list *)
KeepFirst(n) ==
  {K \in SUBSET kept : /\ Cardinality(K) = (IF Cardinality(kept) < n THEN Cardinality(kept) ELSE n)
                       /\ \A k \in K, j \in kept \ K : stamp[j] >= stamp[k]}

(* a session that was closed has its checkpoints still *)
StillKnown == life # "none"
------------------------------------------------------------------------------
(* What prune spares by number: the last n of the list sorted by time.      *)
LastOf(n) ==
  {K \in SUBSET kept : /\ Cardinality(K) = (IF Cardinality(kept) < n THEN Cardinality(kept) ELSE n)
                       /\ \A k \in K, j \in kept \ K : stamp[j] <= stamp[k]}

(* What may be left after prune(keep_last = n, max_age_seconds = age): the  *)
(* slices [:-0] and [-0:] make it spare all when n is 0; age counts for     *)
(* files only.                                                              *)
Pruned(n, age) ==
  IF n = 0 THEN {kept}
  ELSE {K \union {k \in kept : adapter = "cli" /\ clock - stamp[k] <= age} : K \in LastOf(n)}

Open ==
  /\ life = "none" /\ life' = "active" /\ outcome' = "opened"
  /\ UNCHANGED <<adapter, kept, stamp, clock, newest, told>>

(* close, and what its caller is told: the CLI adapter raises for a session *)
(* it does not know.                                                        *)
Close(done) ==
  /\ told' = {}
  /\ IF life = "none"
     THEN /\ outcome' = (IF adapter = "cli" THEN "crashed" ELSE done)
          /\ UNCHANGED <<life, kept>>
     ELSE /\ life' = "closed" /\ outcome' = done
          /\ IF adapter = "cli" THEN kept' \in Pruned(1, MaxAge) ELSE kept' = {}
  /\ UNCHANGED <<adapter, stamp, clock, newest>>

(* handle_success refreshes; the CLI adapter finds out that the time is up, *)
(* the one in memory prolongs whatever it has.                              *)
HandleSuccess ==
  /\ life' = IF adapter = "cli" /\ life # "none" /\ clock > TTL THEN "expired" ELSE life
  /\ outcome' = "continue" /\ told' = {}
  /\ UNCHANGED <<adapter, kept, stamp, clock, newest>>

(* handle_failure does as the hook says.  An error whose type is no         *)
(* ErrorType, of which several handlers raise, ends the abort before close. *)
HandleFailure ==
  \/ /\ outcome' = "retry" /\ told' = {}
     /\ UNCHANGED <<adapter, life, kept, stamp, clock, newest>>
  \/ Close("aborted")
  \/ /\ outcome' = "crashed" /\ told' = {}
     /\ UNCHANGED <<adapter, life, kept, stamp, clock, newest>>

(* _execute_restore                                                         *)
Restore ==
  /\ kept # {}
  /\ told' = Latest /\ outcome' = "restored"
  /\ UNCHANGED <<adapter, life, kept, stamp, clock, newest>>

RestoreNothing == kept = {} /\ Close("aborted")

(* whether mark takes a checkpoint                                          *)
Known == life # "none" /\ (adapter = "inprocess" => life # "closed")

(* A list has an order even within a tick; files have not.                  *)
MarkCheckpoint ==
  /\ told' = {}
  /\ \/ /\ Known
        /\ adapter = "inprocess" => newest < clock
        /\ \E k \in Ids \ kept :
             kept' = kept \union {k} /\ stamp' = [stamp EXCEPT ![k] = clock]
        /\ newest' = clock /\ outcome' = "marked"
     \/ /\ ~Known /\ outcome' = "crashed"
        /\ UNCHANGED <<kept, stamp, newest>>
  /\ UNCHANGED <<adapter, life, clock>>

(* restore_checkpoint takes the bytes it gets for a pair, which raises      *)
(* except on two bytes.                                                     *)
RestoreCheckpoint ==
  /\ outcome' = "crashed" /\ told' = {}
  /\ UNCHANGED <<adapter, life, kept, stamp, clock, newest>>

Prune ==
  /\ \E n \in 0 .. 2, age \in {0, MaxAge} : kept' \in Pruned(n, age)
  /\ outcome' = "pruned" /\ told' = {}
  /\ UNCHANGED <<adapter, life, stamp, clock, newest>>

Tick ==
  /\ clock < MaxNow /\ clock' = clock + 1
  /\ UNCHANGED <<adapter, life, kept, stamp, newest, outcome, told>>

Next ==
  \/ Open \/ Close("closed") \/ HandleSuccess \/ HandleFailure \/ Restore \/ RestoreNothing
  \/ MarkCheckpoint \/ RestoreCheckpoint \/ Prune \/ Tick

Spec == Init /\ [][Next]_vars

------------------------------------------------------------------------------
(* A checkpoint that the coordinator restores was marked no earlier than    *)
(* any other, pruned or not, within the grain of the clock: pruning and the *)
(* close of the CLI adapter never take the newest and leave an older one    *)
(* (prune, close, get_latest).                                              *)
RestoresNewest == \A k \in told : stamp[k] = newest

(* A session held in memory has no checkpoints once it is closed, whatever  *)
(* is called on it afterwards, so nothing can be restored from it and a     *)
(* restore ends it in an abort (close, mark, handle_failure).               *)
ClosedHoldsNothing == adapter = "inprocess" /\ life = "closed" => kept = {}
==============================================================================
