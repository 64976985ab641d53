------------------------------ MODULE RetryEngine ------------------------------
(***************************************************************************)
(* RetryEngine.execute_with_retry (transport/retry.py) with the hooks of   *)
(* session/hooks/retry_hooks.py: calls that run at the same time, each     *)
(* repeating one operation of the transport under a common policy.  What   *)
(* an attempt does and how it ends is the transport's: here any attempt    *)
(* may end in any way, and UdsClient says how those of one transport do.   *)
(*                                                                         *)
(* A reported failure that carries no exception, an exception and a        *)
(* TransportError are all errors of one of two types, transient or         *)
(* permanent, by the time the hook sees them.                              *)
(***************************************************************************)
EXTENDS Naturals

CONSTANTS
  Calls,
  MaxAttempts,  (* max_attempts of the policy, validated to be at least 1 *)
  Hooks         (* the policies considered: see Decide                    *)

HookKinds == {"none", "checkpoint", "checkpoint_0", "graceful", "raises"}

ASSUME RetryAssumption == MaxAttempts \in Nat \ {0} /\ Hooks \subseteq HookKinds

VARIABLES
  hook,   (* the policy                                                      *)
  call,   (* call -> where it is and the number of the attempt under way,    *)
          (* or of the last one                                              *)
  report, (* call -> the report it returned: success, and retry_count        *)
  err     (* call -> the type of its last error                              *)

retryVars == <<hook, call, report, err>>

ErrorType == {"transient", "permanent"}

NoReport == [success |-> FALSE, retries |-> 0]

EngineInit ==
  /\ hook \in Hooks
  /\ call = [r \in Calls |-> [at |-> "idle", attempt |-> 0]]
  /\ report = [r \in Calls |-> NoReport]
  /\ err = [r \in Calls |-> "none"]

(* What the hook decides about an error of attempt n.  checkpoint is         *)
(* CheckpointRestoreHook, with max_restore_attempts = 0 in the second place; *)
(* graceful is GracefulAbortHook, which with or without its single retry     *)
(* aborts, since attempts count from 1; a hook that raises counts as abort.  *)
Decide(e, n) ==
  CASE hook = "none" -> IF e = "transient" THEN "retry" ELSE "abort"
    [] hook = "checkpoint" ->
         IF e = "permanent" \/ n >= MaxAttempts THEN "restore_checkpoint" ELSE "retry"
    [] hook = "checkpoint_0" ->
         IF e = "permanent" \/ n >= MaxAttempts THEN "abort" ELSE "retry"
    [] hook \in {"graceful", "raises"} -> "abort"

Trying(r) == call[r].at = "trying"

Finish(r, success, retries) ==
  /\ call' = [call EXCEPT ![r].at = "done"]
  /\ report' = [report EXCEPT ![r] = [success |-> success, retries |-> retries]]

------------------------------------------------------------------------------
(* Faults: wrong versions of definitions below, which the runs swap in.     *)

(* one attempt too many *)
RepeatOnceMore(r, e) ==
  /\ Trying(r)
  /\ Decide(e, call[r].attempt) = "retry"
  /\ call[r].attempt <= MaxAttempts
  /\ call' = [call EXCEPT ![r].at = "backoff"]
  /\ err' = [err EXCEPT ![r] = e]
  /\ UNCHANGED <<hook, report>>

(* the loop goes on without counting the attempt *)
BackoffEndsUncounted(r) ==
  /\ call[r].at = "backoff"
  /\ call' = [call EXCEPT ![r].at = "trying"]
  /\ UNCHANGED <<hook, report, err>>

------------------------------------------------------------------------------
Begin(r) ==
  /\ call[r].at = "idle"
  /\ call' = [call EXCEPT ![r] = [at |-> "trying", attempt |-> 1]]
  /\ UNCHANGED <<hook, report, err>>

Succeed(r) ==
  /\ Trying(r)
  /\ Finish(r, TRUE, call[r].attempt - 1)
  /\ UNCHANGED <<hook, err>>

GiveUp(r, e) ==
  /\ Trying(r)
  /\ Decide(e, call[r].attempt) # "retry"
  /\ Finish(r, FALSE, call[r].attempt - 1)
  /\ err' = [err EXCEPT ![r] = e]
  /\ UNCHANGED hook

Repeat(r, e) ==
  /\ Trying(r)
  /\ Decide(e, call[r].attempt) = "retry"
  /\ call[r].attempt < MaxAttempts
  /\ call' = [call EXCEPT ![r].at = "backoff"]
  /\ err' = [err EXCEPT ![r] = e]
  /\ UNCHANGED <<hook, report>>

(* The last attempt failed and the hook asks for another: all the attempts   *)
(* are reported as retries, the first one too.                               *)
Exhausted(r, e) ==
  /\ Trying(r)
  /\ Decide(e, call[r].attempt) = "retry"
  /\ call[r].attempt = MaxAttempts
  /\ Finish(r, FALSE, MaxAttempts)
  /\ err' = [err EXCEPT ![r] = e]
  /\ UNCHANGED hook

BackoffEnds(r) ==
  /\ call[r].at = "backoff"
  /\ call' = [call EXCEPT ![r] = [at |-> "trying", attempt |-> @.attempt + 1]]
  /\ UNCHANGED <<hook, report, err>>

Fail(r, e) == GiveUp(r, e) \/ Repeat(r, e) \/ Exhausted(r, e)

------------------------------------------------------------------------------
EngineTypeOK ==
  /\ hook \in Hooks
  /\ call \in [Calls -> [at : {"idle", "trying", "backoff", "done"}, attempt : 0..MaxAttempts]]
  /\ report \in [Calls -> [success : BOOLEAN, retries : 0..MaxAttempts]]
  /\ err \in [Calls -> ErrorType \cup {"none"}]

(* The policy bounds the attempts; only transient errors lead to another one,*)
(* and not at all under a hook that aborts; a successful report counts the   *)
(* repetitions, and a failed one is off by one at most, when the attempts    *)
(* are exhausted.                                                            *)
RetryBounded ==
  /\ EngineTypeOK
  /\ \A r \in Calls :
       /\ call[r].at = "trying" => call[r].attempt > 0
       /\ call[r].at = "backoff" => err[r] = "transient" /\ call[r].attempt \in 1..(MaxAttempts - 1)
       /\ call[r].attempt > 1 => hook \notin {"graceful", "raises"}
       /\ call[r].at = "done" =>
            \/ report[r].retries = call[r].attempt - 1
            \/ /\ ~report[r].success /\ err[r] = "transient" /\ hook = "none"
               /\ call[r].attempt = MaxAttempts /\ report[r].retries = MaxAttempts

==============================================================================
