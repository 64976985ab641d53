--------------------------- MODULE BreakerProtocol ---------------------------
(***************************************************************************)
(* What a circuit breaker promises the callers it guards, whatever         *)
(* bookkeeping it uses: requests are let through while the circuit is      *)
(* closed; an open circuit is tried again only once it has cooled down     *)
(* since the last failure; and a circuit on trial closes only after        *)
(* Required results in a row were successes, one failure being enough to   *)
(* open it again.  CircuitBreaker implements this specification.           *)
(***************************************************************************)
EXTENDS Naturals

CONSTANT Required   (* successes in a row that end a trial *)

VARIABLES
  phase,   (* "closed", "open" or "half_open"                               *)
  streak,  (* successes seen since the trial began; 0 when there is no trial *)
  cooled   (* an open circuit may be tried again                            *)

vars == <<phase, streak, cooled>>

Init == phase = "closed" /\ streak = 0 /\ cooled = FALSE

(* A failure opens a closed circuit, or ends a trial. *)
Trip ==
  /\ phase \in {"closed", "half_open"}
  /\ phase' = "open"
  /\ streak' = 0
  /\ cooled' = FALSE

Cool ==
  /\ phase = "open"
  /\ cooled' = TRUE
  /\ UNCHANGED <<phase, streak>>

(* The result of a request admitted earlier arrives late and is a failure. *)
Relapse ==
  /\ phase = "open"
  /\ cooled' = FALSE
  /\ UNCHANGED <<phase, streak>>

Try ==
  /\ phase = "open"
  /\ cooled
  /\ phase' = "half_open"
  /\ streak' = 0
  /\ cooled' = FALSE

Confirm ==
  /\ phase = "half_open"
  /\ streak + 1 < Required
  /\ streak' = streak + 1
  /\ UNCHANGED <<phase, cooled>>

Recover ==
  /\ phase = "half_open"
  /\ streak + 1 = Required
  /\ phase' = "closed"
  /\ streak' = 0
  /\ UNCHANGED cooled

Next == Trip \/ Cool \/ Relapse \/ Try \/ Confirm \/ Recover

Spec == Init /\ [][Next]_vars

==============================================================================
