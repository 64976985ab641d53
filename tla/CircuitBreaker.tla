---------------------------- MODULE CircuitBreaker ----------------------------
(***************************************************************************)
(* AsyncCircuitBreaker (network/resilience/circuit_breaker.py): concurrent *)
(* callers wrap a network operation in call().  The breaker's lock is held *)
(* only over code that does not await, so admitting a call is one step and *)
(* recording its result is another; the guarded operation runs between the *)
(* two with no lock held, and the circuit may have changed any number of   *)
(* times before its result is recorded.                                    *)
(*                                                                         *)
(* Time is kept as the age of the last failure, which the code only        *)
(* compares with recovery_timeout, so it stops growing there.              *)
(***************************************************************************)
EXTENDS Integers

CONSTANTS
  Callers,           (* coroutines that use this breaker                    *)
  FailureThreshold,  (* failure_threshold                                   *)
  SuccessThreshold,  (* success_threshold                                   *)
  RecoveryTimeout,   (* recovery_timeout, in ticks                          *)
  FailureBound       (* bound: no operation fails at this failure count     *)

ASSUME BreakerAssumption ==
  /\ FailureThreshold \in Nat \ {0}
  /\ SuccessThreshold \in Nat \ {0}
  /\ RecoveryTimeout \in Nat \ {0}
  /\ FailureBound \in Nat

VARIABLES
  circuit,       (* _state                                                  *)
  failureCount,  (* _failure_count                                          *)
  successCount,  (* _success_count                                          *)
  sinceFailure,  (* age of _last_failure_time, Never while that is None     *)
  call           (* caller -> "none", or the circuit state its running call *)
                 (* was admitted in                                         *)

breakerVars == <<circuit, failureCount, successCount, sinceFailure, call>>

Never == -1
CircuitState == {"closed", "open", "half_open"}

BreakerInit ==
  /\ circuit = "closed"
  /\ failureCount = 0
  /\ successCount = 0
  /\ sinceFailure = Never
  /\ call = [c \in Callers |-> "none"]

------------------------------------------------------------------------------
(* Faults: wrong versions of definitions below.  The runs put each in the   *)
(* place of the right one to see the property it is aimed at fail.          *)

(* recovery_timeout is not waited for *)
RecoveryDueAtOnce == circuit = "open" /\ sinceFailure # Never

(* a refused call is recorded as a failure (the raise moved into the try)   *)
RejectAsFailure(c) ==
  /\ call[c] = "none" /\ circuit = "open" /\ sinceFailure < RecoveryTimeout
  /\ sinceFailure' = 0
  /\ UNCHANGED <<circuit, failureCount, successCount, call>>

(* the trial is never ended by successes *)
CountProbeOnly ==
  /\ circuit = "half_open"
  /\ successCount' = successCount + 1
  /\ UNCHANGED <<circuit, failureCount>>

(* recovery forgets to reset failure_count *)
CountProbeKeepFailures ==
  /\ circuit = "half_open"
  /\ successCount' = successCount + 1
  /\ circuit' = IF successCount' >= SuccessThreshold THEN "closed" ELSE circuit
  /\ UNCHANGED failureCount

(* a failure on trial opens the circuit only at the threshold *)
RecordFailureByCount ==
  /\ failureCount' = failureCount + 1
  /\ sinceFailure' = 0
  /\ circuit' = IF failureCount' >= FailureThreshold THEN "open" ELSE circuit
  /\ UNCHANGED successCount

------------------------------------------------------------------------------
(* call(): the locked check, then the operation starts or is refused.       *)

RecoveryDue ==
  /\ circuit = "open"
  /\ sinceFailure # Never
  /\ sinceFailure >= RecoveryTimeout

CheckStateTransition ==
  \/ /\ RecoveryDue
     /\ circuit' = "half_open"
     /\ successCount' = 0
  \/ /\ ~RecoveryDue
     /\ UNCHANGED <<circuit, successCount>>

Admit(c) ==
  /\ call[c] = "none"
  /\ CheckStateTransition
  /\ circuit' # "open"
  /\ call' = [call EXCEPT ![c] = circuit']
  /\ UNCHANGED <<failureCount, sinceFailure>>

(* CircuitBreakerError: the caller learns it, the breaker does not change. *)
Reject(c) ==
  /\ call[c] = "none"
  /\ CheckStateTransition
  /\ circuit' = "open"
  /\ UNCHANGED <<failureCount, sinceFailure, call>>

------------------------------------------------------------------------------
(* The operation ended: _record_success, _record_failure, or nothing at all *)
(* when the caller was cancelled (CancelledError is not an Exception).      *)

CountProbe ==
  /\ circuit = "half_open"
  /\ successCount' = successCount + 1
  /\ IF successCount' >= SuccessThreshold
       THEN circuit' = "closed" /\ failureCount' = 0
       ELSE UNCHANGED <<circuit, failureCount>>

ForgiveFailure ==
  /\ circuit # "half_open"
  /\ failureCount' = IF failureCount > 0 THEN failureCount - 1 ELSE 0
  /\ UNCHANGED <<circuit, successCount>>

RecordSuccess == (CountProbe \/ ForgiveFailure) /\ UNCHANGED sinceFailure

RecordFailure ==
  /\ failureCount' = failureCount + 1
  /\ sinceFailure' = 0
  /\ circuit' = IF circuit = "half_open" \/ failureCount' >= FailureThreshold
                  THEN "open" ELSE circuit
  /\ UNCHANGED successCount

Return(c) == call[c] # "none" /\ call' = [call EXCEPT ![c] = "none"]

Succeed(c) == Return(c) /\ RecordSuccess
Fail(c)    == Return(c) /\ failureCount < FailureBound /\ RecordFailure
CancelCall(c) == Return(c) /\ UNCHANGED <<circuit, failureCount, successCount, sinceFailure>>

Tick ==
  /\ sinceFailure # Never
  /\ sinceFailure < RecoveryTimeout
  /\ sinceFailure' = sinceFailure + 1
  /\ UNCHANGED <<circuit, failureCount, successCount, call>>

BreakerNext ==
  \/ \E c \in Callers : Admit(c) \/ Reject(c)
  \/ \E c \in Callers : Succeed(c) \/ Fail(c) \/ CancelCall(c)
  \/ Tick

BreakerSpec == BreakerInit /\ [][BreakerNext]_breakerVars

(* Time passes, every operation ends (transports bound theirs by timeouts),  *)
(* and callers come back; the breaker itself has no timer: it leaves OPEN    *)
(* only inside a call.                                                       *)
BreakerFairness ==
  /\ WF_breakerVars(Tick)
  /\ \A c \in Callers : WF_breakerVars(Admit(c)) /\ WF_breakerVars(Succeed(c) \/ Fail(c) \/ CancelCall(c))

BreakerFairSpec == BreakerSpec /\ BreakerFairness

------------------------------------------------------------------------------
(* The variables hold values the code can give them. *)
BreakerTypes ==
  /\ circuit \in CircuitState
  /\ failureCount \in Nat
  /\ successCount \in 0..SuccessThreshold
  /\ sinceFailure \in {Never} \cup (0..RecoveryTimeout)
  /\ call \in [Callers -> {"none", "closed", "half_open"}]

(* A closed circuit has failure budget left: however failures, late results  *)
(* and recoveries interleave, call() never lets requests through with the    *)
(* threshold already reached (failure_count is reset on recovery only).      *)
ClosedBelowThreshold == circuit = "closed" => failureCount < FailureThreshold

(* A trial is clean: while the circuit is half open no failure has been      *)
(* recorded for recovery_timeout, late ones of calls admitted before the     *)
(* trial included, and the trial is not already won.                         *)
TrialIsClean ==
  circuit = "half_open" => /\ sinceFailure = RecoveryTimeout
                           /\ successCount < SuccessThreshold

(* The breaker implements the abstract protocol. *)
Protocol == INSTANCE BreakerProtocol WITH
  Required <- SuccessThreshold,
  phase    <- circuit,
  streak   <- IF circuit = "half_open" THEN successCount ELSE 0,
  cooled   <- circuit = "open" /\ sinceFailure = RecoveryTimeout

ImplementsProtocol == Protocol!Spec

(* An open circuit does not refuse forever: results that arrive late push    *)
(* the recovery time back, but only finitely often.                          *)
EventuallyTried == circuit = "open" ~> circuit # "open"

==============================================================================
