---------------------------- MODULE ConnectionProofs ----------------------------
(***************************************************************************)
(* Theorems about what stands between a caller and its transporter, for    *)
(* any number of tasks, callers and members: the circuit breaker, the      *)
(* channel and the composite transporter.                                  *)
(***************************************************************************)
EXTENDS CircuitBreaker, Channel, Composite, TLAPS

------------------------------------------------------------------------------
(* The circuit breaker: the invariants the runs check support each other.   *)
(* A closed circuit is below the threshold because recovery resets the      *)
(* count, and recovery happens only out of a trial, whose success count is  *)
(* bounded because reaching the limit ends it.  So they are proved together. *)
BreakerInv == BreakerTypes /\ ClosedBelowThreshold /\ TrialIsClean

LEMMA BreakerStarts == BreakerInit => BreakerInv
  BY BreakerAssumption
  DEF BreakerInit, BreakerInv, BreakerTypes, ClosedBelowThreshold, TrialIsClean, CircuitState, Never

LEMMA BreakerSteps == BreakerInv /\ [BreakerNext]_breakerVars => BreakerInv'
  <1> SUFFICES ASSUME BreakerInv, [BreakerNext]_breakerVars
               PROVE  BreakerInv'
    OBVIOUS
  <1> USE BreakerAssumption
      DEF BreakerInv, BreakerTypes, ClosedBelowThreshold, TrialIsClean, CircuitState, Never
  <1>1. ASSUME NEW c \in Callers, Admit(c)
        PROVE  BreakerInv'
    BY <1>1 DEF Admit, CheckStateTransition, RecoveryDue
  <1>2. ASSUME NEW c \in Callers, Reject(c)
        PROVE  BreakerInv'
    BY <1>2 DEF Reject, CheckStateTransition, RecoveryDue
  <1>3. ASSUME NEW c \in Callers, Succeed(c)
        PROVE  BreakerInv'
    <2>1. call' \in [Callers -> {"none", "closed", "half_open"}]
      BY <1>3 DEF Succeed, Return
    <2>2. CASE CountProbe
      BY <1>3, <2>1, <2>2 DEF Succeed, RecordSuccess, CountProbe
    <2>3. CASE ForgiveFailure
      BY <1>3, <2>1, <2>3 DEF Succeed, RecordSuccess, ForgiveFailure
    <2>4. QED
      BY <1>3, <2>2, <2>3 DEF Succeed, RecordSuccess
  <1>4. ASSUME NEW c \in Callers, Fail(c)
        PROVE  BreakerInv'
    BY <1>4 DEF Fail, Return, RecordFailure
  <1>5. ASSUME NEW c \in Callers, CancelCall(c)
        PROVE  BreakerInv'
    BY <1>5 DEF CancelCall, Return
  <1>6. CASE Tick
    BY <1>6 DEF Tick
  <1>7. CASE UNCHANGED breakerVars
    BY <1>7 DEF breakerVars
  <1>8. QED
    BY <1>1, <1>2, <1>3, <1>4, <1>5, <1>6, <1>7 DEF BreakerNext

(* All three invariants, for any number of callers: no interleaving of      *)
(* results, late or not, leaves the breaker closed over its threshold or on *)
(* a trial that has already seen a failure.                                 *)
THEOREM BreakerInvariant == BreakerSpec => []BreakerInv
  BY BreakerStarts, BreakerSteps, PTL DEF BreakerSpec

THEOREM BreakerTypeOK == BreakerSpec => []BreakerTypes
  <1>1. BreakerInv => BreakerTypes
    BY DEF BreakerInv
  <1>2. QED
    BY BreakerInvariant, <1>1, PTL

(* call() lets requests through only below failure_threshold. *)
THEOREM BreakerClosedBelowThreshold == BreakerSpec => []ClosedBelowThreshold
  <1>1. BreakerInv => ClosedBelowThreshold
    BY DEF BreakerInv
  <1>2. QED
    BY BreakerInvariant, <1>1, PTL

(* No failure has been recorded for recovery_timeout while HALF_OPEN. *)
THEOREM BreakerTrialIsClean == BreakerSpec => []TrialIsClean
  <1>1. BreakerInv => TrialIsClean
    BY DEF BreakerInv
  <1>2. QED
    BY BreakerInvariant, <1>1, PTL

------------------------------------------------------------------------------
(* Refinement: every step of the breaker is a step of the protocol, or      *)
(* changes nothing the protocol sees.                                       *)

LEMMA InitProtocol == BreakerInit => Protocol!Init
  BY DEF BreakerInit, Protocol!Init, Never

LEMMA NextProtocol == BreakerInv /\ [BreakerNext]_breakerVars => [Protocol!Next]_(Protocol!vars)
  <1> SUFFICES ASSUME BreakerInv, [BreakerNext]_breakerVars
               PROVE  Protocol!Next \/ UNCHANGED Protocol!vars
    OBVIOUS
  <1> USE BreakerAssumption
      DEF BreakerInv, BreakerTypes, ClosedBelowThreshold, TrialIsClean, CircuitState, Never,
          Protocol!vars, Protocol!Next
  <1>1. ASSUME NEW c \in Callers, Admit(c)
        PROVE  Protocol!Try \/ UNCHANGED Protocol!vars
    BY <1>1 DEF Admit, CheckStateTransition, RecoveryDue, Protocol!Try
  <1>2. ASSUME NEW c \in Callers, Reject(c)
        PROVE  UNCHANGED Protocol!vars
    BY <1>2 DEF Reject, CheckStateTransition, RecoveryDue
  <1>3. ASSUME NEW c \in Callers, Succeed(c)
        PROVE  Protocol!Confirm \/ Protocol!Recover \/ UNCHANGED Protocol!vars
    <2>1. CASE CountProbe
      <3>1. CASE successCount + 1 < SuccessThreshold
        BY <1>3, <2>1, <3>1 DEF Succeed, RecordSuccess, CountProbe, Protocol!Confirm
      <3>2. CASE successCount + 1 = SuccessThreshold
        BY <1>3, <2>1, <3>2 DEF Succeed, RecordSuccess, CountProbe, Protocol!Recover
      <3>3. QED
        BY <2>1, <3>1, <3>2 DEF CountProbe
    <2>2. CASE ForgiveFailure
      BY <1>3, <2>2 DEF Succeed, RecordSuccess, ForgiveFailure
    <2>3. QED
      BY <1>3, <2>1, <2>2 DEF Succeed, RecordSuccess
  <1>4. ASSUME NEW c \in Callers, Fail(c)
        PROVE  Protocol!Trip \/ Protocol!Relapse \/ UNCHANGED Protocol!vars
    <2>1. CASE circuit = "open"
      BY <1>4, <2>1 DEF Fail, RecordFailure, Protocol!Relapse
    <2>2. CASE circuit # "open"
      BY <1>4, <2>2 DEF Fail, RecordFailure, Protocol!Trip
    <2>3. QED
      BY <2>1, <2>2
  <1>5. ASSUME NEW c \in Callers, CancelCall(c)
        PROVE  UNCHANGED Protocol!vars
    BY <1>5 DEF CancelCall
  <1>6. CASE Tick
    <2>1. CASE circuit = "open" /\ sinceFailure' = RecoveryTimeout
      BY <1>6, <2>1 DEF Tick, Protocol!Cool
    <2>2. CASE ~(circuit = "open" /\ sinceFailure' = RecoveryTimeout)
      BY <1>6, <2>2 DEF Tick
    <2>3. QED
      BY <2>1, <2>2
  <1>7. CASE UNCHANGED breakerVars
    BY <1>7 DEF breakerVars
  <1>8. QED
    BY <1>1, <1>2, <1>3, <1>4, <1>5, <1>6, <1>7 DEF BreakerNext

(* AsyncCircuitBreaker implements the abstract breaker: it closes again     *)
(* only after success_threshold results in a row, seen on trial, succeeded. *)
THEOREM BreakerImplementsProtocol == BreakerSpec => ImplementsProtocol
  BY InitProtocol, NextProtocol, BreakerInvariant, PTL
  DEF BreakerSpec, ImplementsProtocol, Protocol!Spec

------------------------------------------------------------------------------
(* The channel, for either kind of transporter: LockDiscipline is inductive. *)
(* It says who owns a transitional state, which is what the action          *)
(* properties rest on.                                                      *)
LEMMA InitLockDiscipline == ChannelInit => LockDiscipline
  BY ChannelAssumption
  DEF ChannelInit, LockDiscipline, ChannelTypes, ChannelState, Waiting, Holding, Ended

LEMMA NextLockDiscipline == LockDiscipline /\ [ChannelNext]_channelVars => LockDiscipline'
  <1> SUFFICES ASSUME LockDiscipline, [ChannelNext]_channelVars
               PROVE  LockDiscipline'
    OBVIOUS
  <1> USE ChannelAssumption
      DEF LockDiscipline, ChannelTypes, ChannelState, Waiting, Holding, Ended, Goto
  <1>1. ASSUME NEW t \in Tasks, Begin(t, "want_open") \/ Begin(t, "want_close")
        PROVE  LockDiscipline'
    BY <1>1 DEF Begin
  <1>2. ASSUME NEW t \in Tasks, Send(t)
        PROVE  LockDiscipline'
    BY <1>2 DEF Send
  <1>3. ASSUME NEW t \in Tasks, EnterOpen(t)
        PROVE  LockDiscipline'
    <2>1. CASE AlreadyOpen(t)
      BY <1>3, <2>1 DEF EnterOpen, AlreadyOpen
    <2>2. CASE RefuseOpen(t)
      BY <1>3, <2>2 DEF EnterOpen, RefuseOpen
    <2>3. CASE StartOpen(t)
      BY <1>3, <2>3 DEF EnterOpen, StartOpen
    <2>4. QED
      BY <1>3, <2>1, <2>2, <2>3 DEF EnterOpen
  <1>4. ASSUME NEW t \in Tasks, FinishOpen(t)
        PROVE  LockDiscipline'
    BY <1>4 DEF FinishOpen, Connected, ConnectFailed
  <1>5. ASSUME NEW t \in Tasks, EnterClose(t)
        PROVE  LockDiscipline'
    BY <1>5 DEF EnterClose, AlreadyClosed, StartClose
  <1>6. ASSUME NEW t \in Tasks, FinishClose(t)
        PROVE  LockDiscipline'
    BY <1>6 DEF FinishClose
  <1>7. ASSUME NEW t \in Tasks, FinishSend(t)
        PROVE  LockDiscipline'
    BY <1>7 DEF FinishSend
  <1>8. ASSUME NEW t \in Tasks, TransitionToFailed(t)
        PROVE  LockDiscipline'
    BY <1>8 DEF TransitionToFailed
  <1>9. ASSUME NEW t \in Tasks, Cancel(t)
        PROVE  LockDiscipline'
    BY <1>9 DEF Cancel
  <1>10. CASE UNCHANGED channelVars
    BY <1>10 DEF channelVars
  <1>11. QED
    BY <1>1, <1>2, <1>3, <1>4, <1>5, <1>6, <1>7, <1>8, <1>9, <1>10
    DEF ChannelNext, Enter, Finish

(* The lock is held exactly across the awaits of open() and close(), and    *)
(* the task at that await owns the transitional state.                      *)
THEOREM ChannelLockDiscipline == ChannelSpec => []LockDiscipline
  BY InitLockDiscipline, NextLockDiscipline, PTL DEF ChannelSpec

------------------------------------------------------------------------------
(* What one step may do, given the discipline. *)

LEMMA StepStrands ==
  LockDiscipline /\ ChannelNext /\ ~Stranded /\ Stranded' =>
    \E t \in Tasks : pc[t] \in Holding /\ pc'[t] = "cancelled"
  <1> SUFFICES ASSUME LockDiscipline, ChannelNext, ~Stranded, Stranded'
               PROVE  \E t \in Tasks : pc[t] \in Holding /\ pc'[t] = "cancelled"
    OBVIOUS
  <1> USE ChannelAssumption
      DEF LockDiscipline, ChannelTypes, ChannelState, Waiting, Holding, Ended, Goto, Stranded
  <1>1. PICK t \in Tasks :
          \/ Begin(t, "want_open") \/ Begin(t, "want_close") \/ Send(t)
          \/ Enter(t) \/ Finish(t) \/ Cancel(t)
    BY DEF ChannelNext
  <1>2. ~Begin(t, "want_open") /\ ~Begin(t, "want_close") /\ ~Send(t)
    BY DEF Begin, Send
  <1>3. ~Enter(t)
    BY DEF Enter, EnterOpen, AlreadyOpen, RefuseOpen, StartOpen, EnterClose,
           AlreadyClosed, StartClose, TransitionToFailed
  <1>4. ~Finish(t)
    BY DEF Finish, FinishOpen, Connected, ConnectFailed, FinishClose, FinishSend
  <1>5. Cancel(t)
    BY <1>1, <1>2, <1>3, <1>4
  <1>6. lock = t
    BY <1>5 DEF Cancel
  <1>7. QED
    BY <1>5, <1>6 DEF Cancel

(* Nothing but a cancellation leaves the channel CONNECTING or DRAINING     *)
(* with no task to finish the job.                                          *)
THEOREM ChannelStrandedOnlyByCancel == ChannelSpec => StrandedOnlyByCancel
  <1>1. LockDiscipline /\ [ChannelNext]_channelVars =>
          [~Stranded /\ Stranded' =>
             \E t \in Tasks : pc[t] \in Holding /\ pc'[t] = "cancelled"]_channelVars
    BY StepStrands
  <1>2. QED
    BY <1>1, ChannelLockDiscipline, PTL DEF ChannelSpec, StrandedOnlyByCancel

LEMMA StepIsLegal ==
  LockDiscipline /\ ChannelNext => (<<state, state'>>) \in Transitions \/ UNCHANGED state
  <1> SUFFICES ASSUME LockDiscipline, ChannelNext
               PROVE  (<<state, state'>>) \in Transitions \/ UNCHANGED state
    OBVIOUS
  <1> USE DEF LockDiscipline, ChannelTypes, ChannelState, Transitions
  <1>1. ASSUME NEW t \in Tasks, Begin(t, "want_open") \/ Begin(t, "want_close")
               \/ Send(t) \/ FinishSend(t) \/ Cancel(t)
        PROVE  UNCHANGED state
    BY <1>1 DEF Begin, Send, FinishSend, Cancel
  <1>2. ASSUME NEW t \in Tasks, Enter(t)
        PROVE  (<<state, state'>>) \in Transitions \/ UNCHANGED state
    BY <1>2 DEF Enter, EnterOpen, AlreadyOpen, RefuseOpen, StartOpen, EnterClose,
                AlreadyClosed, StartClose, TransitionToFailed
  <1>3. ASSUME NEW t \in Tasks, FinishOpen(t) \/ FinishClose(t)
        PROVE  (<<state, state'>>) \in Transitions
    BY <1>3 DEF FinishOpen, Connected, ConnectFailed, FinishClose
  <1>4. QED
    BY <1>1, <1>2, <1>3 DEF ChannelNext, Finish

(* The channel moves only along the edges of its state machine, whatever    *)
(* late errors of sends and concurrent open() and close() calls do.         *)
THEOREM ChannelLegalTransitions == ChannelSpec => LegalTransitions
  <1>1. LockDiscipline /\ [ChannelNext]_channelVars => [(<<state, state'>>) \in Transitions]_state
    BY StepIsLegal DEF channelVars
  <1>2. QED
    BY <1>1, ChannelLockDiscipline, PTL DEF ChannelSpec, LegalTransitions

LEMMA StepDelivers ==
  ASSUME LockDiscipline, ChannelNext, NEW t \in Tasks
  PROVE  /\ pc[t] # "opened" /\ pc'[t] = "opened" => state' = "active" \/ Stranded
         /\ pc[t] # "shut" /\ pc'[t] = "shut" => state' = "closed" \/ Stranded
  <1> USE ChannelAssumption
      DEF LockDiscipline, ChannelTypes, ChannelState, Waiting, Holding, Ended, Goto, Stranded
  <1>1. PICK u \in Tasks :
          \/ Begin(u, "want_open") \/ Begin(u, "want_close") \/ Send(u)
          \/ Enter(u) \/ Finish(u) \/ Cancel(u)
    BY DEF ChannelNext
  <1>2. CASE Begin(u, "want_open") \/ Begin(u, "want_close") \/ Send(u) \/ Cancel(u)
    BY <1>2 DEF Begin, Send, Cancel
  <1>3. CASE EnterOpen(u)
    BY <1>3 DEF EnterOpen, AlreadyOpen, RefuseOpen, StartOpen
  <1>4. CASE EnterClose(u)
    BY <1>4 DEF EnterClose, AlreadyClosed, StartClose
  <1>5. CASE TransitionToFailed(u)
    BY <1>5 DEF TransitionToFailed
  <1>6. CASE Finish(u)
    BY <1>6 DEF Finish, FinishOpen, Connected, ConnectFailed, FinishClose, FinishSend
  <1>7. QED
    BY <1>1, <1>2, <1>3, <1>4, <1>5, <1>6 DEF Enter

(* An open() that returns leaves the channel ACTIVE and a close() that      *)
(* returns leaves it CLOSED, unless an earlier call was cancelled half way. *)
THEOREM ChannelReturnsDeliver == ChannelSpec => ReturnsDeliver
  <1> DEFINE Delivers ==
        \A t \in Tasks :
          /\ pc[t] # "opened" /\ pc'[t] = "opened" => state' = "active" \/ Stranded
          /\ pc[t] # "shut" /\ pc'[t] = "shut" => state' = "closed" \/ Stranded
  <1>1. LockDiscipline /\ [ChannelNext]_channelVars => [Delivers]_channelVars
    BY StepDelivers
  <1>2. QED
    BY <1>1, ChannelLockDiscipline, PTL DEF ChannelSpec, ReturnsDeliver

------------------------------------------------------------------------------
(* The composite transporter, for any number of members and chunks.         *)
(* Where the call can be under which configuration, and who runs then. *)
Modes ==
  /\ at = "trying" => ~Concurrent
  /\ at = "merging" => Merged
  /\ at = "yielded" => Streaming
  /\ at = "gathering" => Sending /\ Concurrent
  /\ at = "ready" => /\ cur = 1
                     /\ \A i \in Members : /\ member[i] = "idle" /\ emitted[i] = 0
                                           /\ queue[i] = <<>> /\ yielded[i] = <<>>
  /\ at = "trying" \/ (at = "yielded" /\ ~Concurrent) => Running(cur)
  /\ ~Concurrent => \A i \in Members : Running(i) => i = cur /\ at \in {"trying", "yielded"}
  /\ Sending /\ at = "over" => \A i \in Members : ~Running(i)
  /\ outcome # "none" <=> at = "over"
  /\ config.strategy = "route" => \A i \in Members : i # cur => member[i] = "idle"

(* At most the message of the end is in a queue or taken besides the chunks, *)
(* and none while the reader runs.                                           *)
MergeCounts ==
  Merged =>
    \A i \in Members :
      /\ Len(yielded[i]) + Len(queue[i]) <= emitted[i] + 1
      /\ Running(i) => Len(yielded[i]) + Len(queue[i]) = emitted[i]

(* A queue is given up only when it will stay empty. *)
Unlisted ==
  /\ rest \subseteq listed
  /\ Merged /\ at # "ready" => \A i \in Members \ listed : queue[i] = <<>> /\ ~Running(i)

MergeIInv == MergeConserves /\ MergeCounts /\ Unlisted /\ EndMeansDrained

(* After the end nobody runs, unless the consumer gave up; who was asked to  *)
(* stop and has not run since was asked by the end of the call.              *)
NoneRunning ==
  at = "over" /\ outcome # "abandoned" => \A i \in Members : ~Running(i)

Lingering ==
  (\E i \in Members : member[i] = "cancelling") =>
    /\ at = "over"
    /\ outcome = "abandoned" \/ (FailsFast /\ outcome = "permanent" /\ failed # {})

IInv == TypeOK /\ Modes /\ NoneRunning /\ SendInv /\ MergeIInv /\ Lingering

SendStep == \/ StartRoute \/ StartFallback \/ StartGather
            \/ (\E r \in SendResults : RouteSend(r) \/ FallbackSend(r))
            \/ (\E i \in Members, r \in SendResults : MemberSend(i, r))
            \/ Gathered \/ GatherTimesOut

OneStreamStep == \/ PassOn \/ StreamEnds
                 \/ \E r \in {"raised_transient", "raised_permanent"} : StreamFails(r)

LandStep == \E i \in Members : CancelLands(i)

ReaderStep == \/ \E i \in Members : ReaderPuts(i)
              \/ \E i \in Members, r \in {Success, "raised_transient"} : ReaderEnds(i, r)

MergeStep == StartMerge \/ Take \/ NextRound \/ EndMerge

ConsumerStep == Resume \/ Abandon

LEMMA Initially == Init => IInv
<1> SUFFICES ASSUME Init PROVE IInv OBVIOUS
<1> USE CompositeAssumption DEF Init, Members
<1>1. TypeOK BY DEF TypeOK, MemberState
<1>2. Modes BY DEF Modes, Running
<1>3. NoneRunning /\ SendInv
  BY DEF NoneRunning, SendInv, FallbackInOrder, PermanentMeansUndelivered, Success
<1>4. MergeIInv
  BY DEF MergeIInv, MergeConserves, InOrder, MergeCounts, Unlisted, EndMeansDrained, Running
<1>5. Lingering BY DEF Lingering
<1> QED BY <1>1, <1>2, <1>3, <1>4, <1>5 DEF IInv

(* The steps of a send, and of the stream of a single member, leave the      *)
(* merge's state alone or happen outside merges.                             *)
LEMMA Constant == ASSUME Next PROVE config' = config
BY DEF Next, StartRoute, StartFallback, StartGather, StartMerge, RouteSend, FallbackSend,
  MemberSend, Gathered, GatherTimesOut, PassOn, StreamEnds, StreamFails, ReaderPuts, ReaderEnds,
  Take, TakeChunk, TakeDone, TakeError, NextRound, EndMerge, Resume, Abandon, CancelLands, Stop,
  vars

LEMMA CancelledStops ==
  ASSUME member' = Cancelled, TypeOK
  PROVE  /\ member' \in [Members -> MemberState]
         /\ \A i \in Members : member'[i] # "running"
         /\ \A i \in Members : ~Running(i) => member'[i] = member[i]
BY DEF Cancelled, Running, TypeOK, MemberState

LEMMA CancellingStops ==
  ASSUME member' = Cancelling, TypeOK
  PROVE  /\ member' \in [Members -> MemberState]
         /\ \A i \in Members : member'[i] # "running"
         /\ \A i \in Members : ~Running(i) => member'[i] = member[i]
BY DEF Cancelling, Running, TypeOK, MemberState

LEMMA NotMerged == ASSUME IInv, SendStep \/ OneStreamStep PROVE ~Merged
<1> USE DEF Merged, Sending, Streaming, Concurrent
<1>1. CASE StartRoute \/ StartFallback BY <1>1 DEF StartRoute, StartFallback
<1>2. CASE StartGather BY <1>2 DEF StartGather
<1>3. CASE at = "trying" BY <1>3 DEF IInv, Modes
<1>4. CASE at = "gathering" BY <1>4 DEF IInv, Modes
<1> QED BY <1>1, <1>2, <1>3, <1>4 DEF SendStep, OneStreamStep, RouteSend, FallbackSend,
      MemberSend, Gathered, GatherTimesOut, PassOn, StreamEnds, StreamFails

LEMMA AppendOne ==
  ASSUME NEW S, NEW s \in Seq(S), NEW e \in S PROVE Append(s, e) \in Seq(S)
OBVIOUS

LEMMA TailOf ==
  ASSUME NEW S, NEW s \in Seq(S), s # <<>>
  PROVE  /\ Tail(s) \in Seq(S) /\ Len(Tail(s)) = Len(s) - 1
         /\ Head(s) = s[1] /\ Head(s) \in S /\ 1 \in 1 .. Len(s)
         /\ \A k \in 1 .. Len(s) - 1 : Tail(s)[k] = s[k + 1]
OBVIOUS

(* What putting a message does to a queue and taking one to what was taken.  *)
LEMMA PutKeepsOrder ==
  ASSUME NEW n \in Nat, NEW y \in Seq(Nat), NEW q \in Seq(Message), InOrder(y, q, n),
         Len(y) + Len(q) = n, NEW m \in Message
  PROVE  /\ m = [type |-> "data", chunk |-> n + 1] => InOrder(y, Append(q, m), n + 1)
         /\ m.type # "data" => InOrder(y, Append(q, m), n)
         /\ Len(y) + Len(Append(q, m)) = n + 1
<1> DEFINE a == Append(q, m)
<1>1. /\ Len(a) = Len(q) + 1 /\ a[Len(q) + 1] = m
      /\ \A k \in 1 .. Len(q) : a[k] = q[k]
      /\ Len(y) \in Nat /\ Len(q) \in Nat
  OBVIOUS
<1> HIDE DEF a
<1>2. \A k \in 1 .. Len(q) : Len(y) + k <= n BY <1>1
<1>3. \A k \in 1 .. Len(q) : q[k] = [type |-> "data", chunk |-> Len(y) + k]
  BY <1>1, <1>2 DEF InOrder
<1>4. ASSUME NEW k \in 1 .. Len(a)
      PROVE  k \in 1 .. Len(q) \/ (k = Len(q) + 1 /\ Len(y) + k = n + 1)
  <2>1. k \in 1 .. Len(q) \/ k = Len(q) + 1 BY <1>1
  <2>2. Len(y) + (Len(q) + 1) = n + 1
    <3>1. \A i, j, l \in Nat : i + j = l => i + (j + 1) = l + 1 OBVIOUS
    <3>2. Len(y) \in Nat /\ Len(q) \in Nat BY <1>1
    <3> QED BY ONLY n \in Nat, Len(y) + Len(q) = n, <3>1, <3>2
  <2> QED BY <2>1, <2>2
<1>5. ASSUME m = [type |-> "data", chunk |-> n + 1] PROVE InOrder(y, a, n + 1)
  <2>1. \A k \in 1 .. Len(a) : a[k] = [type |-> "data", chunk |-> Len(y) + k]
    BY <1>1, <1>3, <1>4, <1>5
  <2>2. \A k \in 1 .. Len(a) : Len(y) + k <= n + 1 BY <1>1
  <2>3. Len(y) <= n + 1 /\ n + 1 <= Len(y) + Len(a) BY <1>1
  <2> QED BY <2>1, <2>2, <2>3 DEF InOrder
<1>6. ASSUME m.type # "data" PROVE InOrder(y, a, n)
  <2>1. \A k \in 1 .. Len(a) :
          IF Len(y) + k <= n
            THEN a[k] = [type |-> "data", chunk |-> Len(y) + k]
            ELSE a[k].type # "data"
    <3>1. ~(n + 1 <= n) /\ a[Len(q) + 1].type # "data" BY <1>1, <1>6
    <3> QED BY <1>1, <1>2, <1>3, <1>4, <3>1
  <2>2. Len(y) <= n /\ n <= Len(y) + Len(a) BY <1>1
  <2> QED BY <2>1, <2>2 DEF InOrder
<1>7. Len(y) + Len(a) = n + 1
  <2>1. \A i, j, l \in Nat : i + j = l => i + (j + 1) = l + 1 OBVIOUS
  <2>2. Len(y) \in Nat /\ Len(q) \in Nat /\ Len(a) = Len(q) + 1 BY <1>1
  <2> QED BY ONLY n \in Nat, Len(y) + Len(q) = n, <2>1, <2>2
<1> QED BY <1>5, <1>6, <1>7 DEF a

LEMMA TakeKeepsOrder ==
  ASSUME NEW n \in Nat, NEW y \in Seq(Nat), NEW q \in Seq(Message), InOrder(y, q, n), q # <<>>,
         q[1].type = "data"
  PROVE  /\ q[1].chunk = Len(y) + 1 /\ Len(y) + 1 <= n
         /\ InOrder(Append(y, q[1].chunk), Tail(q), n)
<1>1. /\ Len(y) \in Nat /\ Len(q) \in Nat \ {0} /\ Len(Tail(q)) = Len(q) - 1
      /\ \A k \in 1 .. Len(q) - 1 : Tail(q)[k] = q[k + 1]
  BY TailOf
<1>2. Len(y) + 1 <= n /\ q[1] = [type |-> "data", chunk |-> Len(y) + 1]
  BY <1>1 DEF InOrder
<1>3. /\ Len(Append(y, Len(y) + 1)) = Len(y) + 1 /\ Append(y, Len(y) + 1)[Len(y) + 1] = Len(y) + 1
      /\ \A k \in 1 .. Len(y) : Append(y, Len(y) + 1)[k] = y[k]
  OBVIOUS
<1>4. \A k \in 1 .. Len(q) - 1 :
        /\ Tail(q)[k] = q[k + 1] /\ k + 1 \in 1 .. Len(q)
        /\ Len(y) + (k + 1) = (Len(y) + 1) + k
  BY <1>1
<1>5. InOrder(Append(y, Len(y) + 1), Tail(q), n)
  <2>1. \A k \in 1 .. Len(y) + 1 : Append(y, Len(y) + 1)[k] = k BY <1>1, <1>3 DEF InOrder
  <2>2. \A k \in 1 .. Len(Tail(q)) :
          IF (Len(y) + 1) + k <= n
            THEN Tail(q)[k] = [type |-> "data", chunk |-> (Len(y) + 1) + k]
            ELSE Tail(q)[k].type # "data"
    BY <1>1, <1>4 DEF InOrder
  <2> QED BY <1>1, <1>2, <1>3, <2>1, <2>2 DEF InOrder
<1> QED BY <1>2, <1>5

LEMMA EndIsLast ==
  ASSUME NEW n \in Nat, NEW y \in Seq(Nat), NEW q \in Seq(Message), InOrder(y, q, n), q # <<>>,
         q[1].type # "data", Len(y) + Len(q) <= n + 1
  PROVE  Tail(q) = <<>> /\ Len(y) = n /\ Len(q) = 1 /\ InOrder(y, Tail(q), n)
<1>1. /\ Len(y) \in Nat /\ Len(q) \in Nat \ {0} /\ Len(Tail(q)) = Len(q) - 1
      /\ Tail(q) \in Seq(Message)
  BY TailOf
<1>2. Len(y) = n /\ Len(q) = 1 BY <1>1 DEF InOrder
<1>3. \A s \in Seq(Message) : Len(s) = 0 => s = <<>> OBVIOUS
<1>4. Tail(q) = <<>>
  <2>1. Len(Tail(q)) = 0 BY <1>1, <1>2
  <2> QED BY <1>1, <1>3, <2>1
<1>5. InOrder(y, <<>>, n)
  <2>1. Len(<<>>) = 0 /\ \A k \in 1 .. 0 : FALSE OBVIOUS
  <2> QED BY <1>1, <1>2, <2>1 DEF InOrder
<1> QED BY <1>2, <1>4, <1>5

(* A function with one value replaced by another of the same set. *)
LEMMA Update ==
  ASSUME NEW S, NEW f \in [Members -> S], NEW i \in Members, NEW v \in S
  PROVE  [f EXCEPT ![i] = v] \in [Members -> S]
OBVIOUS

------------------------------------------------------------------------------
(* Types *)

LEMMA AdvanceType ==
  ASSUME TypeOK, NEW r \in SendResults, Advance(r)
  PROVE  /\ cur' \in Members
         /\ at' \in {at, "over"} /\ outcome' \in {outcome, "permanent"}
         /\ member' \in [Members -> MemberState]
<1> DEFINE Settled == [member EXCEPT ![cur] = r]
<1>1. r \in MemberState /\ "running" \in MemberState BY DEF MemberState
<1>2. Settled \in [Members -> MemberState] /\ cur \in Members BY <1>1, Update DEF TypeOK
<1>3. CASE cur < N
  <2>1. cur + 1 \in Members BY <1>2, <1>3, CompositeAssumption DEF Members
  <2>2. [Settled EXCEPT ![cur + 1] = "running"] \in [Members -> MemberState]
    BY <1>1, <1>2, <2>1, Update
  <2> QED BY <1>3, <2>1, <2>2 DEF Advance
<1>4. CASE ~(cur < N) BY <1>2, <1>4 DEF Advance, Over
<1> QED BY <1>3, <1>4

LEMMA RouteOutcome ==
  ASSUME NEW r \in SendResults, RouteSend(r)
  PROVE  /\ outcome' \in {"report", "bad_report", "transient", "permanent"}
         /\ outcome' = "permanent" => r # Success
         /\ at = "trying" /\ config.strategy = "route" /\ at' = "over"
         /\ member' = [member EXCEPT ![cur] = r]
         /\ UNCHANGED <<config, cur, streamVars>>
<1> USE DEF RouteSend, Over, Success
<1>1. CASE r = Success BY <1>1
<1>2. CASE r \in {"reported_transient", "reported_permanent"} BY <1>2
<1>3. CASE r = "raised_transient" BY <1>3
<1>4. CASE r = "raised_permanent" BY <1>4
<1> QED BY <1>1, <1>2, <1>3, <1>4 DEF SendResults, Failures

LEMMA SendTypes == ASSUME IInv, SendStep PROVE TypeOK'
<1> USE DEF TypeOK, MemberState, Over, streamVars, SendResults, Failures, Success
<1>0. TypeOK BY DEF IInv
<1>1. CASE StartRoute
  <2>1. CASE Over("permanent") /\ UNCHANGED <<cur, member>> BY <1>0, <1>1, <2>1 DEF StartRoute
  <2>2. ASSUME NEW i \in Members, cur' = i, at' = "trying",
               member' = [member EXCEPT ![i] = "running"], UNCHANGED outcome
        PROVE  TypeOK'
    <3>1. member' \in [Members -> MemberState]
      BY <1>0, <2>2
    <3> QED BY <1>0, <1>1, <2>2, <3>1 DEF StartRoute
  <2> QED BY <1>1, <2>1, <2>2 DEF StartRoute
<1>2. CASE StartFallback
  <2>1. 1 \in Members BY CompositeAssumption DEF Members
  <2> QED BY <1>0, <1>2, <2>1 DEF StartFallback
<1>3. CASE StartGather BY <1>0, <1>3 DEF StartGather
<1>4. ASSUME NEW r \in SendResults, RouteSend(r) PROVE TypeOK'
  <2>1. /\ outcome' \in {"report", "bad_report", "transient", "permanent"} /\ at' = "over"
        /\ member' = [member EXCEPT ![cur] = r] /\ UNCHANGED <<config, cur, streamVars>>
    BY <1>4, RouteOutcome
  <2> QED BY <1>0, <1>4, <2>1
<1>5. ASSUME NEW r \in SendResults, FallbackSend(r) PROVE TypeOK'
  <2>1. CASE Delivered(r) BY <1>0, <1>5, <2>1 DEF FallbackSend
  <2>2. CASE ~Delivered(r)
    <3>1. Advance(r) /\ UNCHANGED <<config, streamVars>> BY <1>5, <2>2 DEF FallbackSend
    <3> QED BY <1>0, <1>5, <3>1, AdvanceType
  <2> QED BY <2>1, <2>2
<1>6. ASSUME NEW i \in Members, NEW r \in SendResults, MemberSend(i, r) PROVE TypeOK'
  BY <1>0, <1>6 DEF MemberSend
<1>7. CASE Gathered BY <1>0, <1>7 DEF Gathered
<1>8. CASE GatherTimesOut BY <1>0, <1>8, CancelledStops DEF GatherTimesOut
<1> QED BY <1>1, <1>2, <1>3, <1>4, <1>5, <1>6, <1>7, <1>8 DEF SendStep

LEMMA OneStreamTypes == ASSUME IInv, OneStreamStep PROVE TypeOK'
<1> USE DEF TypeOK, MemberState, Over, streamVars, SendResults, Failures, Success
<1>0. TypeOK BY DEF IInv
<1>1. CASE PassOn
  <2>1. Chunk(cur) \in 1 .. MaxChunks BY <1>0, <1>1, CompositeAssumption DEF PassOn, Chunk
  <2>2. emitted' \in [Members -> 0 .. MaxChunks]
    BY <1>0, <1>1, <2>1, CompositeAssumption DEF PassOn
  <2>3. Append(yielded[cur], Chunk(cur)) \in Seq(1 .. MaxChunks) BY <1>0, <2>1
  <2>4. yielded' \in [Members -> Seq(1 .. MaxChunks)] BY <1>0, <1>1, <2>3, Update DEF PassOn
  <2> QED BY <1>0, <1>1, <2>2, <2>4 DEF PassOn
<1>2. CASE StreamEnds BY <1>0, <1>2 DEF StreamEnds
<1>3. ASSUME NEW r \in {"raised_transient", "raised_permanent"}, StreamFails(r) PROVE TypeOK'
  <2>1. r \in SendResults BY <1>3
  <2>2. CASE config.strategy = "fallback"
    <3>1. Advance(r) /\ UNCHANGED <<config, streamVars>> BY <1>3, <2>2 DEF StreamFails
    <3> QED BY <1>0, <2>1, <3>1, AdvanceType
  <2>3. CASE config.strategy # "fallback" BY <1>0, <1>3, <2>1, <2>3 DEF StreamFails
  <2> QED BY <2>2, <2>3
<1> QED BY <1>1, <1>2, <1>3 DEF OneStreamStep

LEMMA ReaderTypes == ASSUME IInv, ReaderStep PROVE TypeOK'
<1> USE DEF TypeOK, MemberState, SendResults, Failures, Success
<1>0. TypeOK BY DEF IInv
<1>1. ASSUME NEW i \in Members, ReaderPuts(i) PROVE TypeOK'
  <2>1. Chunk(i) \in 1 .. MaxChunks BY <1>0, <1>1, CompositeAssumption DEF ReaderPuts, Chunk
  <2>0. [type |-> "data", chunk |-> Chunk(i)] \in Message
    BY <2>1, CompositeAssumption DEF Message
  <2>2. emitted' \in [Members -> 0 .. MaxChunks]
    BY <1>0, <1>1, <2>1, CompositeAssumption DEF ReaderPuts
  <2>3. Append(queue[i], [type |-> "data", chunk |-> Chunk(i)]) \in Seq(Message)
    BY <1>0, <2>0, AppendOne
  <2>4. queue' \in [Members -> Seq(Message)] BY <1>0, <1>1, <2>3, Update DEF ReaderPuts
  <2> QED BY <1>0, <1>1, <2>2, <2>4 DEF ReaderPuts
<1>2. ASSUME NEW i \in Members, NEW r \in {Success, "raised_transient"}, ReaderEnds(i, r)
      PROVE  TypeOK'
  <2> DEFINE last == [type |-> IF r = Success THEN "done" ELSE "error", chunk |-> 0]
  <2>1. last \in Message BY CompositeAssumption DEF Message
  <2>2. Append(queue[i], last) \in Seq(Message) BY <1>0, <2>1, AppendOne
  <2>3. queue' \in [Members -> Seq(Message)] BY <1>0, <1>2, <2>2, Update DEF ReaderEnds
  <2>4. member' \in [Members -> MemberState]
    BY <1>0, <1>2 DEF ReaderEnds
  <2> QED BY <1>0, <1>2, <2>3, <2>4 DEF ReaderEnds
<1> QED BY <1>1, <1>2 DEF ReaderStep

LEMMA MergeTypes == ASSUME IInv, MergeStep PROVE TypeOK'
<1> USE DEF TypeOK, MemberState, Over, streamVars
<1>0. TypeOK BY DEF IInv
<1>1. CASE StartMerge BY <1>0, <1>1 DEF StartMerge
<1>2. CASE NextRound BY <1>0, <1>2 DEF NextRound
<1>3. CASE EndMerge BY <1>0, <1>3, CancelledStops DEF EndMerge
<1>p. ASSUME NEW i \in Members, Polls(i)
      PROVE  queue' \in [Members -> Seq(Message)] /\ rest' \subseteq Members
  <2>1. Tail(queue[i]) \in Seq(Message) BY <1>0, <1>p, TailOf DEF Polls
  <2> QED BY <1>0, <1>p, <2>1, Update DEF Polls
<1>4. ASSUME NEW i \in Members, TakeChunk(i) PROVE TypeOK'
  <2>1. Merged BY <1>4 DEF IInv, Modes, TakeChunk, Polls
  <2>2. Head(queue[i]).chunk \in 1 .. MaxChunks
    <3>1. queue[i] \in Seq(Message) /\ queue[i] # <<>> /\ Head(queue[i]) = queue[i][1]
      BY <1>0, <1>4, TailOf DEF TakeChunk, Polls
    <3>2. yielded[i] \in Seq(Nat) /\ emitted[i] \in Nat /\ emitted[i] <= MaxChunks
      BY <1>0, CompositeAssumption
    <3>3. InOrder(yielded[i], queue[i], emitted[i])
      BY <2>1 DEF IInv, MergeIInv, MergeConserves
    <3>4. queue[i][1].chunk = Len(yielded[i]) + 1 /\ Len(yielded[i]) + 1 <= emitted[i]
      BY <1>4, <3>1, <3>2, <3>3, TakeKeepsOrder DEF TakeChunk
    <3> QED BY <3>1, <3>2, <3>4, CompositeAssumption
  <2>3. Append(yielded[i], Head(queue[i]).chunk) \in Seq(1 .. MaxChunks) BY <1>0, <2>2
  <2>4. yielded' \in [Members -> Seq(1 .. MaxChunks)] BY <1>0, <1>4, <2>3, Update DEF TakeChunk
  <2>5. queue' \in [Members -> Seq(Message)] /\ rest' \subseteq Members BY <1>p, <1>4 DEF TakeChunk
  <2> QED BY <1>0, <1>4, <2>4, <2>5 DEF TakeChunk
<1>5. ASSUME NEW i \in Members, TakeDone(i) PROVE TypeOK'
  <2>1. queue' \in [Members -> Seq(Message)] /\ rest' \subseteq Members BY <1>p, <1>5 DEF TakeDone
  <2> QED BY <1>0, <1>5, <2>1 DEF TakeDone, Unlist
<1>6. ASSUME NEW i \in Members, TakeError(i) PROVE TypeOK'
  <2>0. queue' \in [Members -> Seq(Message)] /\ rest' \subseteq Members BY <1>p, <1>6 DEF TakeError
  <2>1. member' \in [Members -> MemberState]
        /\ at' \in {at, "over"} /\ outcome' \in {outcome, "permanent"}
    <3>1. CASE FailsFast BY <1>0, <1>6, <3>1, CancellingStops DEF TakeError, FailFast
    <3>2. CASE ~FailsFast BY <1>0, <1>6, <3>2 DEF TakeError, FailFast
    <3> QED BY <3>1, <3>2
  <2> QED BY <1>0, <1>6, <2>0, <2>1 DEF TakeError, Unlist
<1> QED BY <1>1, <1>2, <1>3, <1>4, <1>5, <1>6 DEF MergeStep, Take

LEMMA ConsumerTypes == ASSUME IInv, ConsumerStep PROVE TypeOK'
<1> USE DEF TypeOK, MemberState, Over, streamVars
<1>0. TypeOK BY DEF IInv
<1>1. CASE Resume BY <1>0, <1>1 DEF Resume
<1>2. CASE Abandon
  <2>1. CASE Concurrent BY <1>0, <1>2, <2>1 DEF Abandon
  <2>2. CASE ~Concurrent BY <1>0, <1>2, <2>2, CancellingStops DEF Abandon
  <2> QED BY <2>1, <2>2
<1> QED BY <1>1, <1>2 DEF ConsumerStep

------------------------------------------------------------------------------
(* Modes, quiet after the end, and the promises of a send *)

Quiet == Modes /\ NoneRunning /\ SendInv

LEMMA AdvanceQuiet ==
  ASSUME IInv, at = "trying", config.strategy = "fallback", UNCHANGED <<config, streamVars>>,
         NEW r \in Failures, Advance(r)
  PROVE  Quiet'
<1> USE DEF Over, streamVars, Modes, NoneRunning, SendInv, FallbackInOrder,
            PermanentMeansUndelivered, Sending, Streaming, Concurrent, Merged, Running, Quiet,
            Success
<1>0. Quiet /\ cur \in Members /\ member \in [Members -> MemberState] BY DEF IInv, TypeOK
<1>1. r # Success /\ r # "running" BY DEF Failures
<1>2. CASE cur < N
  <2>1. /\ cur + 1 \in Members /\ cur + 1 # cur
        /\ \A i \in Members : (i < cur + 1 => i < cur \/ i = cur) /\ (i > cur + 1 => i > cur)
    BY <1>0, <1>2, CompositeAssumption DEF Members
  <2>2. /\ member'[cur] = r /\ member'[cur + 1] = "running"
        /\ \A i \in Members : i # cur /\ i # cur + 1 => member'[i] = member[i]
    BY <1>0, <1>2, <2>1 DEF Advance
  <2>3. cur' = cur + 1 /\ at' = "trying" /\ outcome' = outcome BY <1>2 DEF Advance
  <2>4. Modes' BY <1>0, <1>1, <2>1, <2>2, <2>3
  <2>5. FallbackInOrder'
    <3>1. \A i \in Members : i < cur + 1 => member'[i] \in Failures BY <1>0, <2>1, <2>2
    <3>2. \A i \in Members : i > cur + 1 => member'[i] = "idle"
      BY <1>0, <2>1, <2>2, CompositeAssumption DEF Members
    <3> QED BY <1>0, <2>2, <2>3, <3>1, <3>2
  <2> QED BY <1>0, <2>3, <2>4, <2>5
<1>3. CASE ~(cur < N)
  <2>1. /\ member'[cur] = r /\ at' = "over" /\ outcome' = "permanent" /\ cur' = cur
        /\ \A i \in Members : i # cur => member'[i] = member[i]
    BY <1>0, <1>3 DEF Advance
  <2>2. \A i \in Members : member'[i] # "running" BY <1>0, <1>1, <2>1
  <2>3. \A i \in Members : i < cur \/ i > cur => i # cur
    BY <1>0, CompositeAssumption DEF Members
  <2>4. Modes' /\ NoneRunning' BY <1>0, <2>1, <2>2
  <2>5. FallbackInOrder' BY <1>0, <1>1, <2>1, <2>3
  <2>6. \A i \in Members : i # cur => member[i] # Success
    <3>1. \A i \in Members : i # cur => i < cur \/ i > cur
      BY <1>0, CompositeAssumption DEF Members
    <3> QED BY <1>0, <3>1 DEF Failures
  <2> QED BY <1>1, <2>1, <2>4, <2>5, <2>6
<1> QED BY <1>2, <1>3

LEMMA SendQuiet == ASSUME IInv, SendStep PROVE Quiet'
<1> USE DEF Over, streamVars, Modes, NoneRunning, SendInv, FallbackInOrder,
            PermanentMeansUndelivered, Sending, Streaming, Concurrent, Merged, Running, Quiet,
            Success
<1>0. Quiet /\ cur \in Members /\ member \in [Members -> MemberState] BY DEF IInv, TypeOK
<1>1. CASE StartRoute
  <2>1. CASE Over("permanent") /\ UNCHANGED <<cur, member>>
    BY <1>0, <1>1, <2>1 DEF StartRoute
  <2>2. ASSUME NEW i \in Members, cur' = i, at' = "trying",
               member' = [member EXCEPT ![i] = "running"], UNCHANGED outcome
        PROVE  Quiet'
    BY <1>0, <1>1, <2>2 DEF StartRoute
  <2> QED BY <1>1, <2>1, <2>2 DEF StartRoute
<1>2. CASE StartFallback
  <2>1. 1 \in Members /\ \A i \in Members : ~(i < 1) BY CompositeAssumption DEF Members
  <2> QED BY <1>0, <1>2, <2>1 DEF StartFallback
<1>3. CASE StartGather BY <1>0, <1>3 DEF StartGather
<1>4. ASSUME NEW r \in SendResults, RouteSend(r) PROVE Quiet'
  <2>1. /\ outcome' \in {"report", "bad_report", "transient", "permanent"} /\ at' = "over"
        /\ outcome' = "permanent" => r # Success
        /\ at = "trying" /\ config.strategy = "route"
        /\ member' = [member EXCEPT ![cur] = r] /\ UNCHANGED <<config, cur, streamVars>>
    BY <1>4, RouteOutcome
  <2>2. r # "running" BY DEF SendResults, Failures
  <2>3. outcome' # "none" BY <2>1
  <2>4. Modes' /\ NoneRunning' /\ FallbackInOrder' BY <1>0, <2>1, <2>2, <2>3
  <2>5. \A i \in Members : i # cur => member[i] # Success BY <1>0, <2>1
  <2> QED BY <1>0, <2>1, <2>4, <2>5
<1>5. ASSUME NEW r \in SendResults, FallbackSend(r) PROVE Quiet'
  <2>1. CASE Delivered(r) BY <1>0, <1>5, <2>1 DEF FallbackSend, Delivered
  <2>2. CASE ~Delivered(r)
    <3>1. Advance(r) /\ UNCHANGED <<config, streamVars>> BY <1>5, <2>2 DEF FallbackSend
    <3>2. r \in Failures BY <2>2 DEF Delivered, SendResults
    <3> QED BY <1>5, <3>1, <3>2, AdvanceQuiet DEF FallbackSend
  <2> QED BY <2>1, <2>2
<1>6. ASSUME NEW i \in Members, NEW r \in SendResults, MemberSend(i, r) PROVE Quiet'
  BY <1>0, <1>6 DEF MemberSend
<1>7. CASE Gathered BY <1>0, <1>7 DEF Gathered
<1>8. CASE GatherTimesOut
  <2>1. \A i \in Members : member'[i] # "running"
    BY <1>8, CancelledStops DEF GatherTimesOut, IInv
  <2> QED BY <1>0, <1>8, <2>1 DEF GatherTimesOut
<1> QED BY <1>1, <1>2, <1>3, <1>4, <1>5, <1>6, <1>7, <1>8 DEF SendStep

LEMMA OneStreamQuiet == ASSUME IInv, OneStreamStep PROVE Quiet'
<1> USE DEF Over, streamVars, Modes, NoneRunning, SendInv, FallbackInOrder,
            PermanentMeansUndelivered, Sending, Streaming, Concurrent, Merged, Running, Quiet,
            Success
<1>0. Quiet /\ cur \in Members /\ member \in [Members -> MemberState] BY DEF IInv, TypeOK
<1>1. CASE PassOn BY <1>0, <1>1 DEF PassOn
<1>2. CASE StreamEnds BY <1>0, <1>2 DEF StreamEnds
<1>3. ASSUME NEW r \in {"raised_transient", "raised_permanent"}, StreamFails(r) PROVE Quiet'
  <2>1. r \in Failures BY DEF Failures
  <2>2. CASE config.strategy = "fallback"
    <3>1. Advance(r) /\ UNCHANGED <<config, streamVars>> BY <1>3, <2>2 DEF StreamFails
    <3> QED BY <1>3, <2>1, <2>2, <3>1, AdvanceQuiet DEF StreamFails
  <2>3. CASE config.strategy # "fallback" BY <1>0, <1>3, <2>3 DEF StreamFails
  <2> QED BY <2>2, <2>3
<1> QED BY <1>1, <1>2, <1>3 DEF OneStreamStep

(* Of a merge: where it is, and that it is over only when its readers are.   *)
LEMMA MergeQuiet == ASSUME IInv, ReaderStep \/ MergeStep \/ ConsumerStep PROVE Quiet'
<1> USE DEF Over, streamVars, Modes, NoneRunning, SendInv, FallbackInOrder,
            PermanentMeansUndelivered, Sending, Streaming, Concurrent, Merged, Running, Quiet,
            Success
<1>0. Quiet /\ cur \in Members /\ member \in [Members -> MemberState] BY DEF IInv, TypeOK
<1>1. ASSUME NEW i \in Members, ReaderPuts(i) PROVE Quiet' BY <1>0, <1>1 DEF ReaderPuts
<1>2. ASSUME NEW i \in Members, NEW r \in {Success, "raised_transient"}, ReaderEnds(i, r)
      PROVE  Quiet'
  BY <1>0, <1>2 DEF ReaderEnds
<1>3. CASE StartMerge BY <1>0, <1>3 DEF StartMerge
<1>4. ASSUME NEW i \in Members, TakeChunk(i) PROVE Quiet' BY <1>0, <1>4 DEF TakeChunk, Polls
<1>5. ASSUME NEW i \in Members, TakeDone(i) PROVE Quiet' BY <1>0, <1>5 DEF TakeDone, Polls
<1>6. ASSUME NEW i \in Members, TakeError(i) PROVE Quiet'
  <2>1. CASE FailsFast
    <3>1. \A j \in Members : member'[j] # "running"
      BY <1>6, <2>1, CancellingStops DEF TakeError, FailFast, IInv
    <3> QED BY <1>0, <1>6, <2>1, <3>1 DEF TakeError, FailFast, Polls
  <2>2. CASE ~FailsFast BY <1>0, <1>6, <2>2 DEF TakeError, FailFast, Polls
  <2> QED BY <2>1, <2>2
<1>7. CASE NextRound BY <1>0, <1>7 DEF NextRound
<1>8. CASE EndMerge
  <2>1. \A i \in Members : member'[i] # "running" BY <1>8, CancelledStops DEF EndMerge, IInv
  <2> QED BY <1>0, <1>8, <2>1 DEF EndMerge
<1>9. CASE Resume BY <1>0, <1>9 DEF Resume
<1>10. CASE Abandon
  <2>1. CASE Concurrent BY <1>0, <1>10, <2>1 DEF Abandon
  <2>2. CASE ~Concurrent
    <3>1. /\ \A i \in Members : member'[i] # "running"
          /\ \A i \in Members : ~Running(i) => member'[i] = member[i]
      BY <1>10, <2>2, CancellingStops DEF Abandon, IInv
    <3>2. member'[cur] # Success
      BY <1>0, <1>10, <2>2, <3>1, CancellingStops DEF Abandon, IInv, Cancelling
    <3>3. \A i \in Members : i < cur => i # cur /\ ~(i > cur)
      BY <1>0, CompositeAssumption DEF Members
    <3>4. \A i \in Members : i > cur => i # cur /\ ~(i < cur)
      BY <1>0, CompositeAssumption DEF Members
    <3> QED BY <1>0, <1>10, <2>2, <3>1, <3>2, <3>3, <3>4 DEF Abandon
  <2> QED BY <2>1, <2>2
<1> QED BY <1>1, <1>2, <1>3, <1>4, <1>5, <1>6, <1>7, <1>8, <1>9, <1>10
    DEF ReaderStep, MergeStep, ConsumerStep, Take

------------------------------------------------------------------------------
(* What a merge keeps *)

(* The chunks a member's stream may still add up to, as naturals.            *)
LEMMA Counted ==
  ASSUME TypeOK, NEW i \in Members
  PROVE  /\ yielded[i] \in Seq(Nat) /\ queue[i] \in Seq(Message) /\ emitted[i] \in Nat
         /\ Len(yielded[i]) \in Nat /\ Len(queue[i]) \in Nat
<1>1. /\ yielded[i] \in Seq(1 .. MaxChunks) /\ queue[i] \in Seq(Message)
      /\ emitted[i] \in 0 .. MaxChunks /\ MaxChunks \in Nat
  BY CompositeAssumption DEF TypeOK
<1>2. yielded[i] \in Seq(Nat) BY <1>1
<1> QED BY <1>1, <1>2

(* What the members other than i keep; the invariant then has to be shown    *)
(* for i alone.                                                              *)
OnlyOf(i) ==
  \A j \in Members : j # i =>
    /\ queue'[j] = queue[j] /\ yielded'[j] = yielded[j] /\ emitted'[j] = emitted[j]
    /\ member'[j] = "running" => member[j] = "running"

LEMMA OneMember ==
  ASSUME IInv, Merged, NEW i \in Members, OnlyOf(i), config' = config,
         at # "ready", outcome' # "end",
         InOrder(yielded'[i], queue'[i], emitted'[i]),
         Len(yielded'[i]) + Len(queue'[i]) <= emitted'[i] + 1,
         member'[i] = "running" => Len(yielded'[i]) + Len(queue'[i]) = emitted'[i],
         rest' \subseteq listed',
         \A j \in Members : j # i => (j \in listed => j \in listed'),
         i \notin listed' => queue'[i] = <<>> /\ member'[i] # "running"
  PROVE  MergeIInv'
<1>1. Merged' BY DEF Merged, Streaming, Concurrent
<1>2. MergeConserves' BY DEF MergeConserves, IInv, MergeIInv, OnlyOf
<1>3. MergeCounts' BY DEF MergeCounts, IInv, MergeIInv, OnlyOf, Running
<1>4. Unlisted' BY DEF Unlisted, IInv, MergeIInv, OnlyOf, Running
<1>5. EndMeansDrained' BY DEF EndMeansDrained
<1> QED BY <1>2, <1>3, <1>4, <1>5 DEF MergeIInv

(* A running reader's queue is still polled, and the call is not at an end.  *)
LEMMA ReadersArePolled ==
  ASSUME IInv, Merged, NEW i \in Members, Running(i)
  PROVE  at # "ready" /\ i \in listed /\ outcome # "end"
BY DEF IInv, MergeIInv, Unlisted, EndMeansDrained, Modes, Running

LEMMA NoMergeHere ==
  ASSUME IInv, ~Merged, config' = config, rest' \subseteq listed'
  PROVE  MergeIInv'
<1>1. ~Merged' BY DEF Merged, Streaming, Concurrent
<1> QED BY <1>1 DEF MergeIInv, MergeConserves, MergeCounts, Unlisted, EndMeansDrained

LEMMA OutsideMerges == ASSUME IInv, SendStep \/ OneStreamStep PROVE MergeIInv'
<1>1. ~Merged BY NotMerged
<1>2. UNCHANGED <<config, rest, listed>>
  BY DEF SendStep, OneStreamStep, StartRoute, StartFallback, StartGather, RouteSend, FallbackSend,
     MemberSend, Gathered, GatherTimesOut, PassOn, StreamEnds, StreamFails, streamVars
<1>3. rest \subseteq listed BY DEF IInv, MergeIInv, Unlisted
<1> QED BY <1>1, <1>2, <1>3, NoMergeHere

LEMMA ReaderMerge == ASSUME IInv, ReaderStep PROVE MergeIInv'
<1>0. TypeOK /\ rest \subseteq listed BY DEF IInv, MergeIInv, Unlisted
<1>1. ASSUME NEW i \in Members, ReaderPuts(i) PROVE MergeIInv'
  <2> DEFINE m == [type |-> "data", chunk |-> Chunk(i)]
  <2>1. /\ Merged /\ Running(i) /\ emitted[i] < MaxChunks
        /\ UNCHANGED <<config, at, outcome, member, listed, rest, yielded>>
    BY <1>1 DEF ReaderPuts
  <2>2. /\ queue'[i] = Append(queue[i], m) /\ emitted'[i] = emitted[i] + 1
        /\ OnlyOf(i)
    BY <1>0, <1>1 DEF ReaderPuts, OnlyOf, TypeOK, Chunk
  <2>3. /\ InOrder(yielded[i], queue[i], emitted[i])
        /\ Len(yielded[i]) + Len(queue[i]) = emitted[i]
    BY <2>1 DEF IInv, MergeIInv, MergeConserves, MergeCounts
  <2>4. m \in Message /\ m = [type |-> "data", chunk |-> emitted[i] + 1]
    BY <1>0, <2>1, Counted, CompositeAssumption DEF Message, Chunk
  <2> HIDE DEF m
  <2>5. /\ InOrder(yielded[i], Append(queue[i], m), emitted[i] + 1)
        /\ Len(yielded[i]) + Len(Append(queue[i], m)) = emitted[i] + 1
    <3>1. /\ yielded[i] \in Seq(Nat) /\ queue[i] \in Seq(Message) /\ emitted[i] \in Nat
      BY <1>0, Counted
    <3> QED BY <2>3, <2>4, <3>1, PutKeepsOrder
  <2>6. /\ InOrder(yielded'[i], queue'[i], emitted'[i])
        /\ Len(yielded'[i]) + Len(queue'[i]) = emitted'[i]
    BY <2>1, <2>2, <2>5
  <2>7. emitted'[i] \in Nat BY <1>0, <2>2, Counted
  <2>8. Len(yielded'[i]) + Len(queue'[i]) <= emitted'[i] + 1
    <3>1. emitted'[i] <= emitted'[i] + 1 /\ emitted'[i] + 1 <= emitted'[i] + 1 BY <2>7
    <3> QED BY ONLY <2>6, <3>1
  <2>9. at # "ready" /\ i \in listed /\ outcome # "end" BY <2>1, ReadersArePolled
  <2> QED BY <1>0, <2>1, <2>2, <2>6, <2>8, <2>9, OneMember
<1>2. ASSUME NEW i \in Members, NEW r \in {Success, "raised_transient"}, ReaderEnds(i, r)
      PROVE  MergeIInv'
  <2> DEFINE m == [type |-> IF r = Success THEN "done" ELSE "error", chunk |-> 0]
  <2>1. /\ Merged /\ Running(i) /\ UNCHANGED <<config, at, outcome, emitted, listed, rest, yielded>>
    BY <1>2 DEF ReaderEnds
  <2>2. queue'[i] = Append(queue[i], m) /\ member'[i] # "running" /\ OnlyOf(i)
    BY <1>0, <1>2 DEF ReaderEnds, OnlyOf, TypeOK, Success
  <2>3. /\ InOrder(yielded[i], queue[i], emitted[i])
        /\ Len(yielded[i]) + Len(queue[i]) = emitted[i]
    BY <2>1 DEF IInv, MergeIInv, MergeConserves, MergeCounts
  <2>4. m \in Message /\ m.type # "data" BY CompositeAssumption DEF Message
  <2> HIDE DEF m
  <2>5. /\ InOrder(yielded[i], Append(queue[i], m), emitted[i])
        /\ Len(yielded[i]) + Len(Append(queue[i], m)) = emitted[i] + 1
    <3>1. /\ yielded[i] \in Seq(Nat) /\ queue[i] \in Seq(Message) /\ emitted[i] \in Nat
      BY <1>0, Counted
    <3> QED BY <2>3, <2>4, <3>1, PutKeepsOrder
  <2>6. /\ InOrder(yielded'[i], queue'[i], emitted'[i])
        /\ Len(yielded'[i]) + Len(queue'[i]) = emitted'[i] + 1
    BY <2>1, <2>2, <2>5
  <2>7. emitted'[i] \in Nat BY <1>0, <2>1, Counted
  <2>8. Len(yielded'[i]) + Len(queue'[i]) <= emitted'[i] + 1
    <3>1. emitted'[i] <= emitted'[i] + 1 /\ emitted'[i] + 1 <= emitted'[i] + 1 BY <2>7
    <3> QED BY ONLY <2>6, <3>1
  <2>9. at # "ready" /\ i \in listed /\ outcome # "end" BY <2>1, ReadersArePolled
  <2> QED BY <1>0, <2>1, <2>2, <2>6, <2>8, <2>9, OneMember
<1> QED BY <1>1, <1>2 DEF ReaderStep

(* Taking the first message of i's queue. *)
LEMMA Polled ==
  ASSUME IInv, NEW i \in Members, Polls(i)
  PROVE  /\ Merged /\ at = "merging" /\ outcome = "none" /\ i \in listed
         /\ queue'[i] = Tail(queue[i]) /\ queue[i] # <<>> /\ Head(queue[i]) = queue[i][1]
         /\ \A j \in Members : j # i => queue'[j] = queue[j]
         /\ rest' \subseteq rest \ {i} /\ rest \subseteq listed
         /\ InOrder(yielded[i], queue[i], emitted[i])
         /\ Len(yielded[i]) + Len(queue[i]) <= emitted[i] + 1
         /\ Running(i) => Len(yielded[i]) + Len(queue[i]) = emitted[i]
         /\ Len(Tail(queue[i])) = Len(queue[i]) - 1
         /\ yielded[i] \in Seq(Nat) /\ queue[i] \in Seq(Message) /\ emitted[i] \in Nat
         /\ Len(yielded[i]) \in Nat /\ Len(queue[i]) \in Nat
<1>1. TypeOK /\ Modes BY DEF IInv
<1>2. at = "merging" /\ Merged /\ outcome = "none" BY <1>1 DEF Polls, Modes
<1>3. rest \subseteq listed BY DEF IInv, MergeIInv, Unlisted
<1>4. i \in rest /\ queue[i] # <<>> BY DEF Polls
<1>5. rest' \subseteq rest \ {i}
  <2>1. i \in Nat /\ ~(i > i) BY DEF Members
  <2> QED BY <2>1 DEF Polls
<1>6. queue' = [queue EXCEPT ![i] = Tail(@)] /\ queue \in [Members -> Seq(Message)]
  BY <1>1 DEF Polls, TypeOK
<1>7. /\ queue'[i] = Tail(queue[i])
      /\ \A j \in Members : j # i => queue'[j] = queue[j]
  BY <1>6
<1>8. /\ yielded[i] \in Seq(Nat) /\ queue[i] \in Seq(Message) /\ emitted[i] \in Nat
      /\ Len(yielded[i]) \in Nat /\ Len(queue[i]) \in Nat
  BY <1>1, Counted
<1>9. Head(queue[i]) = queue[i][1] /\ Len(Tail(queue[i])) = Len(queue[i]) - 1
  BY <1>4, <1>8, TailOf
<1>10. /\ InOrder(yielded[i], queue[i], emitted[i])
       /\ Len(yielded[i]) + Len(queue[i]) <= emitted[i] + 1
       /\ Running(i) => Len(yielded[i]) + Len(queue[i]) = emitted[i]
  BY <1>2 DEF IInv, MergeIInv, MergeConserves, MergeCounts
<1> QED BY <1>2, <1>3, <1>4, <1>5, <1>7, <1>8, <1>9, <1>10

(* Taking the message of the end of i's stream, by which i is unlisted.      *)
LEMMA LastTaken ==
  ASSUME IInv, NEW i \in Members, Polls(i), Head(queue[i]).type # "data"
  PROVE  /\ queue'[i] = <<>> /\ ~Running(i)
         /\ InOrder(yielded[i], queue'[i], emitted[i])
         /\ Len(yielded[i]) + Len(queue'[i]) <= emitted[i] + 1
<1>1. /\ queue[i] # <<>> /\ queue[i][1].type # "data" /\ queue'[i] = Tail(queue[i])
      /\ yielded[i] \in Seq(Nat) /\ queue[i] \in Seq(Message) /\ emitted[i] \in Nat
      /\ InOrder(yielded[i], queue[i], emitted[i])
      /\ Len(yielded[i]) + Len(queue[i]) <= emitted[i] + 1
      /\ Running(i) => Len(yielded[i]) + Len(queue[i]) = emitted[i]
      /\ Len(Tail(queue[i])) = Len(queue[i]) - 1
  BY Polled
<1>2. /\ Tail(queue[i]) = <<>> /\ Len(yielded[i]) = emitted[i] /\ Len(queue[i]) = 1
      /\ InOrder(yielded[i], Tail(queue[i]), emitted[i])
  BY <1>1, EndIsLast
<1>3. \A n \in Nat : ~(n + 1 = n) /\ n + 0 <= n + 1 /\ 1 - 1 = 0 OBVIOUS
<1>4. ~Running(i) BY <1>1, <1>2, <1>3
<1>5. Len(yielded[i]) + Len(Tail(queue[i])) <= emitted[i] + 1
  <2>1. Len(Tail(queue[i])) = 0 BY <1>1, <1>2
  <2> QED BY <1>1, <1>2, <1>3, <2>1
<1> QED BY <1>1, <1>2, <1>4, <1>5

LEMMA TakeMerge ==
  ASSUME IInv, NEW i \in Members, TakeChunk(i) \/ TakeDone(i) \/ TakeError(i)
  PROVE  MergeIInv'
<1>0. TypeOK /\ Modes BY DEF IInv
<1>1. Polls(i) BY DEF TakeChunk, TakeDone, TakeError
<1>2. /\ Merged /\ at = "merging" /\ outcome = "none" /\ i \in listed
      /\ queue'[i] = Tail(queue[i]) /\ queue[i] # <<>> /\ Head(queue[i]) = queue[i][1]
      /\ \A j \in Members : j # i => queue'[j] = queue[j]
      /\ rest' \subseteq rest \ {i} /\ rest \subseteq listed
      /\ InOrder(yielded[i], queue[i], emitted[i])
      /\ Len(yielded[i]) + Len(queue[i]) <= emitted[i] + 1
      /\ Running(i) => Len(yielded[i]) + Len(queue[i]) = emitted[i]
      /\ Len(Tail(queue[i])) = Len(queue[i]) - 1
      /\ yielded[i] \in Seq(Nat) /\ queue[i] \in Seq(Message) /\ emitted[i] \in Nat
      /\ Len(yielded[i]) \in Nat /\ Len(queue[i]) \in Nat
  BY <1>1, Polled
<1>3. CASE TakeChunk(i)
  <2> DEFINE c == queue[i][1].chunk
  <2>1. /\ queue[i][1].type = "data" /\ yielded'[i] = Append(yielded[i], c)
        /\ UNCHANGED <<config, outcome, member, emitted, listed>> /\ OnlyOf(i)
    BY <1>0, <1>2, <1>3 DEF TakeChunk, OnlyOf, TypeOK
  <2>2. InOrder(Append(yielded[i], c), Tail(queue[i]), emitted[i])
        /\ Len(Append(yielded[i], c)) = Len(yielded[i]) + 1
    <3>1. c = Len(yielded[i]) + 1 /\ InOrder(Append(yielded[i], c), Tail(queue[i]), emitted[i])
      BY <1>2, <2>1, TakeKeepsOrder
    <3> QED BY <1>2, <3>1
  <2>3. Len(yielded'[i]) + Len(queue'[i]) = Len(yielded[i]) + Len(queue[i])
    <3>1. \A y, q \in Nat : (y + 1) + (q - 1) = y + q OBVIOUS
    <3>2. (Len(yielded[i]) + 1) + (Len(queue[i]) - 1) = Len(yielded[i]) + Len(queue[i])
      BY <1>2, <3>1
    <3> QED BY <1>2, <2>1, <2>2, <3>2
  <2>4. /\ InOrder(yielded'[i], queue'[i], emitted'[i])
        /\ Len(yielded'[i]) + Len(queue'[i]) <= emitted'[i] + 1
        /\ member'[i] = "running" => Len(yielded'[i]) + Len(queue'[i]) = emitted'[i]
    <3>1. member'[i] = "running" => Running(i) BY <2>1 DEF Running
    <3> QED BY <1>2, <2>1, <2>2, <2>3, <3>1
  <2>5. at # "ready" /\ outcome' # "end" BY <1>2, <2>1
  <2> QED BY <1>2, <2>1, <2>4, <2>5, OneMember
<1>4. CASE TakeDone(i) \/ TakeError(i)
  <2>1. Head(queue[i]).type # "data" BY <1>4 DEF TakeDone, TakeError
  <2>2. /\ queue'[i] = <<>> /\ ~Running(i)
        /\ InOrder(yielded[i], queue'[i], emitted[i])
        /\ Len(yielded[i]) + Len(queue'[i]) <= emitted[i] + 1
    BY <1>1, <2>1, LastTaken
  <2>3. UNCHANGED <<config, emitted, yielded>> /\ listed' = listed \ {i}
    BY <1>4 DEF TakeDone, TakeError, Unlist
  <2>4. /\ outcome' # "end" /\ member \in [Members -> MemberState]
        /\ member' = member \/ member' = Cancelling
    BY <1>0, <1>2, <1>4 DEF TakeDone, TakeError, FailFast, Over, TypeOK
  <2>5. \A j \in Members : member'[j] = "running" => member[j] = "running"
    BY <1>0, <2>4, CancellingStops
  <2>6. OnlyOf(i) BY <1>2, <2>3, <2>5 DEF OnlyOf
  <2>7. member'[i] # "running" BY <2>2, <2>5 DEF Running
  <2>8. rest' \subseteq listed' BY <1>2, <2>3
  <2> QED BY <1>2, <2>2, <2>3, <2>4, <2>6, <2>7, <2>8, OneMember
<1> QED BY <1>3, <1>4

LEMMA MergeKept == ASSUME IInv, MergeStep \/ ConsumerStep PROVE MergeIInv'
<1>0. TypeOK /\ Modes /\ MergeIInv BY DEF IInv
<1> USE DEF MergeIInv, MergeConserves, MergeCounts, Unlisted, EndMeansDrained, Merged, Streaming,
            Concurrent, Over, streamVars, Running
<1>1. CASE StartMerge
  <2>1. \A i \in Members : InOrder(<<>>, <<>>, 0) BY DEF InOrder
  <2>2. /\ at = "ready" /\ UNCHANGED <<config, outcome, emitted, queue, yielded>>
        /\ listed' = Members /\ rest' = Members
    BY <1>1 DEF StartMerge
  <2>3. \A i \in Members : queue[i] = <<>> /\ yielded[i] = <<>> /\ emitted[i] = 0
    BY <1>0, <2>2 DEF Modes
  <2>4. outcome' # "end" BY <1>0, <2>2 DEF Modes
  <2>5. Len(<<>>) = 0 OBVIOUS
  <2>6. MergeConserves' BY <2>1, <2>2, <2>3
  <2>7. MergeCounts'
    <3>1. \A i \in Members : /\ Len(yielded'[i]) = 0 /\ Len(queue'[i]) = 0
                             /\ emitted'[i] = 0
      BY <2>2, <2>3, <2>5
    <3>2. 0 + 0 = 0 /\ 0 <= 0 + 1 OBVIOUS
    <3> QED BY ONLY <3>1, <3>2 DEF MergeCounts, Running
  <2> QED BY <2>2, <2>4, <2>6, <2>7
<1>2. ASSUME Take PROVE MergeIInv'
  <2> HIDE DEF MergeIInv
  <2> QED BY <1>2, TakeMerge DEF Take
<1>3. CASE NextRound BY <1>0, <1>3 DEF NextRound, Modes
<1>4. CASE EndMerge
  <2>1. /\ Merged /\ \A i \in Members : queue[i] = <<>> /\ ~Running(i)
    BY <1>0, <1>4 DEF EndMerge, Modes
  <2>2. \A i \in Members : member'[i] # "running"
    BY <1>0, <1>4, CancelledStops DEF EndMerge
  <2> QED BY <1>0, <1>4, <2>1, <2>2 DEF EndMerge
<1>5. CASE Resume BY <1>0, <1>5 DEF Resume, Modes
<1>6. CASE Abandon
  <2>1. /\ at = "yielded" /\ outcome' = "abandoned" /\ UNCHANGED <<config, streamVars>>
        /\ Concurrent => member' = member
    BY <1>6 DEF Abandon
  <2>2. MergeConserves' BY <1>0, <2>1 DEF InOrder
  <2>3. MergeCounts' BY <1>0, <2>1
  <2>4. Unlisted' /\ EndMeansDrained' BY <1>0, <2>1
  <2> QED BY <2>2, <2>3, <2>4
<1> QED BY <1>1, <1>2, <1>3, <1>4, <1>5, <1>6 DEF MergeStep, ConsumerStep

------------------------------------------------------------------------------
(* Members that were asked to stop: only the end of the call asks them, and  *)
(* afterwards nothing changes but that they stop.                            *)
LEMMA LingeringKept == ASSUME IInv, [Next]_vars PROVE Lingering'
<1>0. TypeOK /\ Modes /\ Lingering BY DEF IInv
<1>1. CASE at = "over"
  <2>1. /\ UNCHANGED <<at, outcome, config, failed>>
        /\ \A i \in Members : member'[i] = "cancelling" => member[i] = "cancelling"
    <3>1. CASE ReaderStep
      <4>1. ASSUME NEW i \in Members, ReaderPuts(i)
            PROVE  UNCHANGED <<at, outcome, config, failed, member>>
        BY <4>1 DEF ReaderPuts
      <4>2. ASSUME NEW i \in Members, NEW r \in {Success, "raised_transient"}, ReaderEnds(i, r)
            PROVE  /\ UNCHANGED <<at, outcome, config, failed>>
                   /\ \A k \in Members : member'[k] = "cancelling" => member[k] = "cancelling"
        BY <4>2, <1>0 DEF ReaderEnds, TypeOK, Success
      <4> QED BY <3>1, <4>1, <4>2 DEF ReaderStep
    <3>2. CASE LandStep
      BY <3>2, <1>0 DEF LandStep, CancelLands, streamVars, TypeOK
    <3>3. CASE UNCHANGED vars BY <3>3 DEF vars, streamVars
    <3> QED BY <1>1, <3>1, <3>2, <3>3
        DEF Next, StartRoute, StartFallback, StartGather, StartMerge, RouteSend, FallbackSend,
            MemberSend, Gathered, GatherTimesOut, PassOn, StreamEnds, StreamFails, ReaderStep,
            LandStep, Take, TakeChunk, TakeDone, TakeError, Polls, NextRound, EndMerge, Resume,
            Abandon, Stop
  <2> QED BY <1>0, <2>1 DEF Lingering, FailsFast
<1>2. CASE at # "over"
  <2>1. \A i \in Members : member[i] # "cancelling" BY <1>0, <1>2 DEF Lingering
  <2> SUFFICES ASSUME NEW k \in Members, member'[k] = "cancelling" PROVE Lingering'
    BY DEF Lingering
  <2> USE DEF SendResults, Failures, Success
  <2>2. CASE StartRoute \/ StartFallback \/ StartGather \/ StartMerge
    BY <1>0, <2>1, <2>2 DEF StartRoute, StartFallback, StartGather, StartMerge, TypeOK
  <2>3. ASSUME NEW r \in SendResults, RouteSend(r) \/ FallbackSend(r) PROVE Lingering'
    BY <1>0, <2>1, <2>3 DEF RouteSend, FallbackSend, Advance, TypeOK
  <2>4. ASSUME NEW i \in Members, NEW r \in SendResults, MemberSend(i, r) PROVE Lingering'
    BY <1>0, <2>1, <2>4 DEF MemberSend, TypeOK
  <2>5. CASE Gathered \/ GatherTimesOut \/ EndMerge
    BY <1>0, <2>1, <2>5 DEF Gathered, GatherTimesOut, EndMerge, Cancelled, TypeOK
  <2>6. CASE PassOn \/ StreamEnds \/ NextRound \/ Resume
    BY <1>0, <2>1, <2>6 DEF PassOn, StreamEnds, NextRound, Resume, TypeOK
  <2>7. ASSUME NEW r \in {"raised_transient", "raised_permanent"}, StreamFails(r)
        PROVE  Lingering'
    BY <1>0, <2>1, <2>7 DEF StreamFails, Advance, TypeOK
  <2>8. ASSUME NEW i \in Members, ReaderPuts(i) \/ CancelLands(i) PROVE Lingering'
    BY <1>0, <2>1, <2>8 DEF ReaderPuts, CancelLands, TypeOK
  <2>9. ASSUME NEW i \in Members, NEW r \in {Success, "raised_transient"}, ReaderEnds(i, r)
        PROVE  Lingering'
    BY <1>0, <2>1, <2>9 DEF ReaderEnds, TypeOK
  <2>10. ASSUME NEW i \in Members, TakeChunk(i) \/ TakeDone(i) PROVE Lingering'
    BY <2>1, <2>10 DEF TakeChunk, TakeDone
  <2>11. ASSUME NEW i \in Members, TakeError(i) PROVE Lingering'
    <3>1. FailsFast /\ at' = "over" /\ outcome' = "permanent" /\ config' = config
      BY <2>1, <2>11 DEF TakeError, FailFast, Over
    <3>2. failed' # {} BY <2>11 DEF TakeError
    <3> QED BY <3>1, <3>2 DEF Lingering, FailsFast
  <2>12. CASE Abandon BY <2>12 DEF Abandon, Over, Lingering
  <2>13. CASE UNCHANGED vars \/ Stop BY <2>1, <2>13 DEF vars, Stop
  <2> QED BY <2>2, <2>3, <2>4, <2>5, <2>6, <2>7, <2>8, <2>9, <2>10, <2>11, <2>12, <2>13
      DEF Next, Take
<1> QED BY <1>1, <1>2

(* A member that stops leaves everything else as it is.                      *)
LEMMA LandKept == ASSUME IInv, LandStep PROVE TypeOK' /\ Quiet' /\ MergeIInv'
<1>0. TypeOK /\ Quiet /\ MergeIInv /\ Lingering BY DEF IInv, Quiet
<1>1. PICK k \in Members : CancelLands(k) BY DEF LandStep
<1>2. /\ member[k] = "cancelling" /\ member'[k] = "cancelled"
      /\ \A i \in Members : i # k => member'[i] = member[i]
      /\ UNCHANGED <<config, at, outcome, cur, emitted, queue, listed, rest, failed, yielded>>
      /\ member' \in [Members -> MemberState]
  BY <1>0, <1>1 DEF CancelLands, streamVars, TypeOK, MemberState
<1>3. \A i \in Members : Running(i)' <=> Running(i) BY <1>2 DEF Running
<1>4. TypeOK' BY <1>0, <1>2 DEF TypeOK
<1>5. at = "over" /\ outcome # "none" /\ outcome # "report" /\ outcome # "end"
  BY <1>0, <1>2 DEF Lingering
<1>6. cur \in Members BY <1>0 DEF TypeOK
<1>7. SendInv'
  <2>1. \A i \in Members : member'[i] = Success <=> member[i] = Success BY <1>2 DEF Success
  <2>2. \A i \in Members : member[i] \in Failures => member'[i] \in Failures
    BY <1>2 DEF Failures
  <2>3. \A i \in Members : member[i] = "idle" => member'[i] = "idle" BY <1>2
  <2> QED BY <1>0, <1>2, <1>6, <2>1, <2>2, <2>3
      DEF Quiet, SendInv, FallbackInOrder, PermanentMeansUndelivered, Sending
<1>8. Modes'
  BY <1>0, <1>2, <1>3, <1>5, <1>6
  DEF Quiet, Modes, Merged, Streaming, Sending, Concurrent, Running
<1>9. NoneRunning' BY <1>0, <1>2, <1>3 DEF Quiet, NoneRunning
<1>10. MergeIInv'
  BY <1>0, <1>2, <1>3
  DEF MergeIInv, MergeConserves, MergeCounts, Unlisted, EndMeansDrained, Merged, Streaming,
      Concurrent, InOrder
<1> QED BY <1>4, <1>7, <1>8, <1>9, <1>10 DEF Quiet

(* Every step keeps the invariant. *)
LEMMA Stuttering == ASSUME IInv, UNCHANGED vars PROVE IInv'
BY DEF IInv, vars, streamVars, Lingering, FailsFast, TypeOK, Modes, NoneRunning, SendInv, FallbackInOrder,
   PermanentMeansUndelivered, MergeIInv, MergeConserves, MergeCounts, Unlisted, EndMeansDrained,
   Merged, Streaming, Sending, Concurrent, Running, InOrder

LEMMA Preserved == ASSUME IInv, [Next]_vars PROVE IInv'
<1>0. Lingering' BY LingeringKept
<1>1. CASE SendStep
  BY <1>1, <1>0, SendTypes, SendQuiet, OutsideMerges DEF IInv, Quiet
<1>2. CASE OneStreamStep
  BY <1>2, <1>0, OneStreamTypes, OneStreamQuiet, OutsideMerges DEF IInv, Quiet
<1>3. CASE ReaderStep
  BY <1>3, <1>0, ReaderTypes, MergeQuiet, ReaderMerge DEF IInv, Quiet
<1>4. CASE MergeStep
  BY <1>4, <1>0, MergeTypes, MergeQuiet, MergeKept DEF IInv, Quiet
<1>5. CASE ConsumerStep
  BY <1>5, <1>0, ConsumerTypes, MergeQuiet, MergeKept DEF IInv, Quiet
<1>6. CASE UNCHANGED vars BY <1>6, Stuttering
<1>7. CASE LandStep
  BY <1>7, <1>0, LandKept DEF IInv, Quiet
<1> QED BY <1>1, <1>2, <1>3, <1>4, <1>5, <1>6, <1>7
    DEF Next, Stop, SendStep, OneStreamStep, ReaderStep, LandStep, MergeStep, ConsumerStep

(* The inductive invariant holds in every behaviour: types, where a call can *)
(* be while which members run, the promises of a send and those of a merge.  *)
THEOREM CompositeInvariant == Spec => []IInv
BY Initially, Preserved, PTL DEF Spec

(* The state of a call keeps its types, for any number of members and chunks *)
(* (_fallback_send never steps past the last member of the list).            *)
THEOREM CompositeTypeCorrect == Spec => []TypeOK
<1>1. IInv => TypeOK BY DEF IInv
<1> QED BY <1>1, CompositeInvariant, PTL

(* _fallback_send and _fallback_stream try members strictly in order, and a  *)
(* send fails for good only if no member delivered the payload.              *)
THEOREM SendsInOrder == Spec => []SendInv
<1>1. IInv => SendInv BY DEF IInv
<1> QED BY <1>1, CompositeInvariant, PTL

(* The readers and the polling loop of _merge_streams together neither lose, *)
(* repeat nor reorder a chunk, and a normal end has drained every queue.     *)
THEOREM MergeCorrect == Spec => []MergeInv
<1>1. IInv => MergeInv BY DEF IInv, MergeIInv, MergeInv
<1> QED BY <1>1, CompositeInvariant, PTL

(* A call that is over left no member running, unless its consumer gave up a *)
(* merged stream; a broadcast that failed at its first error leaves members  *)
(* that were cancelled and have not run since, and no other call does.       *)
THEOREM OverIsQuiet == Spec => []OverMeansQuiet
<1>1. IInv => OverMeansQuiet BY DEF IInv, NoneRunning, Lingering, OverMeansQuiet
<1> QED BY <1>1, CompositeInvariant, PTL

================================================================================
