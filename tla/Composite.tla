------------------------------- MODULE Composite -------------------------------
(***************************************************************************)
(* CompositeTransporter (transport/composite.py): one send or one stream   *)
(* over several member transporters, by the strategies route, fallback,    *)
(* parallel, broadcast and mux.  Calls share nothing that matters, so one  *)
(* call is modelled; what happens at the same time are its members.        *)
(*                                                                         *)
(* A send of a member ends with a report (of success, or of failure with   *)
(* or without an error) or with an exception.  Errors are permanent or     *)
(* not; an exception that is no TransportError counts as transient.        *)
(* In a merge a reader task per member fills a queue, which the consumer   *)
(* polls round by round.                                                   *)
(***************************************************************************)
EXTENDS Naturals, Sequences

CONSTANTS
  N,        (* number of members                                  *)
  MaxChunks (* bound: chunks of one member's stream               *)

ASSUME CompositeAssumption == N \in Nat \ {0} /\ MaxChunks \in Nat

Members == 1 .. N

Strategy == {"route", "fallback", "parallel", "broadcast", "mux"}

(* How a member's send ends. *)
Success == "success"
Failures == {"reported_transient", "reported_permanent", "raised_transient", "raised_permanent"}
SendResults == {Success} \union Failures
MemberState == {"idle", "running", "cancelling", "cancelled"} \union SendResults
PermanentFailures == {"reported_permanent", "raised_permanent"}

(* What a reader puts into its queue.                                        *)
Message == [type: {"data", "done", "error"}, chunk: 0 .. MaxChunks]

(* fail_fast is for broadcasts, the timeout for concurrent sends.            *)
Configs ==
  {c \in [op: {"send", "stream"}, strategy: Strategy, failFast: BOOLEAN, timed: BOOLEAN] :
     /\ c.failFast => c.strategy = "broadcast"
     /\ c.timed => c.op = "send" /\ c.strategy \in {"parallel", "broadcast", "mux"}}

VARIABLES
  config,  (* the operation, the strategy, fail_fast, and whether there is a  *)
           (* parallel_timeout                                                *)
  at,      (* where the call is                                               *)
  outcome, (* how it ended                                                    *)
  member,  (* member -> idle, running, asked to stop (its task was cancelled  *)
           (* and has not run since), or how it ended                         *)
  cur,     (* the member tried by route and fallback                          *)
  emitted, (* member -> number of chunks produced                             *)
  queue,   (* member -> messages its reader has put                           *)
  listed,  (* members whose queue is still polled (queues, active)            *)
  rest,    (* those of them still to be polled in this round                  *)
  failed,  (* members whose error the merge has seen                          *)
  yielded  (* member -> the chunks of its stream handed to the consumer       *)

streamVars == <<emitted, queue, listed, rest, failed, yielded>>
vars == <<config, at, outcome, member, cur, streamVars>>

TypeOK ==
  /\ config \in Configs
  /\ at \in {"ready", "trying", "gathering", "merging", "yielded", "over"}
  /\ outcome \in {"none", "report", "bad_report", "transient", "permanent", "end", "abandoned"}
  /\ member \in [Members -> MemberState]
  /\ cur \in Members
  /\ emitted \in [Members -> 0 .. MaxChunks]
  /\ queue \in [Members -> Seq(Message)]
  /\ rest \subseteq Members /\ listed \subseteq Members /\ failed \subseteq Members
  /\ yielded \in [Members -> Seq(1 .. MaxChunks)]

Init ==
  /\ config \in Configs
  /\ at = "ready" /\ outcome = "none"
  /\ member = [i \in Members |-> "idle"]
  /\ cur = 1
  /\ emitted = [i \in Members |-> 0]
  /\ queue = [i \in Members |-> <<>>]
  /\ listed = {} /\ rest = {} /\ failed = {}
  /\ yielded = [i \in Members |-> <<>>]

Sending == config.op = "send"
Streaming == config.op = "stream"
Concurrent == config.strategy \in {"parallel", "broadcast", "mux"}
FailsFast == config.strategy = "broadcast" /\ config.failFast
Running(i) == member[i] = "running"

(* The running members are cancelled and awaited, or are only asked to stop.  *)
Cancelled == [i \in Members |-> IF Running(i) THEN "cancelled" ELSE member[i]]
Cancelling == [i \in Members |-> IF Running(i) THEN "cancelling" ELSE member[i]]

Stopped(i) == member[i] \notin {"running", "cancelling"}

Over(o) == at' = "over" /\ outcome' = o

------------------------------------------------------------------------------
(* Faults: wrong versions of definitions below, which the runs swap in.     *)

(* the last member is followed by another *)
AdvanceTooFar(r) ==
  IF cur <= N
    THEN /\ member' = [member EXCEPT ![cur] = r, ![cur + 1] = "running"]
         /\ cur' = cur + 1
         /\ UNCHANGED <<at, outcome>>
    ELSE /\ Over("permanent")
         /\ UNCHANGED <<cur, member>>

(* any report is taken for one of success *)
DeliveredIfReported(r) == r \notin {"raised_transient", "raised_permanent"}

(* the end of a reader overtakes the chunks it has put *)
ReaderEndsOvertaking(i, r) ==
  /\ Streaming /\ Concurrent /\ Running(i)
  /\ member' = [member EXCEPT ![i] = r]
  /\ queue' = [queue EXCEPT ![i] =
       <<[type |-> IF r = Success THEN "done" ELSE "error", chunk |-> 0]>> \o @]
  /\ UNCHANGED <<config, at, outcome, cur, emitted, listed, rest, failed, yielded>>

(* failing fast without cancelling the other readers *)
FailFastLeaving ==
  IF FailsFast
    THEN Over("permanent") /\ UNCHANGED member
    ELSE UNCHANGED <<at, outcome, member>>

(* the end of a stream does not end the polling of its queue *)
ForgetNothing(i) == UNCHANGED listed

------------------------------------------------------------------------------
(* Send.                                                                     *)

(* The selector may name any index; one that is out of bounds is refused.    *)
StartRoute ==
  /\ at = "ready" /\ config.strategy = "route"
  /\ \/ \E i \in Members :
          /\ cur' = i
          /\ member' = [member EXCEPT ![i] = "running"]
          /\ at' = "trying"
          /\ UNCHANGED outcome
     \/ Over("permanent") /\ UNCHANGED <<cur, member>>
  /\ UNCHANGED <<config, streamVars>>

StartFallback ==
  /\ at = "ready" /\ config.strategy = "fallback"
  /\ at' = "trying"
  /\ cur' = 1
  /\ member' = [member EXCEPT ![1] = "running"]
  /\ UNCHANGED <<config, outcome, streamVars>>

(* The member's report is passed on as it is, a failure's too; exceptions    *)
(* are passed on or wrapped.                                                 *)
RouteSend(r) ==
  /\ Sending /\ at = "trying" /\ config.strategy = "route"
  /\ member' = [member EXCEPT ![cur] = r]
  /\ Over(CASE r = Success -> "report"
            [] r \in {"reported_transient", "reported_permanent"} -> "bad_report"
            [] r = "raised_transient" -> "transient"
            [] r = "raised_permanent" -> "permanent")
  /\ UNCHANGED <<config, cur, streamVars>>

(* After a failure, of whatever kind, the next member runs at once.          *)
Advance(r) ==
  IF cur < N
    THEN /\ member' = [member EXCEPT ![cur] = r, ![cur + 1] = "running"]
         /\ cur' = cur + 1
         /\ UNCHANGED <<at, outcome>>
    ELSE /\ member' = [member EXCEPT ![cur] = r]
         /\ Over("permanent")
         /\ UNCHANGED cur

Delivered(r) == r = Success

FallbackSend(r) ==
  /\ Sending /\ at = "trying" /\ config.strategy = "fallback"
  /\ IF Delivered(r)
       THEN /\ member' = [member EXCEPT ![cur] = r]
            /\ Over("report")
            /\ UNCHANGED cur
       ELSE Advance(r)
  /\ UNCHANGED <<config, streamVars>>

StartGather ==
  /\ Sending /\ at = "ready" /\ Concurrent
  /\ at' = "gathering"
  /\ member' = [i \in Members |-> "running"]
  /\ UNCHANGED <<config, outcome, cur, streamVars>>

MemberSend(i, r) ==
  /\ at = "gathering" /\ Running(i)
  /\ member' = [member EXCEPT ![i] = r]
  /\ UNCHANGED <<config, at, outcome, cur, streamVars>>

(* Whatever the results, the call raises a transient error: where there are  *)
(* successes to report, the aggregated report is built with a field that     *)
(* DeliveryReport does not have; where the policy on the results raises, the *)
(* error it chose, permanent or not, is caught and wrapped with the rest.    *)
Gathered ==
  /\ at = "gathering" /\ \A i \in Members : ~Running(i)
  /\ Over("transient")
  /\ UNCHANGED <<config, member, cur, streamVars>>

(* wait_for cancels the members and waits for them.  What the handler then   *)
(* does raises itself (the members are coroutines, which have no done()),    *)
(* and ends as a transient error all the same.                               *)
GatherTimesOut ==
  /\ at = "gathering" /\ config.timed /\ \E i \in Members : Running(i)
  /\ member' = Cancelled
  /\ Over("transient")
  /\ UNCHANGED <<config, cur, streamVars>>

------------------------------------------------------------------------------
(* Stream.                                                                   *)

Chunk(i) == emitted[i] + 1

(* Of one member: its chunks go straight to the consumer.                    *)
PassOn ==
  /\ Streaming /\ at = "trying" /\ emitted[cur] < MaxChunks
  /\ emitted' = [emitted EXCEPT ![cur] = Chunk(cur)]
  /\ yielded' = [yielded EXCEPT ![cur] = Append(@, Chunk(cur))]
  /\ at' = "yielded"
  /\ UNCHANGED <<config, outcome, member, cur, queue, listed, rest, failed>>

StreamEnds ==
  /\ Streaming /\ at = "trying"
  /\ member' = [member EXCEPT ![cur] = Success]
  /\ Over("end")
  /\ UNCHANGED <<config, cur, streamVars>>

(* A failing member is followed by the next one, from the start of the       *)
(* payload; by route its error is passed on.                                 *)
StreamFails(r) ==
  /\ Streaming /\ at = "trying"
  /\ IF config.strategy = "fallback"
       THEN Advance(r)
       ELSE /\ member' = [member EXCEPT ![cur] = r]
            /\ Over(IF r \in PermanentFailures THEN "permanent" ELSE "transient")
            /\ UNCHANGED cur
  /\ UNCHANGED <<config, streamVars>>

(* Of all of them: one reader per member.                                    *)
StartMerge ==
  /\ Streaming /\ at = "ready" /\ Concurrent
  /\ at' = "merging"
  /\ member' = [i \in Members |-> "running"]
  /\ listed' = Members /\ rest' = Members
  /\ UNCHANGED <<config, outcome, cur, emitted, queue, failed, yielded>>

Merged == Streaming /\ Concurrent

ReaderPuts(i) ==
  /\ Merged /\ Running(i) /\ emitted[i] < MaxChunks
  /\ emitted' = [emitted EXCEPT ![i] = Chunk(i)]
  /\ queue' = [queue EXCEPT ![i] = Append(@, [type |-> "data", chunk |-> Chunk(i)])]
  /\ UNCHANGED <<config, at, outcome, member, cur, listed, rest, failed, yielded>>

(* Of which kind an error is makes no difference to a merge.                 *)
ReaderEnds(i, r) ==
  /\ Merged /\ Running(i)
  /\ member' = [member EXCEPT ![i] = r]
  /\ queue' = [queue EXCEPT ![i] =
       Append(@, [type |-> IF r = Success THEN "done" ELSE "error", chunk |-> 0])]
  /\ UNCHANGED <<config, at, outcome, cur, emitted, listed, rest, failed, yielded>>

(* The next queue of the round that has a message.  Nothing happens between  *)
(* the polls of a round except where a chunk is yielded.                     *)
Polls(i) ==
  /\ at = "merging"
  /\ i \in rest /\ queue[i] # <<>>
  /\ \A j \in rest : j < i => queue[j] = <<>>
  /\ rest' = {j \in rest : j > i}
  /\ queue' = [queue EXCEPT ![i] = Tail(@)]

TakeChunk(i) ==
  /\ Polls(i) /\ Head(queue[i]).type = "data"
  /\ yielded' = [yielded EXCEPT ![i] = Append(@, Head(queue[i]).chunk)]
  /\ at' = "yielded"
  /\ UNCHANGED <<config, outcome, member, cur, emitted, listed, failed>>

Unlist(i) == listed' = listed \ {i}

TakeDone(i) ==
  /\ Polls(i) /\ Head(queue[i]).type = "done"
  /\ Unlist(i)
  /\ UNCHANGED <<config, at, outcome, member, cur, emitted, failed, yielded>>

(* Broadcast may fail at the first error: it asks the other readers to stop  *)
(* and raises without waiting for them.                                      *)
FailFast ==
  IF FailsFast
    THEN Over("permanent") /\ member' = Cancelling
    ELSE UNCHANGED <<at, outcome, member>>

TakeError(i) ==
  /\ Polls(i) /\ Head(queue[i]).type = "error"
  /\ Unlist(i)
  /\ failed' = failed \union {i}
  /\ FailFast
  /\ UNCHANGED <<config, cur, emitted, yielded>>

Take == \E i \in Members : TakeChunk(i) \/ TakeDone(i) \/ TakeError(i)

(* The round is over: sleep, and poll the listed queues again.               *)
NextRound ==
  /\ at = "merging" /\ listed # {}
  /\ \A i \in rest : queue[i] = <<>>
  /\ rest' = listed
  /\ UNCHANGED <<config, at, outcome, member, cur, emitted, queue, listed, failed, yielded>>

(* Errors are raised by broadcast only.                                      *)
EndMerge ==
  /\ at = "merging" /\ listed = {}
  /\ member' = Cancelled
  /\ Over(IF config.strategy = "broadcast" /\ failed # {} THEN "transient" ELSE "end")
  /\ UNCHANGED <<config, cur, streamVars>>

(* A reader that was asked to stop finds out when it runs next, wherever it  *)
(* waits, and puts nothing more into its queue.                              *)
CancelLands(i) ==
  /\ member[i] = "cancelling"
  /\ member' = [member EXCEPT ![i] = "cancelled"]
  /\ UNCHANGED <<config, at, outcome, cur, streamVars>>

(* The consumer of a stream asks for more, or never comes back.  Giving up a *)
(* merge does not reach its readers; the one member of another stream is     *)
(* closed when its generator is collected.                                   *)
Resume ==
  /\ at = "yielded"
  /\ at' = IF Concurrent THEN "merging" ELSE "trying"
  /\ UNCHANGED <<config, outcome, member, cur, streamVars>>

Abandon ==
  /\ at = "yielded"
  /\ Over("abandoned")
  /\ member' = IF Concurrent THEN member ELSE Cancelling
  /\ UNCHANGED <<config, cur, streamVars>>

Stop == at = "over" /\ (\A i \in Members : Stopped(i)) /\ UNCHANGED vars

Next ==
  \/ StartRoute \/ StartFallback \/ StartGather \/ StartMerge
  \/ \E r \in SendResults : RouteSend(r) \/ FallbackSend(r)
  \/ \E i \in Members, r \in SendResults : MemberSend(i, r)
  \/ Gathered \/ GatherTimesOut
  \/ PassOn \/ StreamEnds
  \/ \E r \in {"raised_transient", "raised_permanent"} : StreamFails(r)
  \/ \E i \in Members : ReaderPuts(i) \/ CancelLands(i)
  \/ \E i \in Members, r \in {Success, "raised_transient"} : ReaderEnds(i, r)
  \/ Take \/ NextRound \/ EndMerge
  \/ Resume \/ Abandon
  \/ Stop

Spec == Init /\ [][Next]_vars

(* Members end sooner or later, a cancelled task gets to run, and the call   *)
(* goes on when it can; consumers come back or abandon the stream.           *)
FairSpec ==
  /\ Spec
  /\ WF_vars(StartRoute \/ StartFallback \/ StartGather \/ StartMerge)
  /\ WF_vars(\E r \in SendResults : RouteSend(r) \/ FallbackSend(r))
  /\ \A i \in Members : WF_vars(\E r \in SendResults : MemberSend(i, r))
  /\ WF_vars(Gathered)
  /\ WF_vars(StreamEnds)
  /\ \A i \in Members : WF_vars(ReaderEnds(i, Success)) /\ WF_vars(CancelLands(i))
  /\ WF_vars(Take \/ NextRound \/ EndMerge)
  /\ WF_vars(Resume \/ Abandon)

------------------------------------------------------------------------------
(* Properties.                                                               *)

(* By fallback a member is tried only after all before it have failed, and   *)
(* the call reports success exactly if the last one tried had it.            *)
FallbackInOrder ==
  config.strategy = "fallback" =>
    /\ \A i \in Members : i < cur => member[i] \in Failures
    /\ \A i \in Members : i > cur => member[i] = "idle"
    /\ outcome \in {"report", "end"} <=> member[cur] = Success

(* A send is given up for good (a permanent error, which nobody retries)     *)
(* only if no member reported that it delivered the payload.                 *)
PermanentMeansUndelivered ==
  Sending /\ outcome = "permanent" => \A i \in Members : member[i] # Success

(* y and then q are the chunks 1 to n in order; nothing but messages of the  *)
(* end comes after them in q.                                                *)
InOrder(y, q, n) ==
  /\ Len(y) <= n /\ n <= Len(y) + Len(q)
  /\ \A k \in 1 .. Len(y) : y[k] = k
  /\ \A k \in 1 .. Len(q) :
       IF Len(y) + k <= n
         THEN q[k] = [type |-> "data", chunk |-> Len(y) + k]
         ELSE q[k].type # "data"

(* A merge neither loses, repeats nor reorders the chunks of a member: those *)
(* yielded and those still in its queue are all it has produced, in order.   *)
MergeConserves == Merged => \A i \in Members : InOrder(yielded[i], queue[i], emitted[i])

(* A merge that ends without an exception has ended for every member, with   *)
(* nothing left in the queues.                                               *)
EndMeansDrained ==
  Merged /\ outcome = "end" => \A i \in Members : queue[i] = <<>> /\ ~Running(i)

(* When a call is over its members have stopped, unless the consumer gave up *)
(* a merge; only where a broadcast failed at its first error may they still  *)
(* have to find out that they were cancelled.                                *)
OverMeansQuiet ==
  at = "over" /\ outcome # "abandoned" =>
    \A i \in Members :
      /\ ~Running(i)
      /\ member[i] = "cancelling" => FailsFast /\ outcome = "permanent" /\ failed # {}

SendInv == FallbackInOrder /\ PermanentMeansUndelivered

MergeInv == MergeConserves /\ EndMeansDrained

(* Every call ends, and so does everything it started: no strategy waits for *)
(* a member that has ended, the polling of a merge stops when its members    *)
(* have stopped, and members that outlive the call stop after it.            *)
CallEnds == <>(at = "over" /\ \A i \in Members : Stopped(i))

==============================================================================
