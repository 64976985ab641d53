---------------------------- MODULE TransportsProofs ----------------------------
(***************************************************************************)
(* Proofs about the three transporters that MCTransports runs.  Each has   *)
(* an inductive invariant of its own, which the steps of the other two     *)
(* leave alone.                                                            *)
(***************************************************************************)
EXTENDS MCTransports, Sequences, FiniteSetTheorems, TLAPS

------------------------------------------------------------------------------
(* The keep-alive: only the task in _task runs, and misses are matched by   *)
(* pings but for the one that a pong may have come too late to prevent.     *)
Pinging == {"writing", "waiting"}

KeepAliveInv ==
  /\ K!TypeOK
  /\ \A t \in Tasks : K!Runs(t) => t = task
  /\ missed <= unanswered + 1
  /\ \A t \in Tasks : loop[t] \in Pinging => missed <= unanswered
  /\ reports => unanswered + 1 >= MaxMissed

LEMMA KeepAliveInit == K!Init => KeepAliveInv
  <1> SUFFICES ASSUME K!Init PROVE KeepAliveInv
    OBVIOUS
  <1>1. reports \in BOOLEAN /\ ~reports /\ pong \in BOOLEAN
    BY DEF K!Init
  <1>2. /\ loop = [t \in Tasks |-> "unused"] /\ cancelling = {} /\ task = K!NoTask
        /\ missed = 0 /\ unanswered = 0
    BY DEF K!Init
  <1> QED
    BY <1>1, <1>2, TransportsAssumption
       DEF KeepAliveInv, K!TypeOK, K!Runs, K!Running, Pinging

LEMMA KeepAliveStep == KeepAliveInv /\ K!Next => KeepAliveInv'
  <1> SUFFICES ASSUME KeepAliveInv, K!Next PROVE KeepAliveInv'
    OBVIOUS
  <1> USE TransportsAssumption DEF KeepAliveInv, K!TypeOK, K!Runs, K!Running, K!NoTask, Pinging
  <1>1. CASE K!Start
    BY <1>1 DEF K!Start, K!Done, K!Goto
  <1>2. CASE K!Stop
    <2>1. reports' \in BOOLEAN /\ ~reports' /\ pong' \in BOOLEAN
      BY <1>2 DEF K!Stop
    <2>2. task' \in {task, K!NoTask} /\ (K!Runs(task) => task' = task)
      BY <1>2 DEF K!Stop, K!Release
    <2>3. cancelling' \subseteq Tasks
      BY <1>2 DEF K!Stop
    <2>4. loop' = loop /\ missed' = missed /\ unanswered' = unanswered
      BY <1>2 DEF K!Stop
    <2> QED
      BY <2>1, <2>2, <2>3, <2>4
  <1>3. CASE K!HandlePong
    <2>1. reports' \in BOOLEAN /\ ~reports' /\ pong' \in BOOLEAN
      BY <1>3 DEF K!HandlePong
    <2>2. missed' = 0 /\ unanswered' = 0 /\ loop' = loop /\ task' = task /\ cancelling' = cancelling
      BY <1>3 DEF K!HandlePong, K!ResetCount
    <2> QED
      BY <2>1, <2>2
  <1>4. ASSUME NEW t \in Tasks, K!Ping(t) PROVE KeepAliveInv'
    <2>1. reports' \in BOOLEAN /\ ~reports' /\ pong' \in BOOLEAN
      BY <1>4 DEF K!Ping
    <2>2. /\ loop[t] = "sleeping" /\ missed' = missed /\ task' = task /\ cancelling' = cancelling
          /\ \/ /\ loop' = [loop EXCEPT ![t] = "writing"]
                /\ unanswered' = IF unanswered < MaxPings THEN unanswered + 1 ELSE unanswered
             \/ loop' = [loop EXCEPT ![t] = "ended"] /\ unanswered' = unanswered
      BY <1>4 DEF K!Ping, K!Goto
    <2> QED
      BY <2>1, <2>2
  <1>5. ASSUME NEW t \in Tasks, K!Drained(t) PROVE KeepAliveInv'
    BY <1>5 DEF K!Drained, K!Goto
  <1>6. ASSUME NEW t \in Tasks, K!Answered(t) PROVE KeepAliveInv'
    BY <1>6 DEF K!Answered, K!Goto
  <1>7. ASSUME NEW t \in Tasks, K!Expired(t) PROVE KeepAliveInv'
    BY <1>7 DEF K!Expired, K!Goto, K!CountMiss
  <1>8. ASSUME NEW t \in Tasks, K!Cancelled(t) PROVE KeepAliveInv'
    BY <1>8 DEF K!Cancelled, K!Goto
  <1> QED
    BY <1>1, <1>2, <1>3, <1>4, <1>5, <1>6, <1>7, <1>8 DEF K!Next, K!Step

LEMMA SameCount == ASSUME NEW X PROVE K!Cardinality(X) = Cardinality(X)
  BY DEF K!Cardinality, Cardinality

LEMMA KeepAliveSafe == KeepAliveInv => DeadOnlyIfSilent
  <1> SUFFICES ASSUME KeepAliveInv PROVE K!DeadOnlyIfSilent
    BY DEF DeadOnlyIfSilent
  <1>1. {t \in Tasks : K!Runs(t)} \in SUBSET {task}
    BY DEF KeepAliveInv
  <1>2. IsFiniteSet({task}) /\ Cardinality({task}) = 1
    BY FS_Singleton
  <1>3. Cardinality({t \in Tasks : K!Runs(t)}) <= 1
    BY <1>1, <1>2, FS_Subset
  <1>4. reports => unanswered + 1 >= MaxMissed
    BY DEF KeepAliveInv
  <1> QED
    BY <1>3, <1>4, SameCount DEF K!DeadOnlyIfSilent

------------------------------------------------------------------------------
(* The subprocess.  Without overlap one call is active at most, only the    *)
(* child in _proc runs, and, unless a call was cancelled, it runs for that  *)
(* call alone; what close waits for is the child that it will forget.       *)
ChildTypes ==
  /\ child \in [S!Children -> {"unused", "running", "exit0", "exit1"}]
  /\ proc \in S!Children \union {S!None}
  /\ input \in [S!Children -> SUBSET Senders]
  /\ reader \in [S!Children -> Senders \union {S!None}]
  /\ at \in [Senders -> S!Ended \union {"idle", "spawning", "reading", "streaming", "cleaning"}]
  /\ mine \in [Senders -> S!Children \union {S!None}]
  /\ doomed \in [Senders -> S!Children \union {S!None}]
  /\ error \in [Senders -> {"none", "transient", "permanent"}]
  /\ closing \in S!Children \union {S!None}

CleanUpTypes ==
  \A s \in Senders : at[s] = "cleaning" => doomed[s] # S!None /\ error[s] # "none"

UnusedEmpty == \A p \in S!Children : child[p] = "unused" => input[p] = {}

OneAtATime ==
  /\ \A r, s \in Senders : S!Active(r) /\ S!Active(s) => r = s
  /\ \A s \in Senders : S!Active(s) => closing = S!None /\ ~closed
  /\ closing # S!None => closing = proc
  /\ \A p \in S!Children : S!Alive(p) => p = proc /\ ~closed
  /\ \A s \in Senders : /\ at[s] = "spawning" => ~S!Alive(proc)
                        /\ S!Reading(s) => mine[s] = proc
                        /\ at[s] = "cleaning" => doomed[s] = proc

EachItsChild ==
  \A p \in S!Children :
    /\ \A r, s \in input[p] : r = s
    /\ S!Alive(p) => \E s \in Senders : S!Active(s) /\ input[p] \subseteq {s}

SubprocessInv ==
  /\ ChildTypes /\ CleanUpTypes /\ UnusedEmpty
  /\ closed \in BOOLEAN /\ overlapped \in BOOLEAN /\ cancelled \in BOOLEAN
  /\ ~overlapped => OneAtATime
  /\ ~overlapped /\ ~cancelled => EachItsChild

LEMMA SubprocessInit == S!Init => SubprocessInv
  <1> SUFFICES ASSUME S!Init PROVE SubprocessInv
    OBVIOUS
  <1>1. /\ closed \in BOOLEAN /\ overlapped \in BOOLEAN /\ cancelled \in BOOLEAN
    BY DEF S!Init
  <1>2. ChildTypes /\ CleanUpTypes /\ UnusedEmpty /\ OneAtATime /\ EachItsChild
    BY DEF S!Init, ChildTypes, CleanUpTypes, UnusedEmpty, OneAtATime, EachItsChild,
           S!Children, S!None, S!Ended, S!Active, S!Alive, S!Reading
  <1> QED
    BY <1>1, <1>2 DEF SubprocessInv

(* Writing to a child and reading from it, or cleaning up after having      *)
(* found another reader.                                                    *)
Reads(s, p, how) ==
  /\ at' = [at EXCEPT ![s] = how]
  /\ reader' = [reader EXCEPT ![p] = s] /\ doomed' = doomed /\ error' = error

FindsReader(s, p) ==
  /\ at' = [at EXCEPT ![s] = "cleaning"]
  /\ doomed' = [doomed EXCEPT ![s] = p] /\ error' = [error EXCEPT ![s] = "transient"]
  /\ reader' = reader

Writes(s, p) ==
  input' = [input EXCEPT ![p] = input[p] \union {s}] /\ mine' = [mine EXCEPT ![s] = p]

LEMMA UseReads ==
  ASSUME NEW s \in Senders, NEW p \in S!Children, NEW how, S!Use(s, p, how)
  PROVE  Writes(s, p) /\ (Reads(s, p, how) \/ FindsReader(s, p))
  BY DEF S!Use, S!Goto, Writes, Reads, FindsReader

LEMMA UseTypes ==
  ASSUME NEW s \in Senders, NEW p \in S!Children, NEW how \in {"reading", "streaming"},
         ChildTypes, CleanUpTypes, S!Use(s, p, how), closing' = closing,
         child' \in [S!Children -> {"unused", "running", "exit0", "exit1"}],
         proc' \in S!Children \union {S!None}
  PROVE  ChildTypes' /\ CleanUpTypes'
  <1> USE DEF ChildTypes, CleanUpTypes, S!Children, S!None, S!Ended, Writes
  <1>1. CASE Writes(s, p) /\ Reads(s, p, how)
    BY <1>1 DEF Reads
  <1>2. CASE Writes(s, p) /\ FindsReader(s, p)
    BY <1>2 DEF FindsReader
  <1> QED
    BY <1>1, <1>2, UseReads

(* A call ends, and some children with it.  The child in _proc is not left  *)
(* running unless calls overlapped or were cancelled.                       *)
Ends(s, l) ==
  /\ S!Active(s) /\ l \in S!Ended /\ at' = [at EXCEPT ![s] = l]
  /\ \A p \in S!Children : child'[p] # child[p] => child[p] = "running" /\ child'[p] = "exit1"
  /\ UNCHANGED <<proc, input, mine, doomed, error, closing>>

LEMMA EndKeeps ==
  ASSUME SubprocessInv, NEW s \in Senders, NEW l, Ends(s, l),
         child' \in [S!Children -> {"unused", "running", "exit0", "exit1"}],
         reader' \in [S!Children -> Senders \union {S!None}],
         closed' = closed, overlapped' = overlapped, cancelled' \in BOOLEAN,
         cancelled => cancelled', ~overlapped /\ ~cancelled' => ~S!Alive(proc)'
  PROVE  SubprocessInv'
  <1> USE DEF S!Children, S!None, S!Ended, S!Alive, S!Active, S!Reading
  <1>1. ChildTypes' /\ CleanUpTypes' /\ UnusedEmpty'
    BY DEF SubprocessInv, ChildTypes, CleanUpTypes, UnusedEmpty, Ends
  <1>2. \A p \in S!Children : S!Alive(p)' => S!Alive(p)
    BY DEF SubprocessInv, ChildTypes, Ends
  <1>3. \A r \in Senders : at'[r] = at[r] \/ (r = s /\ ~S!Active(r)')
    BY DEF SubprocessInv, ChildTypes, Ends
  <1>4. ASSUME ~overlapped PROVE OneAtATime'
    <2>1. OneAtATime /\ UNCHANGED <<proc, mine, doomed, closing, closed>>
      BY <1>4 DEF SubprocessInv, Ends
    <2>2. S!Alive(proc)' => S!Alive(proc)
      BY <1>2, <2>1 DEF SubprocessInv, ChildTypes
    <2> QED
      BY <1>2, <1>3, <2>1, <2>2 DEF OneAtATime
  <1>5. ASSUME ~overlapped, ~cancelled' PROVE EachItsChild'
    <2>1. EachItsChild /\ input' = input
      BY <1>5 DEF SubprocessInv, Ends
    <2>2. \A p \in S!Children : ~S!Alive(p)'
      BY <1>4, <1>5 DEF OneAtATime
    <2> QED
      BY <2>1, <2>2 DEF EachItsChild
  <1> QED
    BY <1>1, <1>4, <1>5 DEF SubprocessInv

(* A call that found its child running cleans up after an error.            *)
LEMMA CleanUpKeeps ==
  ASSUME SubprocessInv, NEW s \in Senders, NEW e \in {"transient", "permanent"},
         S!Reading(s), S!Alive(proc), S!CleanUp(s, e), 
         UNCHANGED <<child, proc, input, mine, closing, closed, overlapped, cancelled>>,
         reader' \in [S!Children -> Senders \union {S!None}]
  PROVE  SubprocessInv'
  <1> USE DEF S!Children, S!None, S!Ended, S!Alive, S!Active, S!Reading
  <1>0. /\ at' = [at EXCEPT ![s] = "cleaning"] /\ doomed' = [doomed EXCEPT ![s] = proc]
        /\ error' = [error EXCEPT ![s] = e]
    BY DEF S!CleanUp, S!Goto
  <1>1. ChildTypes' /\ CleanUpTypes' /\ UnusedEmpty'
    BY <1>0 DEF SubprocessInv, ChildTypes, CleanUpTypes, UnusedEmpty
  <1>2. /\ S!Active(s) /\ S!Active(s)' /\ at'[s] = "cleaning" /\ doomed'[s] = proc
        /\ \A r \in Senders : r # s => at'[r] = at[r] /\ doomed'[r] = doomed[r]
    BY <1>0 DEF SubprocessInv, ChildTypes
  <1>3. ASSUME ~overlapped PROVE OneAtATime'
    BY <1>2, <1>3 DEF SubprocessInv, OneAtATime
  <1>4. ASSUME ~overlapped, ~cancelled PROVE EachItsChild'
    BY <1>2, <1>4 DEF SubprocessInv, EachItsChild
  <1> QED
    BY <1>1, <1>3, <1>4 DEF SubprocessInv

LEMMA SubprocessStep == SubprocessInv /\ S!Next => SubprocessInv'
  <1> SUFFICES ASSUME SubprocessInv, S!Next PROVE SubprocessInv'
    OBVIOUS
  <1> USE DEF S!Children, S!None, S!Ended, S!Alive, S!Active, S!Reading, S!Goto
  <1>t. ChildTypes /\ CleanUpTypes /\ UnusedEmpty
    BY DEF SubprocessInv
  <1>b. closed \in BOOLEAN /\ overlapped \in BOOLEAN /\ cancelled \in BOOLEAN
    BY DEF SubprocessInv
  <1>o. ~overlapped => OneAtATime
    BY DEF SubprocessInv
  <1>e. ~overlapped /\ ~cancelled => EachItsChild
    BY DEF SubprocessInv
  <1>1. ASSUME NEW s \in Senders, S!Begin(s) PROVE SubprocessInv'
    <2>0. child' = child /\ proc' = proc /\ closing' = closing
      BY <1>1 DEF S!Begin
    <2>1. ChildTypes' /\ CleanUpTypes' /\ UnusedEmpty'
      <3>1. CASE S!Alive(proc)
        <4>1. PICK how \in {"reading", "streaming"} : S!Use(s, proc, how)
          BY <1>1, <3>1 DEF S!Begin
        <4> QED
          <5>1. /\ proc \in S!Children
                /\ child' \in [S!Children -> {"unused", "running", "exit0", "exit1"}]
                /\ proc' \in S!Children \union {S!None}
            BY <1>t, <2>0, <3>1 DEF ChildTypes
          <5>2. ChildTypes' /\ CleanUpTypes'
            BY <1>t, <2>0, <4>1, <5>1, UseTypes
          <5>3. Writes(s, proc)
            BY <4>1, <5>1, UseReads
          <5> QED
            BY <1>t, <2>0, <3>1, <5>1, <5>2, <5>3 DEF ChildTypes, UnusedEmpty, Writes
      <3>2. CASE ~S!Alive(proc)
        <4>1. /\ at' = [at EXCEPT ![s] = "spawning"]
              /\ input' = input /\ mine' = mine /\ reader' = reader /\ doomed' = doomed /\ error' = error
          BY <1>1, <3>2 DEF S!Begin
        <4> QED
          BY <1>t, <2>0, <4>1 DEF ChildTypes, CleanUpTypes, UnusedEmpty
      <3> QED
        BY <3>1, <3>2
    <2>3. closed' \in BOOLEAN /\ ~closed' /\ overlapped' \in BOOLEAN /\ cancelled' \in BOOLEAN
      BY <1>1, <1>b DEF S!Begin
    <2>4. ASSUME ~overlapped' PROVE ~overlapped /\ closing = S!None /\ \A r \in Senders : ~S!Active(r)
      BY <1>1, <2>4 DEF S!Begin
    <2>5. ASSUME ~overlapped' PROVE OneAtATime'
      <3>1. /\ \A r \in Senders : r # s => at'[r] = at[r] /\ ~S!Active(r)
            /\ at'[s] \in {"spawning", "reading", "streaming", "cleaning"}
            /\ at'[s] = "spawning" => ~S!Alive(proc)
            /\ S!Reading(s)' => mine'[s] = proc
            /\ at'[s] = "cleaning" => doomed'[s] = proc
        BY <1>1, <1>t, <2>4, <2>5 DEF S!Begin, S!Use, ChildTypes
      <3>2. OneAtATime
        BY <1>o, <2>4, <2>5
      <3> QED
        BY <2>0, <2>3, <2>4, <2>5, <3>1, <3>2 DEF OneAtATime
    <2>6. ASSUME ~overlapped', ~cancelled' PROVE EachItsChild'
      <3>1. EachItsChild /\ OneAtATime /\ ~S!Alive(proc)
        BY <1>1, <1>o, <1>e, <1>t, <2>4, <2>6 DEF S!Begin, EachItsChild, ChildTypes
      <3>2. input' = input /\ child' = child
        BY <1>1, <3>1 DEF S!Begin
      <3> QED
        BY <3>1, <3>2, <1>t DEF EachItsChild, OneAtATime, ChildTypes
    <2> QED
      BY <2>1, <2>3, <2>5, <2>6 DEF SubprocessInv
  <1>2. ASSUME NEW s \in Senders, S!Spawn(s) PROVE SubprocessInv'
    <2>0. at[s] = "spawning" /\ closing' = closing
      BY <1>2 DEF S!Spawn
    <2>1. closed' = closed /\ overlapped' = overlapped /\ cancelled' = cancelled
      BY <1>2 DEF S!Spawn
    <2>2. ASSUME NEW p \in S!Children, NEW how \in {"reading", "streaming"}, child[p] = "unused",
                 child' = [child EXCEPT ![p] = "running"], proc' = p, S!Use(s, p, how)
          PROVE  SubprocessInv'
      <3>0. /\ child' \in [S!Children -> {"unused", "running", "exit0", "exit1"}]
            /\ proc' \in S!Children \union {S!None}
        BY <1>t, <2>2 DEF ChildTypes
      <3>1. ChildTypes' /\ CleanUpTypes'
        BY <1>t, <2>0, <2>2, <3>0, UseTypes
      <3>w. Writes(s, p)
        BY ONLY <2>2, UseReads
      <3>r. Reads(s, p, how) \/ FindsReader(s, p)
        BY ONLY <2>2, UseReads
      <3>2. UnusedEmpty'
        BY <1>t, <2>2, <3>w DEF Writes, UnusedEmpty, ChildTypes
      <3>3. /\ S!Active(s)' /\ at'[s] \in {"reading", "streaming", "cleaning"}
            /\ mine'[s] = p
            /\ at'[s] = "cleaning" => doomed'[s] = p
            /\ \A r \in Senders : r # s => at'[r] = at[r] /\ mine'[r] = mine[r] /\ doomed'[r] = doomed[r]
        BY <1>t, <2>2, <3>w, <3>r DEF Writes, Reads, FindsReader, ChildTypes
      <3>4. ASSUME ~overlapped PROVE OneAtATime'
        BY <1>2, <1>t, <1>o, <2>0, <2>1, <2>2, <3>3, <3>4 DEF ChildTypes, OneAtATime
      <3>5. ASSUME ~overlapped, ~cancelled PROVE EachItsChild'
        <4>1. \A q \in S!Children : q # p => child'[q] = child[q] /\ input'[q] = input[q]
          BY <1>t, <2>2, <3>w DEF ChildTypes, Writes
        <4>2. input'[p] = {s}
          BY <1>t, <2>2, <3>w DEF ChildTypes, Writes, UnusedEmpty
        <4>3. \A q \in S!Children : q # p => ~S!Alive(q)
          BY <1>2, <1>o, <2>0, <3>5 DEF OneAtATime
        <4> QED
          BY <1>e, <3>3, <3>5, <4>1, <4>2, <4>3 DEF EachItsChild
      <3> QED
        BY <1>b, <2>1, <3>1, <3>2, <3>4, <3>5 DEF SubprocessInv
    <2>3. ASSUME at' = [at EXCEPT ![s] = "crashed"],
                 UNCHANGED <<child, proc, input, mine, reader, doomed, error>>
          PROVE  SubprocessInv'
      <3>1. Ends(s, "crashed") /\ child' \in [S!Children -> {"unused", "running", "exit0", "exit1"}]
            /\ reader' \in [S!Children -> Senders \union {S!None}]
        BY <1>t, <2>0, <2>3 DEF ChildTypes, Ends
      <3>2. ~overlapped => ~S!Alive(proc)'
        BY <1>2, <1>o, <2>0, <2>3 DEF OneAtATime
      <3> QED
        BY <1>b, <2>1, <3>1, <3>2, EndKeeps
    <2> QED
      BY <1>2, <2>2, <2>3 DEF S!Spawn
  <1>3. ASSUME NEW s \in Senders, S!Collect(s) PROVE SubprocessInv'
    <2>1. UNCHANGED <<child, proc, input, mine, closing, closed, overlapped, cancelled>>
      BY <1>3 DEF S!Collect
    <2>2. /\ S!Reading(s) /\ child[mine[s]] \in {"exit0", "exit1"}
          /\ reader' \in [S!Children -> Senders \union {S!None}]
      BY <1>3, <1>t DEF S!Collect, ChildTypes
    <2>3. ~overlapped => ~S!Alive(proc)'
      BY <1>3, <1>o, <2>1, <2>2 DEF OneAtATime
    <2>4. CASE S!CleanUp(s, "permanent") /\ S!Alive(proc)
      BY <2>1, <2>2, <2>4, CleanUpKeeps
    <2>5. CASE Ends(s, "ok") \/ Ends(s, "permanent")
      BY <1>b, <1>t, <2>1, <2>2, <2>3, <2>5, EndKeeps DEF ChildTypes
    <2> QED
      BY <1>3, <2>2, <2>4, <2>5 DEF S!Collect, S!CleanUp, Ends
  <1>4. ASSUME NEW s \in Senders, S!Timeout(s) PROVE SubprocessInv'
    <2>1. UNCHANGED <<child, proc, input, mine, closing, closed, overlapped, cancelled>>
      BY <1>4 DEF S!Timeout
    <2>2. S!Reading(s) /\ reader' \in [S!Children -> Senders \union {S!None}]
      BY <1>4, <1>t DEF S!Timeout, ChildTypes
    <2>3. CASE S!Alive(proc)
      BY <1>4, <2>1, <2>2, <2>3, CleanUpKeeps DEF S!Timeout
    <2>4. CASE ~S!Alive(proc)
      <3>1. Ends(s, "transient")
        BY <1>4, <2>1, <2>2, <2>4 DEF S!Timeout, S!CleanUp, Ends
      <3>2. child' \in [S!Children -> {"unused", "running", "exit0", "exit1"}] /\ ~S!Alive(proc)'
        BY <1>t, <2>1, <2>4 DEF ChildTypes
      <3> QED
        BY <1>b, <2>1, <2>2, <3>1, <3>2, EndKeeps
    <2> QED
      BY <2>3, <2>4
  <1>5. ASSUME NEW s \in Senders, S!Terminated(s) PROVE SubprocessInv'
    <2>1. UNCHANGED <<proc, input, reader, mine, doomed, error, closing, closed, overlapped, cancelled>>
      BY <1>5 DEF S!Terminated
    <2>2. /\ at[s] = "cleaning" /\ doomed[s] \in S!Children /\ error[s] \in S!Ended
          /\ reader' \in [S!Children -> Senders \union {S!None}]
      BY <1>5, <1>t, <2>1 DEF S!Terminated, ChildTypes, CleanUpTypes
    <2>3. ~overlapped => doomed[s] = proc
      BY <1>5, <1>o, <2>2 DEF OneAtATime
    <2>4. ASSUME NEW p \in S!Children, p \in {doomed[s], proc},
                 child' = [child EXCEPT ![p] = IF child[p] = "running" THEN "exit1" ELSE child[p]],
                 at' = [at EXCEPT ![s] = error[s]]
          PROVE  SubprocessInv'
      <3>1. Ends(s, error[s]) /\ child' \in [S!Children -> {"unused", "running", "exit0", "exit1"}]
        BY <1>t, <2>1, <2>2, <2>4 DEF ChildTypes, Ends
      <3>2. ~overlapped => ~S!Alive(proc)'
        BY <1>t, <2>1, <2>3, <2>4 DEF ChildTypes
      <3> QED
        BY <1>b, <2>1, <2>2, <3>1, <3>2, EndKeeps
    <2>5. ASSUME at' = [at EXCEPT ![s] = "crashed"], child' = child, proc = S!None
          PROVE  SubprocessInv'
      <3>1. Ends(s, "crashed") /\ child' \in [S!Children -> {"unused", "running", "exit0", "exit1"}]
        BY <1>t, <2>1, <2>2, <2>5 DEF ChildTypes, Ends
      <3> QED
        BY <1>b, <2>1, <2>2, <2>5, <3>1, EndKeeps
    <2>6. proc # S!None => proc \in S!Children
      BY <1>t DEF ChildTypes
    <2> QED
      BY <1>5, <2>2, <2>4, <2>5, <2>6 DEF S!Terminated
  <1>6. ASSUME NEW s \in Senders, S!Cancel(s) PROVE SubprocessInv'
    <2>1. cancelled' \in BOOLEAN /\ cancelled' /\ closed' = closed /\ overlapped' = overlapped
      BY <1>6 DEF S!Cancel
    <2>2. /\ Ends(s, "cancelled")
          /\ child' \in [S!Children -> {"unused", "running", "exit0", "exit1"}]
          /\ reader' \in [S!Children -> Senders \union {S!None}]
      BY <1>6, <1>t DEF S!Cancel, ChildTypes, Ends
    <2> QED
      BY <2>1, <2>2, EndKeeps
  <1>7. ASSUME NEW p \in S!Children, S!Exit(p) PROVE SubprocessInv'
    <2>1. ChildTypes'
      BY <1>7, <1>t DEF S!Exit, ChildTypes
    <2>2. CleanUpTypes' /\ UnusedEmpty'
      BY <1>7, <1>t DEF S!Exit, ChildTypes, CleanUpTypes, UnusedEmpty
    <2>3. closed' = closed /\ overlapped' = overlapped /\ cancelled' = cancelled
      BY <1>7 DEF S!Exit
    <2>4. ASSUME ~overlapped PROVE OneAtATime'
      BY <1>7, <1>t, <1>o, <2>3, <2>4 DEF S!Exit, ChildTypes, OneAtATime
    <2>5. ASSUME ~overlapped, ~cancelled PROVE EachItsChild'
      BY <1>7, <1>t, <1>e, <2>5 DEF S!Exit, ChildTypes, EachItsChild
    <2> QED
      BY <1>b, <2>1, <2>2, <2>3, <2>4, <2>5 DEF SubprocessInv
  <1>8. CASE S!Close
    <2>1. ChildTypes' /\ CleanUpTypes' /\ UnusedEmpty'
      BY <1>8, <1>t DEF S!Close, ChildTypes, CleanUpTypes, UnusedEmpty
    <2>2. closed' \in BOOLEAN /\ overlapped' \in BOOLEAN /\ cancelled' = cancelled
      BY <1>8, <1>b DEF S!Close
    <2>3. ASSUME ~overlapped' PROVE ~overlapped /\ \A r \in Senders : ~S!Active(r)
      BY <1>8, <2>3 DEF S!Close
    <2>4. ASSUME ~overlapped' PROVE OneAtATime'
      BY <1>8, <1>t, <1>o, <2>3, <2>4 DEF S!Close, ChildTypes, OneAtATime
    <2>5. ASSUME ~overlapped', ~cancelled PROVE EachItsChild'
      BY <1>8, <1>t, <1>e, <2>3, <2>5 DEF S!Close, ChildTypes, EachItsChild
    <2> QED
      BY <1>b, <2>1, <2>2, <2>4, <2>5 DEF SubprocessInv
  <1>9. CASE S!CloseEnds
    <2>1. ChildTypes' /\ CleanUpTypes' /\ UnusedEmpty'
      BY <1>9, <1>t DEF S!CloseEnds, ChildTypes, CleanUpTypes, UnusedEmpty
    <2>2. closed' \in BOOLEAN /\ overlapped' = overlapped /\ cancelled' = cancelled
      BY <1>9, <1>b DEF S!CloseEnds
    <2>4. ASSUME ~overlapped PROVE OneAtATime'
      BY <1>9, <1>t, <1>o, <2>4 DEF S!CloseEnds, ChildTypes, OneAtATime
    <2>5. ASSUME ~overlapped, ~cancelled PROVE EachItsChild'
      BY <1>9, <1>t, <1>e, <2>5 DEF S!CloseEnds, ChildTypes, EachItsChild
    <2> QED
      BY <1>b, <2>1, <2>2, <2>4, <2>5 DEF SubprocessInv
  <1> QED
    BY <1>1, <1>2, <1>3, <1>4, <1>5, <1>6, <1>7, <1>8, <1>9 DEF S!Next

LEMMA SameCountOfCalls == ASSUME NEW X PROVE S!Cardinality(X) = Cardinality(X)
  BY DEF S!Cardinality, Cardinality

LEMMA SubprocessSafe == SubprocessInv => ChildrenAccounted
  <1> SUFFICES ASSUME SubprocessInv, ~overlapped PROVE S!ChildrenAccounted
    BY DEF ChildrenAccounted, S!ChildrenAccounted
  <1>1. ASSUME ~cancelled, NEW p \in S!Children PROVE S!Cardinality(input[p]) <= 1
    <2>1. \A r, s \in input[p] : r = s
      BY <1>1 DEF SubprocessInv, EachItsChild
    <2>2. CASE input[p] = {}
      BY <2>2, FS_EmptySet, SameCountOfCalls
    <2>3. CASE input[p] # {}
      <3>1. PICK s \in input[p] : TRUE
        BY <2>3
      <3>2. input[p] = {s}
        BY <2>1, <3>1
      <3> QED
        <4>1. Cardinality({s}) = 1
          BY FS_Singleton
        <4>2. S!Cardinality({s}) = Cardinality({s})
          BY SameCountOfCalls
        <4> QED
          BY <3>2, <4>1, <4>2
    <2> QED
      BY <2>2, <2>3
  <1>2. closed => \A p \in S!Children : ~S!Alive(p)
    BY DEF SubprocessInv, OneAtATime
  <1> QED
    BY <1>1, <1>2 DEF S!ChildrenAccounted

------------------------------------------------------------------------------
(* The TCP transporter, call by call.  What is on the way goes on where the *)
(* reader has come to, half after half, and the reader wants the half that  *)
(* comes next.  The server has answered all it took but the request at hand, *)
(* each time with the same number of frames (up to the model's bound).      *)
Piece == [half : T!Halves, n : Nat]
Taken == [wanted : T!Halves, half : T!Halves, n : Nat]
HalfAt(i) == IF i % 2 = 1 THEN "length" ELSE "body"

Follows(stream, read) ==
  \A i \in 1 .. Len(stream) :
    /\ stream[i].half = HalfAt(Len(read) + i)
    /\ stream[i].n = (Len(read) + i + 1) \div 2

Whole(read) ==
  \A i \in 1 .. Len(read) : read[i].wanted = read[i].half /\ read[i].n = (i + 1) \div 2

Wants(state, read) ==
  /\ state = "length" => Len(read) % 2 = 0
  /\ state = "body" => Len(read) % 2 = 1

Answered(state, read) == IF state = "handling" THEN Len(read) \div 2 - 1 ELSE Len(read) \div 2

CallInv(atClient, atServer, onWayUp, onWayDown, gotDown, gotUp) ==
  /\ Whole(gotDown) /\ Follows(onWayDown, gotDown) /\ Wants(atClient, gotDown)
  /\ Whole(gotUp) /\ Follows(onWayUp, gotUp) /\ Wants(atServer, gotUp)
  /\ atServer = "handling" => Len(gotUp) % 2 = 0 /\ Len(gotUp) >= 2
  /\ atClient = "idle" => /\ atServer = "none" /\ onWayUp = <<>> /\ onWayDown = <<>>
                          /\ gotDown = <<>> /\ gotUp = <<>>
  /\ /\ atServer \in {"length", "body", "handling"}
     /\ Answered(atServer, gotUp) * answers <= MaxFrames
     => Len(gotDown) + Len(onWayDown) = 2 * (Answered(atServer, gotUp) * answers)

TcpTypes ==
  /\ kind \in [Calls -> T!Kinds] /\ answers \in Nat \ {0}
  /\ client \in [Calls -> T!Halves \union T!Ended \union {"idle"}]
  /\ server \in [Calls -> T!Halves \union {"none", "handling", "closed"}]
  /\ up \in [Calls -> Seq(Piece)] /\ down \in [Calls -> Seq(Piece)]
  /\ received \in [Calls -> Seq(Taken)] /\ taken \in [Calls -> Seq(Taken)]

TcpInv ==
  /\ TcpTypes
  /\ \A c \in Calls : CallInv(client[c], server[c], up[c], down[c], received[c], taken[c])

LEMMA Halving ==
  ASSUME NEW n \in Nat
  PROVE  /\ n % 2 = 0 => (n + 1) % 2 = 1 /\ (n + 1) \div 2 = n \div 2
         /\ n % 2 = 1 => n > 0 /\ (n + 1) % 2 = 0 /\ (n + 1) \div 2 = n \div 2 + 1
         /\ n % 2 \in {0, 1} /\ n \div 2 \in Nat
         /\ n > 0 => 1 + (n - 1) \div 2 = (n + 1) \div 2
  OBVIOUS

LEMMA HalvingSums ==
  ASSUME NEW n \in Nat, NEW k \in Nat
  PROVE  (2 * n + k) % 2 = k % 2 /\ (k > 0 => (2 * n + k + 1) \div 2 = n + 1 + (k - 1) \div 2)
  OBVIOUS

LEMMA Products ==
  ASSUME NEW d \in Nat, NEW a \in Nat
  PROVE  d * a \in Nat /\ (d + 1) * a = d * a + a
  OBVIOUS

LEMMA Joined ==
  ASSUME NEW A, NEW s \in Seq(A), NEW t \in Seq(A)
  PROVE  /\ s \o t \in Seq(A) /\ Len(s \o t) = Len(s) + Len(t)
         /\ \A i \in 1 .. Len(s) : (s \o t)[i] = s[i]
         /\ \A i \in 1 .. Len(t) : (s \o t)[Len(s) + i] = t[i]
  OBVIOUS

LEMMA FramesAre ==
  ASSUME NEW a \in Nat \ {0}, NEW b \in Nat, NEW k \in Nat \ {0}, b + 1 - a = k
  PROVE  /\ T!Frames(a, b) \in Seq(Piece) /\ Len(T!Frames(a, b)) = 2 * k
         /\ \A i \in 1 .. 2 * k : /\ T!Frames(a, b)[i].half = HalfAt(i)
                                  /\ T!Frames(a, b)[i].n = a + (i - 1) \div 2
  BY DEF T!Frames, Piece, T!Halves, HalfAt

LEMMA ReadKeeps ==
  ASSUME NEW read \in Seq(Taken), NEW stream \in Seq(Piece), stream # <<>>,
         Whole(read), Follows(stream, read), NEW wanted \in T!Halves, Wants(wanted, read)
  PROVE  /\ T!Take(read, wanted, stream) \in Seq(Taken) /\ Tail(stream) \in Seq(Piece)
         /\ Len(T!Take(read, wanted, stream)) = Len(read) + 1
         /\ Len(Tail(stream)) = Len(stream) - 1
         /\ Whole(T!Take(read, wanted, stream))
         /\ Follows(Tail(stream), T!Take(read, wanted, stream))
  <1> DEFINE h == [wanted |-> wanted, half |-> Head(stream).half, n |-> Head(stream).n]
             new == T!Take(read, wanted, stream)
  <1>0. Len(read) \in Nat /\ Len(stream) \in Nat \ {0} /\ Head(stream) = stream[1] /\ stream[1] \in Piece
    OBVIOUS
  <1>1. h \in Taken /\ h.wanted = wanted /\ h.half = stream[1].half /\ h.n = stream[1].n
    BY <1>0 DEF Piece, Taken
  <1>2. /\ new = Append(read, h) /\ new \in Seq(Taken) /\ Len(new) = Len(read) + 1
        /\ new[Len(read) + 1] = h /\ \A i \in 1 .. Len(read) : new[i] = read[i]
    BY <1>0, <1>1 DEF T!Take
  <1>3. /\ Tail(stream) \in Seq(Piece) /\ Len(Tail(stream)) = Len(stream) - 1
        /\ \A i \in 1 .. Len(stream) - 1 : Tail(stream)[i] = stream[i + 1]
    BY <1>0
  <1>4. h.half = HalfAt(Len(read) + 1) /\ h.n = (Len(read) + 2) \div 2
    BY <1>0, <1>1 DEF Follows
  <1>5. wanted = HalfAt(Len(read) + 1)
    BY <1>0 DEF Wants, T!Halves, HalfAt
  <1>6. Whole(new)
    <2> SUFFICES ASSUME NEW i \in 1 .. Len(read) + 1
                 PROVE  new[i].wanted = new[i].half /\ new[i].n = (i + 1) \div 2
      BY <1>2 DEF Whole
    <2>1. CASE i = Len(read) + 1
      BY <1>0, <1>1, <1>2, <1>4, <1>5, <2>1
    <2>2. CASE i \in 1 .. Len(read)
      BY <1>2, <2>2 DEF Whole
    <2> QED
      BY <1>0, <2>1, <2>2
  <1>7. Follows(Tail(stream), new)
    <2> SUFFICES ASSUME NEW i \in 1 .. Len(stream) - 1
                 PROVE  /\ Tail(stream)[i].half = HalfAt(Len(read) + 1 + i)
                        /\ Tail(stream)[i].n = (Len(read) + 1 + i + 1) \div 2
      BY <1>2, <1>3 DEF Follows
    <2>1. i + 1 \in 1 .. Len(stream) /\ Len(read) + (i + 1) = Len(read) + 1 + i
      BY <1>0
    <2> QED
      BY <1>0, <1>3, <2>1 DEF Follows
  <1> QED
    BY <1>2, <1>3, <1>6, <1>7

LEMMA TcpInit ==
  ASSUME T!Init
  PROVE  TcpInv
  <1>1. answers \in Nat \ {0}
    BY TransportsAssumption DEF T!Init
  <1>2. TcpTypes
    BY <1>1 DEF T!Init, TcpTypes, T!Kinds, T!Ended
  <1>3. ASSUME NEW c \in Calls
        PROVE  CallInv(client[c], server[c], up[c], down[c], received[c], taken[c])
    BY <1>3 DEF T!Init, CallInv, Whole, Follows, Wants
  <1> QED
    BY <1>2, <1>3 DEF TcpInv

(* A step of one call: the others keep theirs.                              *)
LEMMA OneCall ==
  ASSUME TcpInv, NEW c \in Calls, TcpTypes', answers' = answers,
         \A d \in Calls \ {c} : /\ client'[d] = client[d] /\ server'[d] = server[d]
                                /\ up'[d] = up[d] /\ down'[d] = down[d]
                                /\ received'[d] = received[d] /\ taken'[d] = taken[d],
         CallInv(client[c], server[c], up[c], down[c], received[c], taken[c])'
  PROVE  TcpInv'
  BY DEF TcpInv, CallInv

LEMMA ConnectKeeps == ASSUME TcpInv, NEW c \in Calls, T!Connect(c) PROVE TcpInv'
  <1>1. CASE /\ client' = [client EXCEPT ![c] = "length"] /\ server' = [server EXCEPT ![c] = "length"]
             /\ up' = [up EXCEPT ![c] = T!Frames(1, IF kind[c] = "foreign" THEN MaxFrames ELSE 1)]
    <2> DEFINE n == IF kind[c] = "foreign" THEN MaxFrames ELSE 1
    <2>1. n \in Nat \ {0} /\ up' = [up EXCEPT ![c] = T!Frames(1, n)]
      BY <1>1, TransportsAssumption
    <2> HIDE DEF n
    <2>2. T!Frames(1, n) \in Seq(Piece) /\ Len(T!Frames(1, n)) = 2 * n
          /\ \A i \in 1 .. 2 * n : /\ T!Frames(1, n)[i].half = HalfAt(i)
                                   /\ T!Frames(1, n)[i].n = 1 + (i - 1) \div 2
      <3>1. n + 1 - 1 = n /\ 1 \in Nat \ {0}
        BY <2>1
      <3> QED
        BY <2>1, <3>1, FramesAre
    <2>3. TcpTypes'
      BY <1>1, <2>1, <2>2 DEF T!Connect, TcpInv, TcpTypes, T!Halves
    <2>4. /\ client'[c] = "length" /\ server'[c] = "length" /\ up'[c] = T!Frames(1, n)
          /\ UNCHANGED <<down, received, taken, answers>>
          /\ down[c] = <<>> /\ received[c] = <<>> /\ taken[c] = <<>>
      BY <1>1, <2>1 DEF T!Connect, TcpInv, TcpTypes, CallInv
    <2>5. Follows(T!Frames(1, n), <<>>)
      <3> SUFFICES ASSUME NEW i \in 1 .. 2 * n
                   PROVE  /\ T!Frames(1, n)[i].half = HalfAt(0 + i)
                          /\ T!Frames(1, n)[i].n = (0 + i + 1) \div 2
        BY <2>2 DEF Follows
      <3>1. i \in Nat \ {0} /\ 0 + i = i
        BY <2>1
      <3> QED
        <4>1. T!Frames(1, n)[i].half = HalfAt(i) /\ T!Frames(1, n)[i].n = 1 + (i - 1) \div 2
          BY <2>2
        <4>2. 1 + (i - 1) \div 2 = (i + 1) \div 2
          BY <3>1, Halving
        <4> QED
          BY <3>1, <4>1, <4>2
    <2>6. 0 * answers = 0 /\ Answered("length", <<>>) = 0
      BY DEF TcpInv, TcpTypes, Answered
    <2>7. CallInv("length", "length", T!Frames(1, n), <<>>, <<>>, <<>>)
      BY <2>5, <2>6 DEF CallInv, Whole, Follows, Wants
    <2>8. CallInv(client[c], server[c], up[c], down[c], received[c], taken[c])'
      BY <2>4, <2>7 DEF CallInv
    <2>9. \A d \in Calls \ {c} : client'[d] = client[d] /\ server'[d] = server[d] /\ up'[d] = up[d]
      BY <1>1 DEF TcpInv, TcpTypes
    <2> QED
      BY <2>3, <2>4, <2>8, <2>9, OneCall
  <1>2. ASSUME NEW l \in {"permanent", "transient"}, client' = [client EXCEPT ![c] = l], UNCHANGED <<server, up>>
        PROVE  TcpInv'
    <2>1. UNCHANGED <<kind, server, up, down, received, taken, answers>> /\ client[c] = "idle"
      BY <1>2 DEF T!Connect
    <2>2. TcpTypes' /\ client'[c] = l /\ \A d \in Calls \ {c} : client'[d] = client[d]
      BY <1>2, <2>1 DEF TcpInv, TcpTypes, T!Ended
    <2>3. CallInv(client[c], server[c], up[c], down[c], received[c], taken[c])'
      BY <1>2, <2>1, <2>2 DEF TcpInv, CallInv, Wants
    <2> QED
      BY <2>1, <2>2, <2>3, OneCall
  <1> QED
    BY <1>1, <1>2 DEF T!Connect

(* A read ends in whatever state, without a half.                           *)
LEMMA LeavingKeeps ==
  ASSUME TcpInv, NEW c \in Calls, UNCHANGED <<kind, up, down, received, taken, answers>>,
         \/ \E l \in T!Ended : client' = [client EXCEPT ![c] = l] /\ server' = server
            /\ client[c] # "idle"
         \/ server' = [server EXCEPT ![c] = "closed"] /\ client' = client /\ server[c] # "none"
  PROVE  TcpInv'
  <1>1. TcpTypes'
    BY DEF TcpInv, TcpTypes, T!Ended
  <1>2. \A d \in Calls \ {c} : client'[d] = client[d] /\ server'[d] = server[d]
    BY DEF TcpInv, TcpTypes
  <1>3. /\ client'[c] = client[c] \/ (client'[c] \in T!Ended /\ client[c] # "idle")
        /\ server'[c] = server[c] \/ (server'[c] = "closed" /\ server[c] # "none" /\ client'[c] = client[c])
    BY DEF TcpInv, TcpTypes
  <1>4. CallInv(client[c], server[c], up[c], down[c], received[c], taken[c])'
    BY <1>3 DEF TcpInv, CallInv, Wants, T!Ended
  <1> QED
    BY <1>1, <1>2, <1>4, OneCall

(* The next half of a frame read, by the client and by the server, and an   *)
(* answer written.                                                          *)
LEMMA ClientHalf ==
  ASSUME NEW atClient \in T!Halves, NEW atServer, NEW onWayUp, NEW onWayDown \in Seq(Piece),
         NEW gotDown \in Seq(Taken), NEW gotUp, onWayDown # <<>>,
         CallInv(atClient, atServer, onWayUp, onWayDown, gotDown, gotUp),
         NEW l, l = "body" \/ l = "length" \/ l = "delivered",
         atClient = "length" => l = "body", atClient = "body" => l # "body"
  PROVE  CallInv(l, atServer, onWayUp, Tail(onWayDown), T!Take(gotDown, atClient, onWayDown), gotUp)
  <1> DEFINE new == T!Take(gotDown, atClient, onWayDown)
             rest == Tail(onWayDown)
  <1>1. /\ Len(new) = Len(gotDown) + 1 /\ Len(rest) = Len(onWayDown) - 1
        /\ Whole(new) /\ Follows(rest, new)
    BY ReadKeeps DEF CallInv
  <1> HIDE DEF new, rest
  <1>2. Len(gotDown) \in Nat /\ Len(onWayDown) \in Nat
    OBVIOUS
  <1>3. Wants(l, new)
    BY <1>1, <1>2, Halving DEF CallInv, Wants, T!Halves
  <1>4. Len(new) + Len(rest) = Len(gotDown) + Len(onWayDown)
    BY <1>1, <1>2
  <1>5. CallInv(l, atServer, onWayUp, rest, new, gotUp)
    BY <1>1, <1>3, <1>4 DEF CallInv
  <1> QED
    BY <1>5 DEF new, rest

LEMMA ServerHalf ==
  ASSUME NEW atClient, NEW atServer \in T!Halves, NEW onWayUp \in Seq(Piece), NEW onWayDown,
         NEW gotDown, NEW gotUp \in Seq(Taken), onWayUp # <<>>,
         CallInv(atClient, atServer, onWayUp, onWayDown, gotDown, gotUp),
         NEW l, atServer = "length" => l = "body", atServer = "body" => l = "handling"
  PROVE  CallInv(atClient, l, Tail(onWayUp), onWayDown, gotDown, T!Take(gotUp, atServer, onWayUp))
  <1> DEFINE new == T!Take(gotUp, atServer, onWayUp)
             rest == Tail(onWayUp)
  <1>1. Len(new) = Len(gotUp) + 1 /\ Whole(new) /\ Follows(rest, new)
    BY ReadKeeps DEF CallInv
  <1> HIDE DEF new, rest
  <1>2. Len(gotUp) \in Nat
    OBVIOUS
  <1>3. ASSUME atServer = "length" PROVE CallInv(atClient, l, rest, onWayDown, gotDown, new)
    <2>1. /\ Wants(l, new) /\ l = "body" /\ Len(new) \div 2 = Len(gotUp) \div 2
      BY <1>1, <1>2, <1>3, Halving DEF CallInv, Wants
    <2>2. Answered(l, new) = Answered(atServer, gotUp)
      BY <1>3, <2>1 DEF Answered
    <2>3. atClient # "idle"
      BY <1>3 DEF CallInv
    <2> QED
      BY <1>1, <1>3, <2>1, <2>2, <2>3 DEF CallInv
  <1>4. ASSUME atServer = "body" PROVE CallInv(atClient, l, rest, onWayDown, gotDown, new)
    <2>1. Len(gotUp) % 2 = 1 /\ l = "handling" /\ Len(gotUp) \div 2 \in Nat
      BY <1>2, <1>4, Halving DEF CallInv, Wants
    <2>2. Len(new) % 2 = 0 /\ Len(new) >= 2 /\ Len(new) \div 2 - 1 = Len(gotUp) \div 2
      BY <1>1, <1>2, <2>1, Halving
    <2>3. Answered(l, new) = Answered(atServer, gotUp)
      BY <1>4, <2>1, <2>2 DEF Answered
    <2>4. atClient # "idle" /\ Wants(l, new)
      BY <1>4, <2>1, <2>2 DEF CallInv, Wants
    <2> QED
      BY <1>1, <1>4, <2>1, <2>2, <2>3, <2>4 DEF CallInv
  <1>5. CallInv(atClient, l, rest, onWayDown, gotDown, new)
    <2>1. atServer = "length" \/ atServer = "body"
      BY DEF T!Halves
    <2> QED
      BY <1>3, <1>4, <2>1
  <1> QED
    BY <1>5 DEF new, rest

LEMMA AnswerFollows ==
  ASSUME NEW atClient, NEW onWayUp, NEW onWayDown \in Seq(Piece), NEW gotDown \in Seq(Taken),
         NEW gotUp \in Seq(Taken), answers \in Nat \ {0}, NEW n, NEW new,
         CallInv(atClient, "handling", onWayUp, onWayDown, gotDown, gotUp),
         n = (Len(gotUp) \div 2 - 1) * answers,
         new = IF n + answers > MaxFrames THEN onWayDown
               ELSE onWayDown \o T!Frames(n + 1, n + answers)
  PROVE  new \in Seq(Piece) /\ CallInv(atClient, "length", onWayUp, new, gotDown, gotUp)
  <1> DEFINE done == Len(gotUp) \div 2 - 1
  <1>1. done \in Nat /\ Len(gotUp) \div 2 = done + 1
    BY Halving DEF CallInv
  <1>2. Answered("handling", gotUp) = done /\ Answered("length", gotUp) = done + 1
    BY <1>1 DEF Answered
  <1>3. n = done * answers
    OBVIOUS
  <1> HIDE DEF done
  <1>4. (done + 1) * answers = n + answers
    BY <1>1, <1>3, Products
  <1>n. n \in Nat
    BY <1>1, <1>3, Products
  <1>5. CASE n + answers > MaxFrames
    BY <1>2, <1>4, <1>n, <1>5, TransportsAssumption DEF CallInv, Wants
  <1>6. CASE ~(n + answers > MaxFrames)
    <2> DEFINE more == T!Frames(n + 1, n + answers)
    <2>1. /\ more \in Seq(Piece) /\ Len(more) = 2 * answers
          /\ \A i \in 1 .. 2 * answers : /\ more[i].half = HalfAt(i)
                                         /\ more[i].n = n + 1 + (i - 1) \div 2
      <3>1. n + 1 \in Nat \ {0} /\ n + answers \in Nat /\ n + answers + 1 - (n + 1) = answers
        BY <1>n
      <3> QED
        BY <3>1, FramesAre
    <2> HIDE DEF more
    <2>2. new = onWayDown \o more
      BY <1>6 DEF more
    <2>3. n <= MaxFrames
      BY <1>n, <1>6, TransportsAssumption
    <2>4. Len(gotDown) + Len(onWayDown) = 2 * n
      BY <1>2, <1>3, <2>3 DEF CallInv
    <2>5. /\ new \in Seq(Piece) /\ Len(new) = Len(onWayDown) + Len(more)
          /\ \A i \in 1 .. Len(onWayDown) : new[i] = onWayDown[i]
          /\ \A i \in 1 .. Len(more) : new[Len(onWayDown) + i] = more[i]
      <3>1. /\ onWayDown \o more \in Seq(Piece) /\ Len(onWayDown \o more) = Len(onWayDown) + Len(more)
            /\ \A i \in 1 .. Len(onWayDown) : (onWayDown \o more)[i] = onWayDown[i]
            /\ \A i \in 1 .. Len(more) : (onWayDown \o more)[Len(onWayDown) + i] = more[i]
        <4>1. onWayDown \in Seq(Piece) /\ more \in Seq(Piece)
          BY <2>1
        <4> QED
          BY <4>1, Joined
      <3> QED
        BY <2>2, <3>1
    <2>6. Len(gotDown) \in Nat /\ Len(onWayDown) \in Nat /\ Len(more) \in Nat
      BY <2>1
    <2>7. ASSUME NEW i \in 1 .. Len(new)
          PROVE  /\ new[i].half = HalfAt(Len(gotDown) + i)
                 /\ new[i].n = (Len(gotDown) + i + 1) \div 2
      <3>1. CASE i <= Len(onWayDown)
        BY <2>5, <2>6, <3>1 DEF CallInv, Follows
      <3>2. CASE i > Len(onWayDown)
        <4>1. PICK k \in 1 .. Len(more) : i = Len(onWayDown) + k
          <5>1. i - Len(onWayDown) \in 1 .. Len(more) /\ i = Len(onWayDown) + (i - Len(onWayDown))
            BY <2>5, <2>6, <3>2
          <5> QED
            BY <5>1
        <4>2. new[i] = more[k] /\ k \in Nat /\ k > 0
          BY <2>5, <2>6, <4>1
        <4>3. Len(gotDown) + i = 2 * n + k
          BY ONLY <1>n, <2>4, <2>6, <4>1, <4>2, SMTT(20)
        <4>4. more[k].half = HalfAt(k) /\ more[k].n = n + 1 + (k - 1) \div 2
          BY <2>1, <4>1
        <4>5. HalfAt(2 * n + k) = HalfAt(k) /\ (2 * n + k + 1) \div 2 = n + 1 + (k - 1) \div 2
          BY <1>n, <4>2, HalvingSums DEF HalfAt
        <4> QED
          BY <4>2, <4>3, <4>4, <4>5
      <3> QED
        BY <2>6, <3>1, <3>2
    <2>8. Follows(new, gotDown)
      BY <2>7 DEF Follows
    <2>9. Len(gotDown) + Len(new) = 2 * ((done + 1) * answers)
      <3>1. Len(new) = Len(onWayDown) + 2 * answers
        BY <2>1, <2>5
      <3>2. Len(gotDown) + Len(new) = 2 * (n + answers)
        BY ONLY <1>n, <2>4, <2>6, <3>1, answers \in Nat \ {0}
      <3> QED
        BY <1>4, <3>2
    <2> QED
      BY <1>2, <2>5, <2>8, <2>9 DEF CallInv, Wants
  <1> QED
    BY <1>5, <1>6

LEMMA ClientReadsKeeps == ASSUME TcpInv, NEW c \in Calls, T!ClientReads(c) PROVE TcpInv'
  <1> DEFINE new == T!Take(received[c], client[c], down[c])
             l == IF client[c] = "length" THEN "body"
                  ELSE IF kind[c] = "send" THEN "delivered" ELSE "length"
  <1>0. /\ UNCHANGED <<kind, server, up, taken, answers>>
        /\ received' = [received EXCEPT ![c] = new] /\ down' = [down EXCEPT ![c] = Tail(down[c])]
        /\ client' = [client EXCEPT ![c] = l]
        /\ client[c] \in T!Halves /\ down[c] # <<>>
        /\ received[c] \in Seq(Taken) /\ down[c] \in Seq(Piece)
    BY DEF T!ClientReads, T!InReading, TcpInv, TcpTypes
  <1>i. CallInv(client[c], server[c], up[c], down[c], received[c], taken[c])
    BY DEF TcpInv
  <1>1. new \in Seq(Taken) /\ Tail(down[c]) \in Seq(Piece)
    BY <1>0, <1>i, ReadKeeps DEF CallInv
  <1>2. CallInv(l, server[c], up[c], Tail(down[c]), new, taken[c])
    BY <1>0, <1>i, ClientHalf
  <1>3. l \in T!Halves \union T!Ended
    BY DEF T!Halves, T!Ended
  <1> HIDE DEF new, l
  <1>4. TcpTypes'
    BY <1>0, <1>1, <1>3 DEF TcpInv, TcpTypes
  <1>5. /\ client'[c] = l /\ received'[c] = new /\ down'[c] = Tail(down[c])
        /\ \A d \in Calls \ {c} : client'[d] = client[d] /\ received'[d] = received[d] /\ down'[d] = down[d]
    BY <1>0 DEF TcpInv, TcpTypes
  <1>6. CallInv(client[c], server[c], up[c], down[c], received[c], taken[c])'
    BY <1>0, <1>2, <1>5 DEF CallInv
  <1> QED
    BY <1>0, <1>4, <1>5, <1>6, OneCall

LEMMA ServerReadsKeeps == ASSUME TcpInv, NEW c \in Calls, T!ServerReads(c) PROVE TcpInv'
  <1> DEFINE new == T!Take(taken[c], server[c], up[c])
             l == IF server[c] = "length" THEN "body" ELSE "handling"
  <1>0. /\ UNCHANGED <<kind, client, down, received, answers>>
        /\ taken' = [taken EXCEPT ![c] = new] /\ up' = [up EXCEPT ![c] = Tail(up[c])]
        /\ server' = [server EXCEPT ![c] = l]
        /\ server[c] \in T!Halves /\ up[c] # <<>>
        /\ taken[c] \in Seq(Taken) /\ up[c] \in Seq(Piece)
    BY DEF T!ServerReads, T!InReading, TcpInv, TcpTypes
  <1>i. CallInv(client[c], server[c], up[c], down[c], received[c], taken[c])
    BY DEF TcpInv
  <1>1. new \in Seq(Taken) /\ Tail(up[c]) \in Seq(Piece)
    BY <1>0, <1>i, ReadKeeps DEF CallInv
  <1>2. CallInv(client[c], l, Tail(up[c]), down[c], received[c], new)
    BY <1>0, <1>i, ServerHalf
  <1>3. l \in T!Halves \union {"handling"}
    BY DEF T!Halves
  <1> HIDE DEF new, l
  <1>4. TcpTypes'
    BY <1>0, <1>1, <1>3 DEF TcpInv, TcpTypes
  <1>5. /\ server'[c] = l /\ taken'[c] = new /\ up'[c] = Tail(up[c])
        /\ \A d \in Calls \ {c} : server'[d] = server[d] /\ taken'[d] = taken[d] /\ up'[d] = up[d]
    BY <1>0 DEF TcpInv, TcpTypes
  <1>6. CallInv(client[c], server[c], up[c], down[c], received[c], taken[c])'
    BY <1>0, <1>2, <1>5 DEF CallInv
  <1> QED
    BY <1>0, <1>4, <1>5, <1>6, OneCall

LEMMA AnswerKeeps == ASSUME TcpInv, NEW c \in Calls, T!Answer(c) PROVE TcpInv'
  <1> DEFINE n == (Len(taken[c]) \div 2 - 1) * answers
             new == IF n + answers > MaxFrames THEN down[c] ELSE down[c] \o T!Frames(n + 1, n + answers)
  <1>0. /\ UNCHANGED <<kind, client, up, received, taken, answers>>
        /\ server[c] = "handling" /\ server' = [server EXCEPT ![c] = "length"]
        /\ down' = [down EXCEPT ![c] = new]
    BY DEF T!Answer
  <1>i. CallInv(client[c], "handling", up[c], down[c], received[c], taken[c])
    BY <1>0 DEF TcpInv
  <1>1. down[c] \in Seq(Piece) /\ received[c] \in Seq(Taken) /\ taken[c] \in Seq(Taken) /\ answers \in Nat \ {0}
    BY DEF TcpInv, TcpTypes
  <1>2. new \in Seq(Piece) /\ CallInv(client[c], "length", up[c], new, received[c], taken[c])
    BY <1>1, <1>i, AnswerFollows
  <1> HIDE DEF n, new
  <1>4. TcpTypes'
    BY <1>0, <1>2 DEF TcpInv, TcpTypes, T!Halves
  <1>5. /\ server'[c] = "length" /\ down'[c] = new
        /\ \A d \in Calls \ {c} : server'[d] = server[d] /\ down'[d] = down[d]
    BY <1>0 DEF TcpInv, TcpTypes
  <1>6. CallInv(client[c], server[c], up[c], down[c], received[c], taken[c])'
    BY <1>0, <1>2, <1>5 DEF CallInv
  <1> QED
    BY <1>0, <1>4, <1>5, <1>6, OneCall

LEMMA TcpStep == TcpInv /\ T!Next => TcpInv'
  <1> SUFFICES ASSUME TcpInv, T!Next PROVE TcpInv'
    OBVIOUS
  <1>1. CASE T!Serve \/ T!CloseServer
    BY <1>1 DEF T!Serve, T!CloseServer, TcpInv, TcpTypes, CallInv
  <1>2. ASSUME NEW c \in Calls, T!ClientTimesOut(c) \/ T!ClientSeesEnd(c) PROVE TcpInv'
    <2>1. /\ UNCHANGED <<kind, server, up, down, received, taken, answers>>
          /\ client[c] # "idle" /\ \E l \in T!Ended : client' = [client EXCEPT ![c] = l]
      BY <1>2 DEF T!ClientTimesOut, T!ClientSeesEnd, T!GiveUp, T!InReading, T!Halves, T!Ended
    <2> QED
      BY <2>1, LeavingKeeps
  <1>3. ASSUME NEW c \in Calls, T!ServerCloses(c) PROVE TcpInv'
    <2>1. /\ UNCHANGED <<kind, client, up, down, received, taken, answers>>
          /\ server[c] # "none" /\ server' = [server EXCEPT ![c] = "closed"]
      BY <1>3 DEF T!ServerCloses, T!InReading, T!Halves
    <2> QED
      BY <2>1, LeavingKeeps
  <1> QED
    BY <1>1, <1>2, <1>3, ConnectKeeps, ClientReadsKeeps, ServerReadsKeeps, AnswerKeeps
       DEF T!Next, T!ClientStep

LEMMA TcpSafe == TcpInv => FramesWhole
  <1> SUFFICES ASSUME TcpInv, NEW c \in Calls, NEW read \in {received[c], taken[c]} PROVE Whole(read)
    BY DEF FramesWhole, T!FramesWhole, Whole
  <1> QED
    BY DEF TcpInv, CallInv

------------------------------------------------------------------------------
(* One of the three runs; the others stand as they began.                   *)
TransportsInv == KeepAliveInv /\ SubprocessInv /\ TcpInv

LEMMA TransportsInit == Init => TransportsInv
  BY KeepAliveInit, SubprocessInit, TcpInit DEF Init, TransportsInv

LEMMA KeepAliveStill == KeepAliveInv /\ UNCHANGED kVars => KeepAliveInv'
  BY DEF kVars, KeepAliveInv, K!TypeOK, K!Runs, K!Running, K!NoTask

LEMMA SubprocessStill == SubprocessInv /\ UNCHANGED sVars => SubprocessInv'
  <1> SUFFICES ASSUME SubprocessInv, UNCHANGED sVars PROVE SubprocessInv'
    OBVIOUS
  <1>1. UNCHANGED <<child, proc, input, reader, at, mine, doomed, error, closing, closed, overlapped, cancelled>>
    BY DEF sVars
  <1> QED
    BY <1>1 DEF SubprocessInv, ChildTypes, CleanUpTypes, UnusedEmpty, OneAtATime, EachItsChild,
                S!Alive, S!Active, S!Reading

LEMMA TcpStill == TcpInv /\ UNCHANGED tVars => TcpInv'
  BY DEF tVars, TcpInv, TcpTypes, CallInv

LEMMA TransportsStep == TransportsInv /\ [Next]_vars => TransportsInv'
  <1> SUFFICES ASSUME TransportsInv, [Next]_vars PROVE TransportsInv'
    OBVIOUS
  <1>1. KeepAliveInv /\ SubprocessInv /\ TcpInv
    BY DEF TransportsInv
  <1>2. CASE T!Next /\ UNCHANGED <<link, kVars, sVars>>
    BY <1>1, <1>2, TcpStep, KeepAliveStill, SubprocessStill DEF TransportsInv
  <1>3. CASE S!Next /\ UNCHANGED <<link, kVars, tVars>>
    BY <1>1, <1>3, SubprocessStep, KeepAliveStill, TcpStill DEF TransportsInv
  <1>4. CASE K!Next /\ UNCHANGED <<link, sVars, tVars>>
    BY <1>1, <1>4, KeepAliveStep, SubprocessStill, TcpStill DEF TransportsInv
  <1>5. CASE UNCHANGED vars
    BY <1>1, <1>5, KeepAliveStill, SubprocessStill, TcpStill DEF TransportsInv, vars
  <1> QED
    BY <1>2, <1>3, <1>4, <1>5 DEF Next

LEMMA TransportsHold == FairSpec => []TransportsInv
  <1>1. Init => TransportsInv
    BY TransportsInit
  <1>2. TransportsInv /\ [Next]_vars => TransportsInv'
    BY TransportsStep
  <1> QED
    BY <1>1, <1>2, PTL DEF FairSpec

(* However its tasks are started and cancelled, at most one keep-alive task *)
(* runs, and a WebSocket is only reported dead after all the pings it may   *)
(* miss but one went unanswered (_start_keepalive, _ping_loop).             *)
THEOREM AliveUnlessSilent == FairSpec => []DeadOnlyIfSilent
  <1>1. TransportsInv => DeadOnlyIfSilent
    BY KeepAliveSafe DEF TransportsInv
  <1> QED
    BY <1>1, TransportsHold, PTL

(* For any number of calls and of children: while calls neither overlap nor *)
(* are cancelled no child is given two payloads, and after close none runs  *)
(* (_ensure_proc, _cleanup, close).                                         *)
THEOREM ChildrenAreAccounted == FairSpec => []ChildrenAccounted
  <1>1. TransportsInv => ChildrenAccounted
    BY SubprocessSafe DEF TransportsInv
  <1> QED
    BY <1>1, TransportsHold, PTL

(* For any number of calls and frames: both ends read length, body, length, *)
(* body, each the half that was sent next (_read_framed, _do_stream,        *)
(* _handle_client).                                                         *)
THEOREM FramesStayWhole == FairSpec => []FramesWhole
  <1>1. TransportsInv => FramesWhole
    BY TcpSafe DEF TransportsInv
  <1> QED
    BY <1>1, TransportsHold, PTL

==============================================================================
