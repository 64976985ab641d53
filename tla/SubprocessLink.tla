----------------------------- MODULE SubprocessLink -----------------------------
(***************************************************************************)
(* SubprocessTransporter (transport/subprocess.py): sends and streams that *)
(* share one child process, kept in _proc and replaced once it has ended.  *)
(* Nothing serialises them: a second sender that finds the child running   *)
(* uses it too.  asyncio refuses a second reader of the same pipe, so that *)
(* sender fails, after its input is written.  Cleaning up always acts on   *)
(* the child _proc names at that moment.                                   *)
(***************************************************************************)
EXTENDS Naturals, FiniteSets

CONSTANTS
  Senders,    (* calls of send or stream, each made once                      *)
  MaxChildren (* bound: child processes spawned                              *)

None == 0
Children == 1 .. MaxChildren

VARIABLES
  child,   (* child -> unused, running, or how it exited                     *)
  proc,    (* _proc                                                          *)
  input,   (* child -> the calls whose payload was written to it             *)
  reader,  (* child -> the call that reads its output, or None               *)
  at,      (* call -> where it is, or how it ended                           *)
  mine,    (* call -> the child it uses                                      *)
  doomed,  (* call -> the child its cleanup waits for                        *)
  error,   (* call -> the error to raise after the cleanup                   *)
  closing, (* the child close waits for, or None                             *)
  closed,  (* close has ended and no call has begun since                    *)
  overlapped, (* a call or a close began while another was under way         *)
  cancelled   (* a call was cancelled                                        *)

vars == <<child, proc, input, reader, at, mine, doomed, error, closing, closed, overlapped, cancelled>>

Ended == {"ok", "transient", "permanent", "crashed", "cancelled"}
Alive(p) == p # None /\ child[p] = "running"

TypeOK ==
  /\ child \in [Children -> {"unused", "running", "exit0", "exit1"}]
  /\ proc \in Children \union {None}
  /\ input \in [Children -> SUBSET Senders]
  /\ reader \in [Children -> Senders \union {None}]
  /\ at \in [Senders -> Ended \union {"idle", "spawning", "reading", "streaming", "cleaning"}]
  /\ mine \in [Senders -> Children \union {None}]
  /\ doomed \in [Senders -> Children \union {None}]
  /\ error \in [Senders -> {"none", "transient", "permanent"}]
  /\ closing \in Children \union {None} /\ closed \in BOOLEAN
  /\ overlapped \in BOOLEAN /\ cancelled \in BOOLEAN

Init ==
  /\ child = [p \in Children |-> "unused"] /\ proc = None
  /\ input = [p \in Children |-> {}] /\ reader = [p \in Children |-> None]
  /\ at = [s \in Senders |-> "idle"]
  /\ mine = [s \in Senders |-> None] /\ doomed = [s \in Senders |-> None]
  /\ error = [s \in Senders |-> "none"]
  /\ closing = None /\ closed = FALSE /\ overlapped = FALSE /\ cancelled = FALSE

Goto(s, l) == at' = [at EXCEPT ![s] = l]
Active(s) == at[s] \notin Ended \union {"idle"}
Reading(s) == at[s] \in {"reading", "streaming"}

------------------------------------------------------------------------------
(* Faults: wrong versions of definitions below, which the runs swap in.     *)

(* a call that timed out leaves its child running *)
LeaveRunning(s, e) ==
  /\ Goto(s, e)
  /\ UNCHANGED <<doomed, error>>
------------------------------------------------------------------------------
(* Write the payload and read the output: communicate, or the stream's      *)
(* loop.  The pipe has one reader; the second fails and cleans up.          *)
Use(s, p, how) ==
  /\ input' = [input EXCEPT ![p] = @ \union {s}]
  /\ mine' = [mine EXCEPT ![s] = p]
  /\ IF reader[p] = None
       THEN /\ reader' = [reader EXCEPT ![p] = s] /\ Goto(s, how)
            /\ UNCHANGED <<doomed, error>>
       ELSE /\ Goto(s, "cleaning")
            /\ doomed' = [doomed EXCEPT ![s] = p]
            /\ error' = [error EXCEPT ![s] = "transient"]
            /\ UNCHANGED reader

(* A call begins: _ensure_proc finds the child running, or must await a new *)
(* one.  Whether it sends or streams shows when it uses the child.          *)
Begin(s) ==
  /\ at[s] = "idle"
  /\ overlapped' = (overlapped \/ (\E r \in Senders : Active(r)) \/ closing # None)
  /\ closed' = FALSE
  /\ \/ Alive(proc) /\ \E how \in {"reading", "streaming"} : Use(s, proc, how)
     \/ ~Alive(proc) /\ Goto(s, "spawning") /\ UNCHANGED <<input, mine, reader, doomed, error>>
  /\ UNCHANGED <<child, proc, closing, cancelled>>

(* create_subprocess_exec returns: the new child replaces _proc, whatever   *)
(* that has become meanwhile; or it fails, outside the try of the caller.   *)
Spawn(s) ==
  /\ at[s] = "spawning"
  /\ \/ \E p \in Children, how \in {"reading", "streaming"} :
          /\ child[p] = "unused" /\ \A q \in 1 .. p - 1 : child[q] # "unused"
          /\ child' = [child EXCEPT ![p] = "running"] /\ proc' = p
          /\ Use(s, p, how)
     \/ /\ Goto(s, "crashed")
        /\ UNCHANGED <<child, proc, input, mine, reader, doomed, error>>
  /\ UNCHANGED <<closing, closed, overlapped, cancelled>>

(* A child ends by itself.                                                  *)
Exit(p) ==
  /\ Alive(p)
  /\ \E rc \in {"exit0", "exit1"} : child' = [child EXCEPT ![p] = rc]
  /\ UNCHANGED <<proc, input, reader, at, mine, doomed, error, closing, closed, overlapped, cancelled>>

(* _cleanup before an error is raised: the child of _proc, if it runs, is   *)
(* terminated and awaited.                                                  *)
CleanUp(s, e) ==
  IF Alive(proc)
    THEN /\ Goto(s, "cleaning")
         /\ doomed' = [doomed EXCEPT ![s] = proc]
         /\ error' = [error EXCEPT ![s] = e]
    ELSE Goto(s, e) /\ UNCHANGED <<doomed, error>>

(* The output is complete: the call ends by the exit code of its own child. *)
Collect(s) ==
  /\ Reading(s) /\ child[mine[s]] \in {"exit0", "exit1"}
  /\ reader' = [reader EXCEPT ![mine[s]] = None]
  /\ IF child[mine[s]] = "exit0" THEN Goto(s, "ok") /\ UNCHANGED <<doomed, error>>
                                 ELSE CleanUp(s, "permanent")
  /\ UNCHANGED <<child, proc, input, mine, closing, closed, overlapped, cancelled>>

Timeout(s) ==
  /\ Reading(s)
  /\ reader' = [reader EXCEPT ![mine[s]] = None]
  /\ CleanUp(s, "transient")
  /\ UNCHANGED <<child, proc, input, mine, closing, closed, overlapped, cancelled>>

(* The cleanup of a call: the child dies of terminate; or after three       *)
(* seconds kill is called on the child _proc names then (if close has       *)
(* cleared _proc, that raises instead).                                     *)
Terminated(s) ==
  /\ at[s] = "cleaning"
  /\ \/ child' = [child EXCEPT ![doomed[s]] = IF @ = "running" THEN "exit1" ELSE @]
        /\ Goto(s, error[s])
     \/ /\ Alive(doomed[s]) /\ proc # None
        /\ child' = [child EXCEPT ![proc] = IF @ = "running" THEN "exit1" ELSE @]
        /\ Goto(s, error[s])
     \/ Alive(doomed[s]) /\ proc = None /\ Goto(s, "crashed") /\ UNCHANGED child
  /\ UNCHANGED <<proc, input, reader, mine, doomed, error, closing, closed, overlapped, cancelled>>

(* The task is cancelled: no handler catches that, the child stays.         *)
Cancel(s) ==
  /\ Reading(s)
  /\ reader' = [reader EXCEPT ![mine[s]] = None]
  /\ Goto(s, "cancelled")
  /\ cancelled' = TRUE
  /\ UNCHANGED <<child, proc, input, mine, doomed, error, closing, closed, overlapped>>

(* close: end the child as above, then forget it.                           *)
Close ==
  /\ closing = None
  /\ overlapped' = (overlapped \/ \E s \in Senders : Active(s))
  /\ IF Alive(proc) THEN closing' = proc /\ UNCHANGED <<closed, proc>>
                    ELSE closed' = TRUE /\ proc' = None /\ UNCHANGED closing
  /\ UNCHANGED <<child, input, reader, at, mine, doomed, error, cancelled>>

CloseEnds ==
  /\ closing # None
  /\ child' = [child EXCEPT ![closing] = IF @ = "running" THEN "exit1" ELSE @]
  /\ closing' = None /\ closed' = TRUE /\ proc' = None
  /\ UNCHANGED <<input, reader, at, mine, doomed, error, overlapped, cancelled>>

Next ==
  \/ \E s \in Senders : \/ Begin(s) \/ Spawn(s) \/ Collect(s)
                        \/ Timeout(s) \/ Terminated(s) \/ Cancel(s)
  \/ \E p \in Children : Exit(p)
  \/ Close \/ CloseEnds

------------------------------------------------------------------------------
(* As long as calls neither overlap nor are cancelled, no child is given    *)
(* the payloads of two calls: one that failed or timed out has ended its    *)
(* child before the next looks for one.  And once close has ended, until    *)
(* the next call, no child runs, even if a cancelled call had left its own  *)
(* behind (_ensure_proc, _cleanup, close).                                  *)
ChildrenAccounted ==
  ~overlapped =>
    /\ ~cancelled => \A p \in Children : Cardinality(input[p]) <= 1
    /\ closed => \A p \in Children : ~Alive(p)
==============================================================================
