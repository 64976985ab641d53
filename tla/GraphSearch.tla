------------------------------- MODULE GraphSearch -------------------------------
(***************************************************************************)
(* The searches of the repository's dependency graph (graph/__init__.py,   *)
(* Graph; detect_cycles and topological_sort again in                      *)
(* graph/parsers/dependency_parser.py).  Each starts at any graph and      *)
(* takes nodes and edges in the order in which Python iterates over a set, *)
(* which is any.  Recursive calls are frames of a stack.                   *)
(***************************************************************************)
EXTENDS Naturals, Sequences, SequencesExt, FiniteSets

CONSTANTS
  Nodes,   (* the nodes                                                      *)
  Depth    (* how far impact_analysis goes                                   *)

VARIABLES
  job,     (* "cycles", "sort", "impact" or "critical"                       *)
  edges,   (* self.edges, as pairs; self.reverse is their inverse            *)
  chosen,  (* relevant: those of a domain; critical_ids; the root            *)
  stack,   (* the calls under way: node, level, the edges still to follow,   *)
           (* and the longest path that came back                            *)
  color,   (* "white", "gray", "black"; visited where it is not white        *)
  parent,  (* the node from which one was found                              *)
  cycles,  (* the cycles found                                               *)
  queue, degree, result,  (* of topological_sort                             *)
  levels,  (* node -> the level at which impact_analysis listed it           *)
  chain    (* get_critical_path                                              *)

gVars == <<job, edges, chosen, stack, color, parent, cycles, queue, degree, result, levels, chain>>

Out(n) == {m \in Nodes : <<n, m>> \in edges}      (* get_dependencies        *)
Into(n) == {m \in Nodes : <<m, n>> \in edges}     (* get_dependents          *)
Assign(f, n, value) == [m \in DOMAIN f \union {n} |-> IF m = n THEN value ELSE f[m]]
Orders(S) == {s \in [1 .. Cardinality(S) -> S] : ToSet(s) = S}

InDegree == [n \in chosen |-> Cardinality(Into(n) \intersect chosen)]

Init ==
  /\ job \in {"cycles", "sort", "impact", "critical"}
  /\ edges \in SUBSET (Nodes \X Nodes)
  /\ chosen \in (SUBSET Nodes) \ {{}} /\ (job = "impact" => Cardinality(chosen) = 1)
  /\ stack = <<>> /\ color = [n \in Nodes |-> "white"] /\ parent = <<>> /\ cycles = {}
  /\ degree = InDegree /\ result = <<>>
  /\ queue \in Orders({n \in chosen : degree[n] = 0}) /\ (job # "sort" => queue = <<>>)
  /\ levels = <<>> /\ chain = <<>>

Frame(n, level, todo) == [node |-> n, level |-> level, todo |-> todo, longest |-> <<>>]
Top == Last(stack)
Follow(d) == ReplaceAt(stack, Len(stack), [Top EXCEPT !.todo = @ \ {d}])
Enter(calls, n, level, todo) ==
  stack' = Append(calls, Frame(n, level, todo)) /\ color' = [color EXCEPT ![n] = "gray"]

------------------------------------------------------------------------------
(* Faults: wrong versions of definitions below, which the runs swap in.     *)

(* whatever was seen before closes a cycle *)
Seen(d) == color[d] # "white"
------------------------------------------------------------------------------
(* detect_cycles: a depth-first search from every node that is still white. *)
(* An edge to a gray node closes a cycle, which is read off the parents.    *)
Closes(d) == color[d] = "gray"
Cycle(n, d) ==
  LET path[m \in Nodes] == IF m = d THEN <<d>>
                           ELSE Append(IF m \in DOMAIN parent THEN path[parent[m]] ELSE <<d>>, m)
  IN path[n]

CycleRoot ==
  /\ job = "cycles" /\ stack = <<>>
  /\ \E n \in {m \in chosen : color[m] = "white"} : Enter(<<>>, n, 0, Out(n))
  /\ UNCHANGED <<parent, cycles>>

CycleEdge ==
  /\ job = "cycles" /\ stack # <<>>
  /\ \E d \in Top.todo :
       \/ /\ d \in chosen /\ color[d] = "white"
          /\ parent' = Assign(parent, d, Top.node) /\ Enter(Follow(d), d, 0, Out(d))
          /\ UNCHANGED cycles
       \/ /\ d \in chosen => color[d] # "white"
          /\ cycles' = IF d \in chosen /\ Closes(d) THEN cycles \union {Cycle(Top.node, d)} ELSE cycles
          /\ stack' = Follow(d) /\ UNCHANGED <<color, parent>>

CycleReturn ==
  /\ job = "cycles" /\ stack # <<>> /\ Top.todo = {}
  /\ stack' = Front(stack) /\ color' = [color EXCEPT ![Top.node] = "black"]
  /\ UNCHANGED <<parent, cycles>>

CycleStep == (CycleRoot \/ CycleEdge \/ CycleReturn) /\ UNCHANGED <<queue, degree, result, levels, chain>>

(* topological_sort: Kahn's algorithm.                                      *)
SortStep ==
  /\ job = "sort" /\ queue # <<>>
  /\ LET node == Head(queue)
         lower == [n \in chosen |-> IF n \in Out(node) THEN degree[n] - 1 ELSE degree[n]]
     IN /\ result' = Append(result, node) /\ degree' = lower
        /\ \E freed \in Orders({n \in Out(node) \intersect chosen : lower[n] = 0}) : queue' = Tail(queue) \o freed
  /\ UNCHANGED <<stack, color, parent, cycles, levels, chain>>

(* impact_analysis: those that depend on the root, level by level; a call   *)
(* that is too deep or at a node seen before returns at once.               *)
Collect(calls, n, level) ==
  IF level > Depth \/ color[n] # "white"
  THEN stack' = calls /\ UNCHANGED <<color, levels>>
  ELSE Enter(calls, n, level, Into(n)) /\ levels' = Assign(levels, n, level)

ImpactStep ==
  /\ job = "impact"
  /\ \/ /\ stack = <<>> /\ levels = <<>> /\ \E n \in chosen : Collect(<<>>, n, 0)
     \/ /\ stack # <<>> /\ \E d \in Top.todo : Collect(Follow(d), d, Top.level + 1)
     \/ /\ stack # <<>> /\ Top.todo = {} /\ stack' = Front(stack) /\ UNCHANGED <<color, levels>>
  /\ UNCHANGED <<parent, cycles, queue, degree, result, chain>>

(* get_critical_path: walk gives the longest of the paths that its calls    *)
(* gave; a node seen before gives none.                                     *)
Longer(s, t) == IF Len(t) > Len(s) THEN t ELSE s
WalkReturns ==
  LET path == <<Top.node>> \o Top.longest
      caller == stack[Len(stack) - 1]
  IN IF Len(stack) = 1
     THEN stack' = <<>> /\ chain' = Longer(chain, path)
     ELSE /\ stack' = Append(SubSeq(stack, 1, Len(stack) - 2), [caller EXCEPT !.longest = Longer(@, path)])
          /\ UNCHANGED chain

CriticalStep ==
  /\ job = "critical"
  /\ \/ /\ stack = <<>> /\ UNCHANGED chain
        /\ \E n \in {m \in chosen : color[m] = "white"} : Enter(<<>>, n, 0, Into(n) \intersect chosen)
     \/ /\ stack # <<>> /\ UNCHANGED chain
        /\ \E d \in Top.todo :
             IF color[d] = "white" THEN Enter(Follow(d), d, 0, Into(d) \intersect chosen)
             ELSE stack' = Follow(d) /\ UNCHANGED color
     \/ /\ stack # <<>> /\ Top.todo = {} /\ WalkReturns /\ UNCHANGED color
  /\ UNCHANGED <<parent, cycles, queue, degree, result, levels>>

Next ==
  /\ CycleStep \/ SortStep \/ ImpactStep \/ CriticalStep
  /\ UNCHANGED <<job, edges, chosen>>

------------------------------------------------------------------------------
Path(s) == \A i \in 1 .. Len(s) - 1 : <<s[i], s[i + 1]>> \in edges
Cyclic == \E S \in (SUBSET chosen) \ {{}} : \A n \in S : Out(n) \intersect S # {}
Searched == stack = <<>> /\ \A n \in chosen : color[n] # "white"

(* In whatever order a search meets nodes and edges: each cycle reported is *)
(* one, and one is reported whenever there is one; the order puts each node *)
(* behind all that lead to it, and keeps back nodes exactly if there is a   *)
(* cycle; the analysis of a change lists each node once, at the length of a *)
(* path to the root, and misses no direct dependent; the critical path is a *)
(* path of critical nodes (Graph.detect_cycles, topological_sort,           *)
(* impact_analysis, get_critical_path).                                     *)
SearchesRight ==
  /\ \A c \in cycles :
       /\ ToSet(c) \subseteq chosen /\ IsInjective(c)
       /\ Path(c) /\ <<Last(c), Head(c)>> \in edges
  /\ job = "cycles" /\ Searched => (cycles # {} <=> Cyclic)
  /\ IsInjective(result)
  /\ \A j \in DOMAIN result : Into(result[j]) \intersect chosen \subseteq {result[i] : i \in 1 .. j - 1}
  /\ job = "sort" /\ queue = <<>> => (ToSet(result) # chosen <=> Cyclic)
  /\ \A n \in DOMAIN levels : levels[n] <= Depth /\ (levels[n] = 0 \/ \E m \in Out(n) \intersect DOMAIN levels : levels[m] = levels[n] - 1)
  /\ job = "impact" /\ Searched => \A n \in chosen : Into(n) \subseteq DOMAIN levels
  /\ ToSet(chain) \subseteq chosen /\ IsInjective(chain) /\ Path(Reverse(chain))
==============================================================================
