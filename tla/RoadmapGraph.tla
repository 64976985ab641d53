------------------------------ MODULE RoadmapGraph ------------------------------
(***************************************************************************)
(* Graph.build (graph/__init__.py): the rows of the roadmap and the modules *)
(* of the source become nodes, those with one id merged; then come edges    *)
(* for imports, for the dependencies that rows name, and for their files.   *)
(***************************************************************************)
EXTENDS Naturals, Sequences, FiniteSets

CONSTANTS
  Ids,       (* ids of rows                                                  *)
  Modules,   (* the modules that parse, in the order in which they are found *)
  Unparsed,  (* modules that do not parse or are set aside, which have no    *)
             (* node                                                         *)
  Texts,     (* lengths of a description                                     *)
  NRows,     (* the number of rows                                           *)
  MaxImports (* the most files a module imports                              *)

VARIABLES
  step,      (* the loop of build that runs                                  *)
  rows,      (* csv_nodes                                                    *)
  at,        (* how many of its items are done                               *)
  nodes,     (* id -> node; a value is the row that gave it, 0 if none did   *)
  linked     (* the edges                                                    *)

bVars == <<step, rows, at, nodes, linked>>

Mods == {Modules[i] : i \in DOMAIN Modules}
SmallSets(S) == {T \in SUBSET S : Cardinality(T) <= MaxImports}
(* What a row names in "dependencies" or as its file: an id, or the path or *)
(* an index of a module; a part of the paths of some modules, or of none.   *)
Exact(n) == [how |-> "exact", which |-> {n}]
Part(S) == [how |-> "part", which |-> S]
Tokens == {Exact(n) : n \in Ids \union Mods} \union {Part({}), Part(Mods)}
Row == [id : Ids, text : Texts, other : BOOLEAN, deps : {{}} \union {{t} : t \in Tokens}]

Init ==
  /\ rows \in [1 .. NRows -> Row]
  /\ step = "rows" /\ at = 0 /\ nodes = <<>> /\ linked = {}

Fresh(r) == [type |-> "gap", text |-> r, other |-> IF rows[r].other THEN r ELSE 0, deps |-> rows[r].deps]
TextOf(r) == IF r = 0 THEN 0 ELSE rows[r].text

------------------------------------------------------------------------------
(* Faults: wrong versions of definitions below, which the runs swap in.     *)

(* the later of two rows wins *)
LaterWins(node, r) ==
  [node EXCEPT !.text = r, !.other = IF rows[r].other THEN r ELSE @, !.deps = @ \union rows[r].deps]
------------------------------------------------------------------------------
(* _merge_node: the longer text, the first of every other value, all of the *)
(* dependencies.                                                            *)
Merge(node, r) ==
  [node EXCEPT !.text = IF rows[r].text > TextOf(@) THEN r ELSE @,
               !.other = IF @ = 0 /\ rows[r].other THEN r ELSE @,
               !.deps = @ \union rows[r].deps]

(* The loops of build follow each other; each goes through its items.       *)
Items == [rows |-> NRows, modules |-> Len(Modules), dependencies |-> NRows, files |-> NRows]
After == [rows |-> "modules", modules |-> "dependencies", dependencies |-> "files", files |-> "built"]
Turn(loop) == step = loop /\ at < Items[loop] /\ at' = at + 1 /\ UNCHANGED step
NextLoop == step # "built" /\ at = Items[step] /\ step' = After[step] /\ at' = 0 /\ UNCHANGED <<nodes, linked>>

Set(id, new) == nodes' = [n \in DOMAIN nodes \union {id} |-> IF n = id THEN new ELSE nodes[n]]

AddRow ==
  /\ Turn("rows")
  /\ LET r == at + 1
         id == rows[r].id
     IN Set(id, IF id \in DOMAIN nodes THEN Merge(nodes[id], r) ELSE Fresh(r))
  /\ UNCHANGED linked

(* scan_modules: a module imports what resolves to a file, parsed or not.   *)
AddModule ==
  /\ Turn("modules")
  /\ LET m == Modules[at + 1]
     IN /\ Set(m, [type |-> "module", text |-> 0, other |-> 0, deps |-> {}])
        /\ \E imported \in SmallSets(Mods \union Unparsed) : linked' = linked \union ({m} \X imported)

(* _try_match_dependency, and a row's file: the node of that name, or the   *)
(* first of the modules of whose path it is a part.                         *)
FirstOf(S) ==
  LET In(i) == Modules[i] \in S
  IN Modules[CHOOSE i \in DOMAIN Modules : In(i) /\ \A j \in DOMAIN Modules : In(j) => i <= j]
Match(token) ==
  CASE token.how = "exact" /\ token.which \subseteq DOMAIN nodes -> token.which
    [] token.how = "part" /\ token.which # {} -> {FirstOf(token.which)}
    [] OTHER -> {}

LinkDependencies ==
  /\ Turn("dependencies")
  /\ linked' = linked \union ({rows[at + 1].id} \X UNION {Match(t) : t \in rows[at + 1].deps})
  /\ UNCHANGED nodes

LinkFile ==
  /\ Turn("files")
  /\ \E file \in Tokens : file.which \subseteq Mods /\ linked' = linked \union ({rows[at + 1].id} \X Match(file))
  /\ UNCHANGED nodes

Next == (AddRow \/ AddModule \/ LinkDependencies \/ LinkFile \/ NextLoop) /\ UNCHANGED rows

------------------------------------------------------------------------------
RowsOf(id) == {r \in 1 .. NRows : rows[r].id = id}

(* The graph that is built has a node for every row's id and every module,  *)
(* and for both ends of an edge, unless it leads to a file that does not    *)
(* parse; of rows with one id, it keeps the longest text, the first of each *)
(* other value and every dependency; and each row that names a node has an  *)
(* edge to it (Graph.build, _merge_node, _try_match_dependency).            *)
GraphWhole ==
  step = "built" =>
    /\ DOMAIN nodes = {rows[r].id : r \in 1 .. NRows} \union Mods
    /\ \A e \in linked : e[1] \in DOMAIN nodes /\ e[2] \in DOMAIN nodes \union Unparsed
    /\ \A id \in (DOMAIN nodes) \ Mods :
         /\ \A r \in RowsOf(id) : rows[r].text <= TextOf(nodes[id].text)
         /\ \A r \in RowsOf(id) : rows[r].other => nodes[id].other \in 1 .. r
         /\ nodes[id].deps = UNION {rows[r].deps : r \in RowsOf(id)}
         /\ \A t \in nodes[id].deps : t.how = "exact" => {id} \X (t.which \intersect DOMAIN nodes) \subseteq linked
==============================================================================
