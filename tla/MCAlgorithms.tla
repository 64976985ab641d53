------------------------------ MODULE MCAlgorithms ------------------------------
(* The parts that compute, one at a time: the codecs of the presentation    *)
(* and transport layers, and the repository's own graph of its modules and  *)
(* roadmap: rows, graph, taxonomy and searches.                             *)
EXTENDS Naturals, FiniteSets

CONSTANTS Nodes, Depth, MaxExtra, MaxWords,
  Ids, SourceFiles, Unparsed, Texts, NRows, MaxImports,
  Domains, Subdomains, TaxFiles, Concerns, Outside, Unlisted, Severities, NImports,
  MaxItems, Lengths, MessageFields

(* impact_analysis goes 3 levels deep unless it is told otherwise, and is   *)
(* called for what depends on its root.                                     *)
ASSUME SearchAssumption == IsFiniteSet(Nodes) /\ Depth \in Nat \ {0}
(* There are finitely many modules, and a text has a length.                *)
ASSUME GraphAssumption == IsFiniteSet(SourceFiles) /\ Texts \subseteq Nat /\ NRows \in Nat

VARIABLES part,
  job, edges, chosen, stack, color, parent, cycles, queue, degree, result, levels, chain,
  table, length, severities, efforts, fields, node,
  step, rows, at, nodes, linked,
  pass, tax, under, imports, registry,
  codec, sent, setting, wire, buffer, got, ended

(* A table of gaps has 13 fields; one of buggy components 10; one of        *)
(* missing components 8 or, in most of the files, 12.                       *)
Tables == {[kind |-> "gap", width |-> 13], [kind |-> "buggy", width |-> 10],
           [kind |-> "missing", width |-> 8], [kind |-> "missing", width |-> 12]}
(* A word that may be cut in two, a number, nothing, and texts of several   *)
(* lines, one of them with an empty line.                                   *)
Bodies == {<<"a", "a">>, <<"1", "2">>, <<>>, <<"b", "newline", "b">>, <<"c", "newline", "newline", "c">>}
Payloads == {<<>>, <<{1}, {2}, {1, 2}, {}, {2}>>}
Keys == {<<>>, <<{1}, {2}, {1, 2}, {}>>}

G == INSTANCE GraphSearch
R == INSTANCE RoadmapRows
(* The modules that parse, in the order of their names.                     *)
Modules == R!SetToSeq(SourceFiles)
B == INSTANCE RoadmapGraph
T == INSTANCE Taxonomy
C == INSTANCE Codecs
(* The taxonomy is finite, and its ids have distinct forms: 0.1 for a domain,*)
(* 0.1.1 for a subdomain, 0.1.1.1.f for a file, and a concern's number; a   *)
(* domain has no parent.  An unlisted parent is in no table.                *)
ASSUME TaxonomyAssumption ==
  /\ IsFiniteSet(TaxFiles) /\ IsFiniteSet(Concerns) /\ {} \notin Domains \union Subdomains \union Unlisted
  /\ Domains \intersect Subdomains = {} /\ (Domains \union Subdomains) \intersect (TaxFiles \union Concerns) = {}
  /\ Unlisted \intersect (Domains \union Subdomains \union TaxFiles \union Concerns) = {}
  /\ TaxFiles \intersect (Concerns \union Outside) = {}
(* A stream is finite, and a length fits in the 64 bits of a header.        *)
ASSUME DataAssumption == MaxItems \in Nat /\ \A n \in Lengths : n \in Nat /\ C!Shifted(n)[8] = 0

gVars == <<job, edges, chosen, stack, color, parent, cycles, queue, degree, result, levels, chain>>
rVars == <<table, length, severities, efforts, fields, node>>
bVars == <<step, rows, at, nodes, linked>>
tVars == <<pass, tax, under, imports, registry>>
cVars == <<codec, sent, setting, wire, buffer, got, ended>>

(* The state of the parts that are not run.                                 *)
GIdle == /\ job = "none" /\ edges = {} /\ chosen = {} /\ stack = <<>> /\ color = <<>> /\ parent = <<>> /\ cycles = {}
         /\ queue = <<>> /\ degree = <<>> /\ result = <<>> /\ levels = <<>> /\ chain = <<>>
RIdle == table = <<>> /\ length = 0 /\ severities = {} /\ efforts = {} /\ fields = <<>> /\ node = <<>>
BIdle == step = "none" /\ rows = <<>> /\ at = 0 /\ nodes = <<>> /\ linked = {}
TIdle == pass = "none" /\ tax = <<>> /\ under = {} /\ imports = <<>> /\ registry = <<>>
CIdle == codec = "none" /\ sent = <<>> /\ setting = <<>> /\ wire = <<>> /\ buffer = <<>> /\ got = <<>> /\ ended = FALSE

Init ==
  \/ part = "search" /\ G!Init /\ RIdle /\ BIdle /\ TIdle /\ CIdle
  \/ part = "rows" /\ R!Init /\ GIdle /\ BIdle /\ TIdle /\ CIdle
  \/ part = "graph" /\ B!Init /\ GIdle /\ RIdle /\ TIdle /\ CIdle
  \/ part = "taxonomy" /\ T!Init /\ GIdle /\ RIdle /\ BIdle /\ CIdle
  \/ part = "codec" /\ C!Init /\ GIdle /\ RIdle /\ BIdle /\ TIdle

Next ==
  \/ part = "search" /\ G!Next /\ UNCHANGED <<part, rVars, bVars, tVars, cVars>>
  \/ part = "rows" /\ R!Next /\ UNCHANGED <<part, gVars, bVars, tVars, cVars>>
  \/ part = "graph" /\ B!Next /\ UNCHANGED <<part, gVars, rVars, tVars, cVars>>
  \/ part = "taxonomy" /\ T!Next /\ UNCHANGED <<part, gVars, rVars, bVars, cVars>>
  \/ part = "codec" /\ C!Next /\ UNCHANGED <<part, gVars, rVars, bVars, tVars>>

Spec == Init /\ [][Next]_<<part, gVars, rVars, bVars, tVars, cVars>>

(* The graph that is built is whole, and each search of a graph gives what  *)
(* that graph has, in whatever order it meets nodes and edges: see          *)
(* RoadmapGraph and GraphSearch.                                            *)
GraphRight ==
  /\ part = "graph" => B!GraphWhole
  /\ part = "search" => G!SearchesRight

(* What the others make of their data: see RoadmapRows, Taxonomy and Codecs.*)
DataRight ==
  /\ part = "rows" => R!RowsKept
  /\ part = "taxonomy" => T!TaxonomyWhole
  /\ part = "codec" => C!CodecsInv
==============================================================================
