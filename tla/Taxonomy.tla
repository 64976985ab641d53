-------------------------------- MODULE Taxonomy --------------------------------
(***************************************************************************)
(* The taxonomy of the repository (graph/__init__.py,                       *)
(* build_folder_taxonomy to build_dependency_registry, and graph/parsers):  *)
(* domains, subdomains and files from tables, the imports between files,    *)
(* the concerns that affect them, and the tasks made from stubs.            *)
(***************************************************************************)
EXTENDS Naturals, Sequences, SequencesExt, FiniteSets, Functions

CONSTANTS Domains, Subdomains, TaxFiles, Concerns, Outside, Severities, NImports,
  Unlisted    (* parents that no table has                                   *)

VARIABLES
  pass,       (* what is built                                               *)
  tax,        (* taxonomy_nodes                                              *)
  under,      (* taxonomy_edges                                              *)
  imports,    (* the import edges already handled, in order                  *)
  registry    (* dependency_registry                                         *)

tVars == <<pass, tax, under, imports, registry>>

Init == pass = "folders" /\ tax = <<>> /\ under = {} /\ imports = <<>> /\ registry = <<>>

Put(id, node) == tax' = [n \in DOMAIN tax \union {id} |-> IF n = id THEN node ELSE tax[n]]
OfType(t) == {n \in DOMAIN tax : tax[n].type = t}
Stubbed == OfType("file") \union OfType("file_stub")

------------------------------------------------------------------------------
(* Faults: wrong versions of definitions below, which the runs swap in.     *)

(* the importer is noted at both ends *)
OneWay(f, g) ==
  [tax EXCEPT ![f].depends_on = Append(@, g), ![g].depended_by = IF g \in Range(@) THEN @ ELSE Append(@, g)]
------------------------------------------------------------------------------
(* build_folder_taxonomy: get_depth_chain, get_ancestors_chain.  A parent   *)
(* is taken from a row, or from the number of a file, and is not looked up: *)
(* one that no table has begins the chain as a domain does.                 *)
Chain(id, parent) ==
  IF parent \in Subdomains /\ parent \in DOMAIN tax THEN Append(tax[parent].depth_chain, id)
  ELSE IF parent = {} THEN <<id>> ELSE <<parent, id>>
Folder(type, id, parent) ==
  [type |-> type, parent |-> parent, depth_chain |-> Chain(id, parent), ancestors_chain |-> Reverse(Chain(id, parent))]

AddDomains ==
  /\ pass = "folders" /\ pass' = "subdomains"
  /\ tax' = [d \in Domains |-> Folder("folder_domain", d, {})]
  /\ UNCHANGED <<under, imports, registry>>

AddSubdomains ==
  /\ pass = "subdomains" /\ pass' = "files"
  /\ \E parent \in [Subdomains -> Domains \union Unlisted] :
       /\ tax' = [n \in DOMAIN tax \union Subdomains |->
                     IF n \in Subdomains THEN Folder("folder_subdomain", n, parent[n]) ELSE tax[n]]
       /\ under' = under \union {<<parent[s], s>> : s \in Subdomains}
  /\ UNCHANGED <<imports, registry>>

File(type, id, parent, required) ==
  [type |-> type, parent |-> parent, depth_chain |-> Chain(id, parent), ancestors_chain |-> Reverse(Chain(id, parent)),
   required |-> SetToSeq(required), depends_on |-> <<>>, depended_by |-> <<>>]
AddFile ==
  /\ pass = "files"
  /\ \E f \in TaxFiles \ DOMAIN tax, parent \in Domains \union Subdomains \union Unlisted,
        required \in SUBSET Concerns :
       /\ \E type \in {"file", "file_stub"} : Put(f, File(type, f, parent, required))
       /\ under' = under \union {<<parent, f>>}
  /\ pass' = IF TaxFiles \subseteq DOMAIN tax' THEN "concerns" ELSE pass
  /\ UNCHANGED <<imports, registry>>

(* load_cross_cutting_concerns; a concern's evidence names parts of paths,  *)
(* which any of the files may have.                                         *)
(* Without the tables of gaps there are no concerns.                        *)
NoConcerns == pass = "concerns" /\ OfType("concern") = {} /\ pass' = "imports" /\ UNCHANGED <<tax, under, imports, registry>>

AddConcern ==
  /\ pass = "concerns"
  /\ \E c \in Concerns \ DOMAIN tax, severity \in Severities, files \in SUBSET TaxFiles :
       Put(c, [type |-> "concern", severity |-> severity, evidence |-> files])
  /\ pass' = IF Concerns \subseteq DOMAIN tax' THEN "imports" ELSE pass
  /\ UNCHANGED <<under, imports, registry>>

(* register_taxonomy_dependencies: an import of one file by another, once   *)
(* for each statement; stubs and files outside the taxonomy are passed by.  *)
(* A bound: imports are tried where there are no concerns, which share no   *)
(* state with them.                                                         *)
Depends(f, g) == [tax EXCEPT ![f].depends_on = Append(@, g), ![g].depended_by = Append(@, f)]

Register ==
  /\ pass = "imports" /\ Len(imports) < NImports /\ OfType("concern") = {}
  /\ \E f, g \in TaxFiles \union Outside :
       /\ imports' = Append(imports, <<f, g>>)
       /\ tax' = IF {f, g} \subseteq OfType("file") THEN Depends(f, g) ELSE tax
  /\ UNCHANGED <<pass, under, registry>>

(* register_concern_targets: link_concerns_to_structural, extract_target_   *)
(* path; build_dependency_registry.                                         *)
Targets(c) == {f \in Stubbed : c \in ToSet(tax[f].required)} \union (tax[c].evidence \intersect Stubbed)

LinkConcerns ==
  /\ pass = "imports" /\ pass' = "registry"
  /\ under' = under \union UNION {{c} \X Targets(c) : c \in OfType("concern")}
  /\ UNCHANGED <<tax, imports, registry>>

Relations(f) == [i \in DOMAIN tax[f].depends_on |-> <<f, tax[f].depends_on[i]>>]
BuildRegistry ==
  /\ pass = "registry" /\ pass' = "done"
  /\ LET order == SetToSeq(OfType("file"))
     IN registry' = registry \o FlattenSeq([i \in 1 .. Len(order) |-> Relations(order[i])])
  /\ UNCHANGED <<tax, under, imports>>

Next ==
  AddDomains \/ AddSubdomains \/ AddFile \/ AddConcern \/ NoConcerns \/ Register \/ LinkConcerns \/ BuildRegistry

------------------------------------------------------------------------------
(* What is asked of the taxonomy when it is built.                          *)

(* get_files_by_domain takes every root whose id begins with that of the    *)
(* domain, as 0.10 with 0.1: like is the set of such ids, any one that has  *)
(* the domain's own.  analyze_domain_dependencies gives what is at these    *)
(* positions of depends_on.                                                 *)
Like(d) == {like \in SUBSET (Domains \union Unlisted) : d \in like}
FilesOf(like) == {f \in Stubbed : Last(tax[f].ancestors_chain) \in like}
Internal(like, f) == {i \in DOMAIN tax[f].depends_on : tax[f].depends_on[i] \in FilesOf(like)}
External(like, f) == {i \in DOMAIN tax[f].depends_on : tax[f].depends_on[i] \notin FilesOf(like)}

(* calculate_priority, _derive_priority and create_implementation_tasks: a  *)
(* concern that is not in the taxonomy counts as low, an unknown severity   *)
(* no more than that; only the last replaces a severity by an equal one.    *)
Rank(severity) == CASE severity = "critical" -> 3 [] severity = "high" -> 2 [] severity = "medium" -> 1 [] OTHER -> 0
SeverityOf(c) == IF c \in DOMAIN tax THEN tax[c].severity ELSE "low"
Higher(c, best) == IF Rank(SeverityOf(c)) > Rank(best) THEN SeverityOf(c) ELSE best
AtLeast(c, best) == IF Rank(SeverityOf(c)) >= Rank(best) THEN SeverityOf(c) ELSE best
CalculatePriority(f) ==
  LET best[i \in 0 .. Len(tax[f].required)] == IF i = 0 THEN "low" ELSE Higher(tax[f].required[i], best[i - 1])
  IN best[Len(tax[f].required)]
TaskPriority(f) ==
  LET best[i \in 0 .. Len(tax[f].required)] == IF i = 0 THEN "low" ELSE AtLeast(tax[f].required[i], best[i - 1])
  IN best[Len(tax[f].required)]

Count(s, x) == Cardinality({i \in DOMAIN s : s[i] = x})

(* A file's chain leads down edges of the taxonomy to it, from a domain     *)
(* unless a parent on it is in no table; it is among the files of the       *)
(* domains whose id its root begins with, its own among them, and of no     *)
(* other; a file depends on another as often as that one is depended on by  *)
(* it, once for each import between the two, and as often in the registry;  *)
(* what a file of a domain imports is internal if it is one of them, too; a *)
(* concern's edges lead to the files that require it or that it names; and  *)
(* a task is as urgent as the most severe concern of its stub, however it   *)
(* is computed (build_folder_taxonomy, register_taxonomy_dependencies,      *)
(* register_concern_targets, build_dependency_registry,                     *)
(* create_implementation_tasks).                                            *)
TaxonomyWhole ==
  pass = "done" =>
    /\ \A f \in Stubbed :
         LET chain == tax[f].depth_chain IN
         /\ Head(chain) \in Domains \/ Head(chain) \notin DOMAIN tax
         /\ Last(chain) = f
         /\ \A i \in 1 .. Len(chain) - 1 : <<chain[i], chain[i + 1]>> \in under
         /\ \A g \in Stubbed :
              LET times == IF {f, g} \subseteq OfType("file") THEN Count(imports, <<f, g>>) ELSE 0 IN
              /\ Count(tax[f].depends_on, g) = times /\ Count(tax[g].depended_by, f) = times
              /\ Count(registry, <<f, g>>) = times
         /\ \A d \in Domains : \A like \in Like(d) :
              LET within == {i \in DOMAIN tax[f].depends_on : Head(tax[tax[f].depends_on[i]].depth_chain) \in like}
              IN /\ f \in FilesOf(like) <=> Head(chain) \in like
                 /\ Internal(like, f) = within /\ External(like, f) = DOMAIN tax[f].depends_on \ within
         /\ \A c \in ToSet(tax[f].required) :
              /\ c \in DOMAIN tax => <<c, f>> \in under
              /\ Rank(SeverityOf(c)) <= Rank(TaskPriority(f)) /\ Rank(TaskPriority(f)) = Rank(CalculatePriority(f))
    /\ \A c \in OfType("concern"), f \in Stubbed :
         <<c, f>> \in under => c \in ToSet(tax[f].required) \/ f \in tax[c].evidence
==============================================================================
