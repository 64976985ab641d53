------------------------------ MODULE RoadmapRows ------------------------------
(***************************************************************************)
(* The rows of the roadmap's tables (graph/parsers.py).  A field that has   *)
(* commas and no quotes arrives as several; a row that is too long is       *)
(* repaired and then read by the table's headers.  A word of a raw row is   *)
(* its position; a field is the sequence of the words joined in it, <<>>    *)
(* the empty field.                                                         *)
(***************************************************************************)
EXTENDS Naturals, Sequences, SequencesExt, FiniteSets

CONSTANTS
  Tables,      (* a table's kind and the number of its headers               *)
  MaxExtra,    (* the most fields a row has too many                         *)
  MaxWords     (* the most words that look like a severity, or an effort     *)

VARIABLES
  table,       (* the table the row is of                                    *)
  length,      (* len(raw_row)                                               *)
  severities, efforts,   (* the positions of such words                      *)
  fields,      (* the row after the repair, None before                      *)
  node         (* the node read from it, None before                         *)

rVars == <<table, length, severities, efforts, fields, node>>

None == <<"none">>
SmallSets(S) == {T \in SUBSET S : Cardinality(T) <= MaxWords}

Init ==
  /\ table \in Tables
  /\ length \in table.width - 1 .. table.width + MaxExtra
  /\ severities \in (IF table.kind = "gap" THEN {{}} ELSE SmallSets(4 .. length))
  /\ efforts \in (IF table.kind = "missing" THEN SmallSets(4 .. length) ELSE {{}})
  /\ severities \intersect efforts = {}
  /\ fields = None /\ node = None

Words(a, b) == [i \in 1 .. b - a + 1 |-> a + i - 1]          (* one field     *)
Alone(a, b) == [i \in 1 .. b - a + 1 |-> <<a + i - 1>>]      (* one each      *)
First(S) == CHOOSE n \in S : \A m \in S : n <= m
Latest(S) == CHOOSE n \in S : \A m \in S : m <= n

------------------------------------------------------------------------------
(* Faults: wrong versions of definitions below, which the runs swap in.     *)

(* the words behind the effort are not joined but cut to one *)
OneSolution(sev, eff) ==
  Alone(1, 3) \o <<Words(4, sev - 1), <<sev>>, Words(sev + 1, eff - 1), <<eff>>, Words(eff + 1, eff + 1)>>
------------------------------------------------------------------------------
(* _merge_tail: what is too many joins the last field.                      *)
MergeTail(width) ==
  IF length <= width THEN Alone(1, length) ELSE Alone(1, width - 1) \o <<Words(width, length)>>

(* _find_severity_idx, from a position on; _find_effort_in_list: the last.  *)
SeverityFrom(start) == {i \in severities : i >= start}
EffortAfter(sev) == {i \in efforts : i > sev}

(* _repair_buggy: what follows the severity is two fields.                  *)
RepairBuggy(width) ==
  LET sev == First(SeverityFrom(6))
      repaired == Alone(1, sev) \o
                  CASE length = sev -> <<<<>>, <<>>>>
                    [] length = sev + 1 -> <<<<length>>, <<>>>>
                    [] OTHER -> <<Words(sev + 1, length - 1), <<length>>>>
  IN IF SeverityFrom(6) = {} \/ Len(repaired) # width THEN MergeTail(width) ELSE repaired

(* _repair_missing: what precedes the severity is the description; behind   *)
(* it the dependencies, the effort and the solution.                        *)
ByEffort(sev, eff) ==
  Alone(1, 3) \o <<Words(4, sev - 1), <<sev>>, Words(sev + 1, eff - 1), <<eff>>, Words(eff + 1, length)>>
RepairMissing ==
  LET sev == First(SeverityFrom(4))
      left == length - sev
      start == Alone(1, 3) \o <<Words(4, sev - 1), <<sev>>>>
  IN IF SeverityFrom(4) = {} THEN MergeTail(8)
     ELSE IF left >= 3 /\ EffortAfter(sev) # {} THEN ByEffort(sev, Latest(EffortAfter(sev)))
     ELSE start \o CASE left >= 3 -> <<Words(sev + 1, length - 2), <<length - 1>>, <<length>>>>
                     [] left = 2 -> <<<<sev + 1>>, <<length>>, <<>>>>
                     [] left = 1 -> <<<<>>, <<length>>, <<>>>>
                     [] OTHER -> <<<<>>, <<>>, <<>>>>

RepairRow ==
  LET width == table.width IN
  IF length <= width THEN Alone(1, length)
  ELSE CASE table.kind = "buggy" -> RepairBuggy(width)
         [] table.kind = "missing" /\ width = 8 -> RepairMissing
         [] OTHER -> MergeTail(width)  (* a table of gaps, or not 8 fields    *)

Repair == fields = None /\ fields' = RepairRow /\ UNCHANGED <<table, length, severities, efforts, node>>

(* parse_csv_file: headers and fields are zipped, so that what a short row  *)
(* lacks is empty; the type and the rest follow the headers of the table.   *)
Column == [
  missing |-> [description |-> 4, severity |-> 5, dependencies |-> 6, effort |-> 7, solution |-> 8],
  buggy   |-> [description |-> 8, severity |-> 7, dependencies |-> 0, effort |-> 0, solution |-> 9],
  gap     |-> [description |-> 5, severity |-> 6, dependencies |-> 9, effort |-> 10, solution |-> 11]]

Parse ==
  /\ fields # None /\ node = None
  /\ node' = [h \in {"type"} \union DOMAIN Column[table.kind] |->
                IF h = "type" THEN "gap_" \o table.kind
                ELSE IF Column[table.kind][h] \in DOMAIN fields THEN fields[Column[table.kind][h]] ELSE <<>>]
  /\ UNCHANGED <<table, length, severities, efforts, fields>>

Next == Repair \/ Parse

------------------------------------------------------------------------------
(* A repaired row is as long as the table is wide and keeps every word, in  *)
(* order, each in one field; and in a table of missing components, commas   *)
(* in the description, the dependencies and the solution do not move the    *)
(* severity and the effort from their columns, if no other word looks like  *)
(* one (_repair_row, parse_csv_file).                                       *)
RowsKept ==
  fields # None =>
    /\ Len(fields) = IF length < table.width THEN length ELSE table.width
    /\ FlattenSeq(fields) = Words(1, length)
    /\ \A sev, eff \in 1 .. length :
         /\ node # None /\ table = [kind |-> "missing", width |-> 8] /\ length >= 8
         /\ severities = {sev} /\ efforts = {eff} /\ sev > 4 /\ eff > sev + 1 /\ eff < length
         => /\ node.description = Words(4, sev - 1) /\ node.severity = <<sev>>
            /\ node.effort = <<eff>> /\ node.solution = Words(eff + 1, length)
==============================================================================
