------------------------------ MODULE SheetCopy ------------------------------
(***************************************************************************)
(* Copying a worksheet within a package: plan_sheet_copy of                *)
(* crates/wolfxl-structural/src/sheet_copy.rs, the part numbers and the    *)
(* walk of the relationships of crates/wolfxl-rels, and what the save      *)
(* phase of src/wolfxl/patcher_sheet_copy.rs does with a plan.             *)
(*                                                                         *)
(* A package is a function from parts to their contents; a part is named   *)
(* by its kind and its number.  Its contents are a label that stands for   *)
(* its XML, what the XML refers to by relationship ids, and its            *)
(* relationships in the order of their file; a table also has an id and a  *)
(* name.  Ids are the numbers behind "rId".  Slicers, timelines, control   *)
(* shapes and the workbook's own entries are left out.                     *)
(***************************************************************************)
EXTENDS Integers, FiniteSets, SequencesExt, TLC

Kinds == {"sheet", "table", "comments", "vml", "ctrl", "drawing", "chart", "style",
          "colors", "image", "pivot", "cache"}

\* from_zip_parts: the next number of each kind is above all that are there.
Numbers(parts, kind) == {p[2] : p \in {x \in DOMAIN parts : x[1] = kind}}
Seeded(parts) ==
  [kind \in Kinds |-> 1 + (CHOOSE n \in Numbers(parts, kind) \cup {0} :
                             \A m \in Numbers(parts, kind) : m <= n)]

\* walk_sheet_subgraph_with_nested: what can be reached inside the package.
Subgraph(parts, sheet) ==
  LET Step(seen) == seen \cup {r.to : r \in {x \in UNION {ToSet(parts[p].rels) : p \in seen} :
                                               x.to \in DOMAIN parts}}
      seen[i \in 0..Cardinality(DOMAIN parts)] == IF i = 0 THEN {sheet} ELSE Step(seen[i - 1])
  IN seen[Cardinality(DOMAIN parts)]

\* What a save works on: the package with the parts that it adds, the next part
\* numbers and the names that tables have; source is what a plan may read.
SaveOf(parts) ==
  [parts |-> parts, next |-> Seeded(parts), source |-> parts,
   names |-> {parts[p].name : p \in {x \in DOMAIN parts : x[1] = "table"}}]

\* Each clone is of a kind and takes the next number of that kind.
Clone(st, kind, part) ==
  LET new == <<kind, st.next[kind]>>
  IN [st |-> [st EXCEPT !.parts = (new :> part) @@ @, !.next[kind] = @ + 1], to |-> new]
Alias(st, rel) == [st |-> st, to |-> rel.to]

\* The relationships of a part, one after the other, to clones or as they are.
Through(st, rels, Target(_, _)) ==
  FoldLeft(LAMBDA done, rel : LET new == Target(done.st, rel)
                              IN [st |-> new.st, to |-> Append(done.to, new.to)],
           [st |-> st, to |-> <<>>], rels)

\* They keep their ids, or are added to an empty graph, which counts from one.
Retargeted(rels, to) == [i \in DOMAIN rels |-> [rels[i] EXCEPT !.to = to[i]]]
Renumbered(rels, to) == [i \in DOMAIN rels |-> [rels[i] EXCEPT !.to = to[i], !.id = i]]
NewId(rels, id) == CHOOSE i \in DOMAIN rels : rels[i].id = id

\* Fault: the style and colour parts of a chart are shared.
CloneChartSharing(st, rel) == Clone(st, "chart", st.source[rel.to])

\* A chart keeps its ids; its style and colour parts are cloned with it.
CloneChart(st, rel) ==
  LET src == st.source[rel.to]
      Sidecar(now, r) == IF r.type \in {"style", "colors"} THEN Clone(now, r.type, st.source[r.to])
                         ELSE Alias(now, r)
      done == Through(st, src.rels, Sidecar)
  IN Clone(done.st, "chart", [src EXCEPT !.rels = Retargeted(@, done.to)])

\* A drawing's relationships are renumbered; its references to charts follow,
\* those to pictures do not.
CloneDrawing(st, rel, deep) ==
  LET src == st.source[rel.to]
      Nested(now, r) ==
        IF r.type = "image" /\ deep THEN Clone(now, "image", st.source[r.to])
        ELSE IF r.type = "chart" THEN CloneChart(now, r)
        ELSE Alias(now, r)
      done == Through(st, src.rels, Nested)
  IN Clone(done.st, "drawing",
           [src EXCEPT !.rels = Renumbered(@, done.to),
                       !.uses = {[u EXCEPT !.id = IF u.type = "chart" THEN NewId(src.rels, @) ELSE @] :
                                   u \in @}])

\* A table's name gets the first free suffix, and its id is its part's number;
\* relationships of its own are not cloned.
FreeName(name, taken) ==
  Append(name, CHOOSE k \in 2..(Cardinality(taken) + 2) :
                 /\ Append(name, k) \notin taken
                 /\ \A j \in 2..(k - 1) : Append(name, j) \in taken)
CloneTable(st, rel) ==
  LET src == st.source[rel.to]
      name == FreeName(src.name, st.names)
  IN Clone([st EXCEPT !.names = @ \cup {name}], "table",
           [src EXCEPT !.name = name, !.tableId = st.next["table"], !.rels = <<>>])

SheetTarget(st, rel, deep) ==
  CASE rel.type = "table" -> CloneTable(st, rel)
    [] rel.type \in {"comments", "vml", "ctrl"} ->
         Clone(st, rel.type, [st.source[rel.to] EXCEPT !.rels = <<>>])
    [] rel.type = "drawing" -> CloneDrawing(st, rel, deep)
    [] rel.type = "chart" -> CloneChart(st, rel)
    [] rel.type = "pivot" -> Clone(st, "pivot", st.source[rel.to])
    [] OTHER -> Alias(st, rel)

\* plan_sheet_copy, and its additions to the save.
CopySheet(st, sheet, deep) ==
  LET reach == Subgraph(st.parts, sheet)
      src == st.parts[sheet]
      Target(now, rel) == SheetTarget(now, rel, deep)
      done == Through([st EXCEPT !.source = [p \in reach |-> st.parts[p]]], src.rels, Target)
  IN Clone(done.st, "sheet",
           [src EXCEPT !.rels = Renumbered(@, done.to),
                       !.uses = {[u EXCEPT !.id = NewId(src.rels, @)] : u \in @}])

\* apply_sheet_copies_phase: the queued copies of one save share its numbers.
CopySheets(parts, sheets, deep) ==
  FoldLeft(LAMBDA done, sheet : LET new == CopySheet(done.st, sheet, deep)
                                IN [st |-> new.st, copies |-> Append(done.copies, new.to)],
           [st |-> SaveOf(parts), copies |-> <<>>], sheets)
=============================================================================
