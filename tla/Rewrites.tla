------------------------------- MODULE Rewrites -------------------------------
(***************************************************************************)
(* The rewritings of worksheet parts, each applied to every small input:   *)
(* what one of them is given, and what the code makes of it.  They are     *)
(* pure functions, so that a behaviour is one call.                        *)
(***************************************************************************)
EXTENDS RangeMoves, SheetPatch, SheetCopy

CONSTANTS Plans,      \* the insertions and deletions
          Refs,       \* references of formulas and anchors
          ColSpans,   \* sequences of column spans
          Shapes,     \* the shapes of notes, counted from zero
          Tables,     \* tables of the sheet
          Moves,      \* the moves of a rectangle
          Grids,      \* the cells and row elements that are moved
          Sheets,     \* worksheets whose cells are patched
          Patches,    \* sequences of patches
          Packages    \* packages whose sheets are copied

VARIABLES given, result
vars == <<given, result>>

This == "this"    \* the sheet that is rewritten, and another one
Other == "other"
Cells == {c \in [Axes -> 1..High(MaxOf["row"], MaxOf["col"])] : Fits(c)}

\* A cell, a range with its ends in either order, and whole rows or columns; on the
\* pinned axes, the reference is written with a $ (row_abs and col_abs).
EndsOf(axis) == [{axis} -> 1..MaxOf[axis]]
Endpoints == Cells \cup EndsOf("row") \cup EndsOf("col")
References ==
  {ref \in [kind : {"cell", "range", "span"}, sheet : {NoSheet, This, Other},
            lhs : Endpoints, rhs : Endpoints, pinned : SUBSET Axes] :
     \/ ref.kind = "cell" /\ ref.lhs \in Cells /\ ref.rhs = ref.lhs
     \/ ref.kind = "range" /\ ref.lhs \in Cells /\ ref.rhs \in Cells
     \/ ref.kind = "span" /\ \E a \in Axes : ref.lhs \in EndsOf(a) /\ ref.rhs \in EndsOf(a)}

\* Spans of columns in order and apart.
Apart(spans) ==
  /\ \A i \in DOMAIN spans : spans[i].min <= spans[i].max
  /\ \A i \in DOMAIN spans \ {1} : spans[i - 1].max < spans[i].min

ASSUME PlansAssumption == Plans \subseteq [axis : Axes, idx : Nat \ {0}, n : Int \ {0}]
ASSUME RefsAssumption == Refs \subseteq References
ASSUME ColSpansAssumption ==
  \A spans \in ColSpans :
    /\ spans \in Seq(ToSet(spans)) /\ Apart(spans)
    /\ \A i \in DOMAIN spans : {spans[i].min, spans[i].max} \subseteq 1..MaxOf["col"]

\* A note belongs to a cell; its box, and a table, is not inside out.
ASSUME ShapesAssumption ==
  /\ Shapes \subseteq [of : [Axes -> Nat], from : [Axes -> Nat], to : [Axes -> Nat]]
  /\ \A s \in Shapes, a \in Axes : s.from[a] <= s.to[a] /\ OnSheet(s.of[a], a)
ASSUME TablesAssumption ==
  /\ Tables \subseteq [lhs : Cells, rhs : Cells, columns : Seq(Nat), header : BOOLEAN]
  /\ \A t \in Tables :
       /\ Len(t.columns) = High(t.lhs["col"], t.rhs["col"]) - Low(t.lhs["col"], t.rhs["col"]) + 1
       /\ \A i, j \in DOMAIN t.columns : i # j => t.columns[i] # t.columns[j]

\* A rectangle and where it goes are on the sheet (move_range checks); a place has
\* one cell, whose formula reads at most one cell of the sheet.
ASSUME MovesAssumption ==
  /\ Moves \subseteq [lo : Cells, hi : Cells, by : [Axes -> Int], translate : BOOLEAN]
  /\ \A plan \in Moves :
       /\ \A a \in Axes : plan.lo[a] <= plan.hi[a]
       /\ {Relocated(plan.lo, plan), Relocated(plan.hi, plan)} \subseteq Cells
ASSUME GridsAssumption ==
  \A grid \in Grids :
    /\ \A c \in grid.cells : c.at \in Cells /\ c = [at |-> c.at, label |-> c.label, refs |-> c.refs]
    /\ \A c, d \in grid.cells : c.at = d.at => c = d
    /\ \A c \in grid.cells :
         /\ \A r, q \in c.refs : r = q
         /\ \A r \in c.refs : r \in References /\ r.kind = "cell" /\ r.sheet = NoSheet

\* Rows are in order and no cell is there twice; cells lie in the rectangle of the
\* sheet and in the columns of their row, if those are given, and the columns with
\* a style are in order and apart.
RowShape(row) ==
  /\ {"r", "at", "style", "spans", "cells"} = DOMAIN row
  /\ row.at \in 1..MaxOf["row"] /\ row.r \in {0, row.at}
  /\ row.cells \in Seq(ToSet(row.cells))
  /\ \A i \in DOMAIN row.cells :
       /\ DOMAIN row.cells[i] = {"col", "value", "style"}
       /\ row.cells[i].col \in 1..MaxOf["col"]
       /\ \A j \in DOMAIN row.cells : row.cells[i].col = row.cells[j].col => i = j
  /\ \A s \in row.spans, t \in row.spans : s = t
  /\ \A s \in row.spans :
       /\ s \in Nat \X Nat
       /\ \A i \in DOMAIN row.cells : row.cells[i].col \in s[1]..s[2]
ASSUME SheetsAssumption ==
  \A sheet \in Sheets :
    /\ {"dim", "colStyles", "rows"} = DOMAIN sheet
    /\ sheet.colStyles \in Seq(ToSet(sheet.colStyles)) /\ Apart(sheet.colStyles)
    /\ \A i \in DOMAIN sheet.colStyles :
         {sheet.colStyles[i].min, sheet.colStyles[i].max} \subseteq 1..MaxOf["col"]
    /\ sheet.rows \in Seq(ToSet(sheet.rows))
    /\ \A i \in DOMAIN sheet.rows : RowShape(sheet.rows[i])
    /\ \A i \in DOMAIN sheet.rows \ {1} : sheet.rows[i - 1].at < sheet.rows[i].at
    /\ sheet.dim \subseteq [top : Nat, left : Nat, bottom : Nat, right : Nat]
    /\ \A d \in sheet.dim, row \in ToSet(sheet.rows) : \A i \in DOMAIN row.cells :
         row.at \in d.top..d.bottom /\ row.cells[i].col \in d.left..d.right
ASSUME PatchesAssumption ==
  \A patches \in Patches :
    /\ patches \in Seq(ToSet(patches))
    /\ \A i \in DOMAIN patches :
         patches[i].row \in 1..MaxOf["row"] /\ patches[i].col \in 1..MaxOf["col"]

Idle == given.what = "nothing"

\* shift_sheet_cells: a formula of a cell, a validation or a format.
ShiftAFormula ==
  /\ Idle
  /\ \E ref \in Refs, sheet \in {NoSheet, Other}, plan \in Plans :
       LET r == [ref EXCEPT !.sheet = sheet]
       IN /\ given' = [what |-> "formula", ref |-> r, plan |-> plan]
          /\ result' = ShiftFormula(r, plan)

\* shift_defined_names.
ShiftAName ==
  /\ Idle
  /\ \E ref \in Refs, sheet \in {This, Other}, scope \in {NoSheet, Other}, plan \in Plans :
       LET r == [ref EXCEPT !.sheet = sheet]
       IN /\ given' = [what |-> "name", ref |-> r, scope |-> scope, plan |-> plan]
          /\ result' = ShiftName([ref |-> r, scope |-> scope], plan, This)

\* rewrite_ref_attr: a merge, a hyperlink, a validation's or a format's range.
ShiftAnAnchor ==
  /\ Idle
  /\ \E ref \in Refs, plan \in Plans :
       /\ given' = [what |-> "anchor", ref |-> ref, plan |-> plan]
       /\ result' = ShiftAnchor(ref, plan)

\* A cell of the sheet data, in the row element that it is in.
ShiftACell ==
  /\ Idle
  /\ \E cell \in Cells, plan \in Plans :
       /\ given' = [what |-> "cell", cell |-> cell, plan |-> plan]
       /\ result' = [row |-> ShiftedRow(cell["row"], plan), cell |-> AnchorCell(cell, plan)]

\* shift_sheet_cols_block.
ShiftTheColumns ==
  /\ Idle
  /\ \E spans \in ColSpans, plan \in Plans :
       /\ given' = [what |-> "columns", spans |-> spans, plan |-> plan]
       /\ result' = SplitColSpans(spans, plan)

\* shift_comments_xml and shift_vml_xml: a note and its shape, the shape's box
\* also as the ends of a drawing (shift_drawing_xml).
ShiftANote ==
  /\ Idle
  /\ \E shape \in Shapes, plan \in Plans :
       LET a == plan.axis
       IN /\ given' = [what |-> "note", shape |-> shape, plan |-> plan]
          /\ result' = [note |-> AnchorCell([x \in Axes |-> shape.of[x] + 1], plan),
                        shape |-> ShiftedShape(shape, plan),
                        drawing |-> <<ShiftedMarker(shape.from[a], plan),
                                      ShiftedMarker(shape.to[a], plan)>>]

\* shift_table_xml and repair_deleted_table_header_row.
ShiftATable ==
  /\ Idle
  /\ \E table \in Tables, plan \in Plans :
       /\ given' = [what |-> "table", table |-> table, plan |-> plan]
       /\ result' = ShiftTable(table, plan)

\* apply_range_move, on the cells and, with every range, on an anchor.
MoveCells ==
  /\ Idle
  /\ \E grid \in Grids, plan \in Moves :
       /\ given' = [what |-> "move", grid |-> grid, plan |-> plan]
       /\ result' = RewriteSheetData(grid, plan)

MoveAnAnchor ==
  /\ Idle
  /\ \E ref \in Refs, plan \in Moves :
       /\ given' = [what |-> "moved_anchor", ref |-> ref, plan |-> plan]
       /\ result' = {MoveOneAnchor(ref, plan)}

\* patch_worksheet.
PatchASheet ==
  /\ Idle
  /\ \E sheet \in Sheets, patches \in Patches :
       /\ given' = [what |-> "patch", sheet |-> sheet, patches |-> patches]
       /\ result' = PatchWorksheet(sheet, patches)

\* The copies that are queued for one save.
CopySomeSheets ==
  /\ Idle
  /\ \E parts \in Packages, deep \in BOOLEAN :
       \E sheets \in UNION {[1..n -> {p \in DOMAIN parts : p[1] = "sheet"}] : n \in 1..2} :
         /\ given' = [what |-> "copy", parts |-> parts, sheets |-> sheets, deep |-> deep]
         /\ result' = CopySheets(parts, sheets, deep)

Init == given = [what |-> "nothing"] /\ result = {}
Next == \/ ShiftAFormula \/ ShiftAName \/ ShiftAnAnchor \/ ShiftACell
        \/ ShiftTheColumns \/ ShiftANote \/ ShiftATable
        \/ MoveCells \/ MoveAnAnchor \/ PatchASheet \/ CopySomeSheets
Spec == Init /\ [][Next]_vars

-----------------------------------------------------------------------------
Covers(ref, cell) ==
  \A a \in DOMAIN ref.lhs : cell[a] \in Low(ref.lhs[a], ref.rhs[a])..High(ref.lhs[a], ref.rhs[a])

\* A rewritten reference covers the cells that it covered, where they are now,
\* and no others; it is lost with the last of them, when any cell of the sheet is
\* left, or with an end of it that an insertion pushes off the sheet.
Follows(ref, plan, news) ==
  LET moves == UNION {{<<c, moved>> : moved \in ShiftedCell(c, plan)} : c \in Cells}
  IN IF news = {}
       THEN \/ /\ Inserts(plan)
               /\ High(ref.lhs[plan.axis], ref.rhs[plan.axis]) + plan.n > MaxOf[plan.axis]
            \/ \A m \in moves : ~Covers(ref, m[1])
       ELSE /\ moves # {} => \E m \in moves : Covers(ref, m[1])
            /\ \A new \in news, m \in moves : Covers(new, m[2]) <=> Covers(ref, m[1])

\* A deletion of some of the rows of a whole row reference, or of some of the
\* columns of a whole column reference.
PartOfSpan(ref, plan) ==
  /\ ref.kind = "span" /\ plan.axis \in DOMAIN ref.lhs /\ ~Inserts(plan)
  /\ \E i \in 1..MaxOf[plan.axis] : InBand(plan, i)
                                    /\ Covers(ref, [a \in Axes |-> i])

\* Formulas and names that refer to the sheet follow its cells through every
\* insertion and deletion.  A reference to the whole sheet, or to all its rows
\* or columns, stays as it is; one to whole rows or columns of which some are
\* deleted is left out (Shifts.TranslateSpan does not clip it).
RefsFollowCells ==
  /\ given.what \in {"formula", "name"}
  /\ given.ref.sheet # Other
  /\ given.what = "name" => given.scope # Other
  => IF Whole(given.ref.lhs, given.ref.rhs) THEN result = {given.ref}
     ELSE PartOfSpan(given.ref, given.plan) \/ Follows(given.ref, given.plan, result)

\* So do the ranges of merges, hyperlinks, validations and formats, which
\* another function rewrites, whole rows and columns included; a row element and
\* the cells in it, which are renumbered apart, agree on what is deleted and on
\* where the rest goes; and the spans of columns stay in order and apart, every
\* column that stays on the sheet keeping its width and style and inserted ones
\* having none.
AttrsAt(spans, c) == {spans[i].attrs : i \in {j \in DOMAIN spans : c \in spans[j].min..spans[j].max}}
AnchorsFollowCells ==
  /\ given.what = "anchor" => Follows(given.ref, given.plan, result)
  /\ given.what = "cell" =>
       /\ \A c \in result.cell : result.row = {c["row"]}
       /\ given.plan.axis = "row" /\ result.cell = {} => result.row = {}
  /\ given.what = "columns" /\ given.plan.axis = "col" =>
       /\ Apart(result)
       /\ \A c \in 1..MaxOf["col"] :
            LET from == {b \in 1..MaxOf["col"] :
                           \E x \in AnchorCell([a \in Axes |-> b], given.plan) : x["col"] = c}
            IN AttrsAt(result, c) = UNION {AttrsAt(given.spans, b) : b \in from}

\* A note that is deleted takes its shape with it, and a shape that is kept
\* belongs to its note's cell and has its corners in order; so has a drawing.
NoteFollows(note, shape, drawing) ==
  /\ \A s \in shape :
       /\ note = {[a \in Axes |-> s.of[a] + 1]}
       /\ \A a \in Axes : s.from[a] <= s.to[a]
  /\ drawing[1] <= drawing[2]

\* A table that is left has as many columns as its range is wide, under
\* different names, and those it keeps stay over their cells.
TableFollows(plan, table, new) ==
  LET lo == Low(new.lhs["col"], new.rhs["col"])
      oldLo == Low(table.lhs["col"], table.rhs["col"])
  IN /\ Len(new.columns) = High(new.lhs["col"], new.rhs["col"]) - lo + 1
     /\ \A i, j \in DOMAIN new.columns : i # j => new.columns[i] # new.columns[j]
     /\ plan.axis = "col" =>
          \A k \in DOMAIN table.columns :
            \A c \in AnchorCell([a \in Axes |-> oldLo + k - 1], plan) :
              new.columns[c["col"] - lo + 1] = table.columns[k]

\* The parts beside the sheet stay in step with it.
PartsFollowTheSheet ==
  /\ given.what = "note" => NoteFollows(result.note, result.shape, result.drawing)
  /\ given.what = "table" => \A new \in result : TableFollows(given.plan, given.table, new)

\* After a move, cells are at one place each, those of the rectangle where it
\* is now and the others where they were, unless they are overwritten; and a
\* formula that was moved, or translated, reads the cell that it read before.
\* That is what the code does with and without $; its documentation has it
\* otherwise with $ (MarkedRefsStay).
Inside(plan, c) == ContainsCell(plan, c.at)
NowAt(plan, cell) == IF ContainsCell(plan, cell) THEN Relocated(cell, plan) ELSE cell
Overwritten(plan, old, c) ==
  /\ ~Inside(plan, c)
  /\ \E m \in old : Inside(plan, m) /\ Relocated(m.at, plan) = c.at
Labels(cells, at) == {c.label : c \in {x \in cells : x.at = at}}
CellsAreCarried(plan, old, new) ==
  LET left == {c \in old : ~Overwritten(plan, old, c)}
  IN /\ {<<c.at, c.label>> : c \in new} = {<<NowAt(plan, c.at), c.label>> : c \in left}
     /\ \A c \in left, target \in left :
          (Inside(plan, c) \/ plan.translate) /\ (\E r \in c.refs : r.lhs = target.at)
          => \E d \in new : /\ d.at = NowAt(plan, c.at)
                            /\ \A r \in d.refs : Labels(new, r.lhs) = {target.label}
                            /\ d.refs # {}

\* A merge, hyperlink, validation or format that lies in the rectangle goes
\* with its cells; one that does not stays, whole, and so do whole rows and
\* columns.
AnchorIsCarried(plan, ref, new) ==
  LET inside == /\ ref.kind # "span"
                /\ \A c \in Cells : Covers(ref, c) => ContainsCell(plan, c)
  IN \A c \in Cells : Covers(ref, c) <=> Covers(new, IF inside THEN Relocated(c, plan) ELSE c)

\* A move carries cells, formulas and anchors together.
MovesCarryTheirCells ==
  /\ given.what = "move" => CellsAreCarried(given.plan, given.grid.cells, result.cells)
  /\ given.what = "moved_anchor" =>
       \A new \in result : AnchorIsCarried(given.plan, given.ref, new)

\* A patch replaces the contents and styles that it gives, of a cell that is
\* there or not, and leaves those of all other cells, which may come from their
\* rows and columns.  Rows stay in order, no cell is there twice, and cells lie
\* in the rectangle and in the spans that the sheet and its rows announce.  Left
\* out are rows without an index, unless all cells are there, and the span of a
\* row that had none: it is made of the patches alone (SheetPatch.MergedSpans).
RowsAt(sheet, r) == {i \in DOMAIN sheet.rows : sheet.rows[i].at = r}
CellsAt(sheet, place) ==
  UNION {{<<i, j>> : j \in {k \in DOMAIN sheet.rows[i].cells :
                              sheet.rows[i].cells[k].col = place[2]}} : i \in RowsAt(sheet, place[1])}
StylesAt(colStyles, c) ==
  {s.style : s \in {x \in ToSet(colStyles) : c \in x.min..x.max}}
CellAt(sheet, place) ==
  LET row == The({sheet.rows[i] : i \in RowsAt(sheet, place[1])}, [style |-> {}])
      there == {sheet.rows[x[1]].cells[x[2]] : x \in CellsAt(sheet, place)}
  IN The(there, [col |-> place[2], value |-> Blank,
                 style |-> The(row.style, The(StylesAt(sheet.colStyles, place[2]), DefaultStyle))])
PlaceIsPatched(sheet, patches, new, place) ==
  LET old == CellAt(sheet, place)
      p == PatchOf(patches, place)
  IN /\ Cardinality(CellsAt(new, place)) <= 1
     /\ CellAt(new, place) =
          IF place \notin Patched(patches) THEN old
          ELSE [old EXCEPT !.value = IF p.value = {} THEN @ ELSE CHOOSE v \in p.value : TRUE,
                           !.style = IF p.style = {} THEN @ ELSE CHOOSE x \in p.style : TRUE]
     /\ CellsAt(new, place) # {} =>
          /\ \A d \in new.dim : place[1] \in d.top..d.bottom /\ place[2] \in d.left..d.right
          /\ \A i \in DOMAIN new.rows : new.rows[i].at = place[1] =>
               \A spans \in new.rows[i].spans :
                 \/ place[2] \in spans[1]..spans[2]
                 \/ \E row \in ToSet(sheet.rows) : row.at = place[1] /\ row.spans = {}
SheetIsPatched(sheet, patches, new) ==
  Splices(sheet, patches) \/ (\A i \in DOMAIN sheet.rows : sheet.rows[i].r # 0) =>
    /\ \A i \in DOMAIN new.rows \ {1} : new.rows[i - 1].at < new.rows[i].at
    /\ \A place \in (1..MaxOf["row"]) \X (1..MaxOf["col"]) :
         PlaceIsPatched(sheet, patches, new, place)
PatchKeepsTheSheet ==
  given.what = "patch" => SheetIsPatched(given.sheet, given.patches, result)

\* What a reader makes of a part: its XML, with what its ids stand for, and the
\* parts that it brings along.
Look(parts) ==
  LET Of(p, look) == IF p \in DOMAIN parts THEN look[p] ELSE <<"outside", {<<p>>}>>
      At(p, id, look) == LET rels == {r \in ToSet(parts[p].rels) : r.id = id}
                         IN The({Of(r.to, look) : r \in rels}, <<"nothing", {}>>)
      look[depth \in 0..5] ==
        IF depth = 0 THEN [p \in DOMAIN parts |-> <<"too deep", {}>>]
        ELSE [p \in DOMAIN parts |->
                <<parts[p].label, {<<u.slot, At(p, u.id, look[depth - 1])>> : u \in parts[p].uses},
                  {<<r.type, Of(r.to, look[depth - 1])>> : r \in ToSet(parts[p].rels)}>>]
  IN look[5]

\* Copying leaves every part as it was, and a copy shows what its sheet shows.
\* No part belongs to two sheets but those of pictures, unless they are to be
\* copied, and of pivot caches; no two tables have one name, nor one id if the
\* ids were the numbers of the parts: a new id is its part's number.  Left out are
\* the packages in which relationships of a drawing are not numbered in order, or
\* a vml drawing has some: the copy refers to other pictures, or to nothing
\* (SheetCopy.CloneDrawing, SheetTarget).
InOrder(parts) ==
  \A p \in DOMAIN parts :
    /\ p[1] = "drawing" => \A i \in DOMAIN parts[p].rels : parts[p].rels[i].id = i
    /\ p[1] = "vml" => parts[p].rels = <<>>
CopiesLookAlike ==
  given.what = "copy" =>
    LET old == given.parts
        new == result.st.parts
        sheets == {p \in DOMAIN new : p[1] = "sheet"}
        shared == {"cache"} \cup IF given.deep THEN {} ELSE {"image"}
        tables == {p \in DOMAIN new : p[1] = "table"}
    IN /\ \A p \in DOMAIN old : new[p] = old[p]
       /\ InOrder(old) => \A i \in DOMAIN given.sheets :
            /\ result.copies[i] \notin DOMAIN old
            /\ Look(new)[result.copies[i]] = Look(old)[given.sheets[i]]
       /\ \A a, b \in sheets : a # b =>
            \A p \in Subgraph(new, a) \cap Subgraph(new, b) : p[1] \in shared
       /\ \A a, b \in tables : a # b =>
            /\ new[a].name # new[b].name
            /\ (\A p \in DOMAIN old : p[1] = "table" => old[p].tableId = p[2]) =>
                 new[a].tableId # new[b].tableId

\* What shift_workbook.rs says: "Workbook-scope names (no `localSheetId` attr)
\* shift only refs that target `op_sheet`."
OtherSheetsKeepTheirNames ==
  given.what = "name" /\ given.scope = NoSheet /\ given.ref.sheet = Other => result = {given.ref}

\* What range_move.rs says of a formula in the rectangle: "`$`-marked refs do NOT
\* shift."
MarkedRefsStay ==
  given.what = "move" =>
    \A c \in given.grid.cells : ContainsCell(given.plan, c.at) =>
      \E d \in result.cells :
        /\ d.at = Relocated(c.at, given.plan)
        /\ \A r \in c.refs : \E q \in d.refs : \A a \in r.pinned : q.lhs[a] = r.lhs[a]
=============================================================================
