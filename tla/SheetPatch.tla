------------------------------ MODULE SheetPatch ------------------------------
(***************************************************************************)
(* Writing cells into the XML of a worksheet: patch_worksheet of           *)
(* crates/wolfxl-edit/src/sheet_patcher.rs.                                *)
(*                                                                         *)
(* A sheet is its rows in the order of the file, the styles of its columns *)
(* and the rectangle that it says its cells lie in.  A row has the place   *)
(* that its cells name (at), the number of its own element (r, 0 where the *)
(* optional index is absent), perhaps a style of its own, perhaps the      *)
(* columns that it says its cells span, and its cells.  A patch of a cell  *)
(* has a value, a style or both.  What may be absent is a set with at most *)
(* one element.                                                            *)
(***************************************************************************)
EXTENDS Integers, FiniteSets, SequencesExt

Blank == ""
DefaultStyle == 0

\* row_patches: by row and column, a later patch of a cell replacing an earlier.
PlaceOf(p) == <<p.row, p.col>>
Patched(patches) == {PlaceOf(patches[i]) : i \in DOMAIN patches}
PatchOf(patches, place) ==
  patches[CHOOSE i \in DOMAIN patches :
            /\ PlaceOf(patches[i]) = place
            /\ \A j \in DOMAIN patches : PlaceOf(patches[j]) = place => j <= i]
Ascending(numbers) ==
  [i \in 1..Cardinality(numbers) |->
     CHOOSE n \in numbers : Cardinality({m \in numbers : m < n}) = i - 1]
ColsOf(patches, r) == {place[2] : place \in {x \in Patched(patches) : x[1] = r}}

The(set, default) == IF set = {} THEN default ELSE CHOOSE x \in set : TRUE
Lo(a, b) == IF a <= b THEN a ELSE b
Hi(a, b) == IF a <= b THEN b ELSE a

\* A cell that is there keeps its style, and its contents where a patch has
\* none; write_patched_cell writes no style for the default one.
PatchedCell(cell, p) ==
  [cell EXCEPT !.value = The(p.value, @), !.style = The(p.style, @)]

\* col_style: of the first columns that c is among.
Styling(colStyles, c) == {i \in DOMAIN colStyles : c \in colStyles[i].min..colStyles[i].max}
ColStyle(colStyles, c) ==
  IF Styling(colStyles, c) = {} THEN DefaultStyle ELSE colStyles[Min(Styling(colStyles, c))].style

\* Fault: the column's style comes before the row's.
ColumnThenRow(row, colStyles, c) ==
  IF Styling(colStyles, c) # {} THEN ColStyle(colStyles, c) ELSE The(row.style, DefaultStyle)

\* The style of a cell that is not there: its row's, or its column's.
Inherited(row, colStyles, c) ==
  The(row.style, ColStyle(colStyles, c))

NewCell(row, colStyles, patches, c) ==
  PatchedCell([col |-> c, value |-> Blank, style |-> Inherited(row, colStyles, c)],
              PatchOf(patches, <<row.r, c>>))

\* Cells that are missing are written behind those that are there.
WithNewCells(row, colStyles, patches) ==
  LET seen == {row.cells[i].col : i \in DOMAIN row.cells}
      cols == Ascending(ColsOf(patches, row.r) \ seen)
  IN [row EXCEPT !.cells = @ \o [i \in DOMAIN cols |-> NewCell(row, colStyles, patches, cols[i])]]

\* rewrite_row_spans: a row that says nothing gets the span of its patches.
MergedSpans(row, cols) ==
  LET own == Ascending(cols)
      s == The(row.spans, <<own[1], own[Len(own)]>>)
  IN IF cols = {} THEN row.spans
     ELSE {<<Lo(s[1], own[1]), Hi(s[2], own[Len(own)])>>}

\* The cells of row r, those with a patch patched.
PatchedCells(cells, r, patches) ==
  [i \in DOMAIN cells |->
     IF <<r, cells[i].col>> \in Patched(patches)
       THEN PatchedCell(cells[i], PatchOf(patches, <<r, cells[i].col>>))
       ELSE cells[i]]

RewrittenRow(row, colStyles, patches) ==
  WithNewCells([row EXCEPT !.spans = MergedSpans(row, ColsOf(patches, row.r)),
                           !.cells = PatchedCells(@, row.r, patches)],
               colStyles, patches)

NewRow(r, colStyles, patches) ==
  WithNewCells([r |-> r, at |-> r, style |-> {}, spans |-> {}, cells |-> <<>>], colStyles, patches)

\* rewrite_dimension.
MergedDimension(dim, patches) ==
  LET rows == Ascending({p[1] : p \in Patched(patches)})
      cols == Ascending({p[2] : p \in Patched(patches)})
  IN {[top |-> Lo(d.top, rows[1]), left |-> Lo(d.left, cols[1]),
       bottom |-> Hi(d.bottom, rows[Len(rows)]), right |-> Hi(d.right, cols[Len(cols)])] : d \in dim}

\* The general patcher: rows that are missing are written before the first row
\* with a higher number, and those that are left at the end.
NewRows(numbers, colStyles, patches) ==
  LET order == Ascending(numbers)
  IN [i \in DOMAIN order |-> NewRow(order[i], colStyles, patches)]
PatchNextRow(st, row, colStyles, patches) ==
  LET missing == {p[1] : p \in {x \in Patched(patches) : x[1] \notin st.seen /\ x[1] < row.r}}
  IN [out |-> Append(st.out \o NewRows(missing, colStyles, patches),
                     RewrittenRow(row, colStyles, patches)),
      seen |-> st.seen \cup missing \cup {row.r}]
PatchRows(sheet, patches) ==
  LET done == FoldLeft(LAMBDA st, row : PatchNextRow(st, row, sheet.colStyles, patches),
                       [out |-> <<>>, seen |-> {}], sheet.rows)
      missing == {p[1] : p \in Patched(patches)} \ done.seen
  IN [sheet EXCEPT !.dim = MergedDimension(@, patches),
                   !.rows = done.out \o NewRows(missing, sheet.colStyles, patches)]

\* Values of cells that are all there are put in their places, and every other
\* byte is copied.  Rows without an index are searched by their cells.
Splices(sheet, patches) ==
  /\ \A i \in DOMAIN patches : patches[i].value # {}
  /\ \A place \in Patched(patches) :
       \E i \in DOMAIN sheet.rows :
         /\ sheet.rows[i].at = place[1]
         /\ \E j \in DOMAIN sheet.rows[i].cells : sheet.rows[i].cells[j].col = place[2]
SplicedRow(row, patches) == [row EXCEPT !.cells = PatchedCells(@, row.at, patches)]
SpliceCells(sheet, patches) ==
  [sheet EXCEPT !.rows = [i \in DOMAIN @ |-> SplicedRow(@[i], patches)]]

PatchWorksheet(sheet, patches) ==
  IF patches = <<>> THEN sheet
  ELSE IF Splices(sheet, patches) THEN SpliceCells(sheet, patches)
  ELSE PatchRows(sheet, patches)
=============================================================================
