------------------------------ MODULE NativeRows ------------------------------
(***************************************************************************)
(* The cells of one worksheet in the native writer (Worksheet in           *)
(* model/worksheet.rs): grids that follow everything written so far are    *)
(* kept as dense segments of rows, every other cell in a sparse map that   *)
(* is laid over them, and the two are merged when the sheet is written.    *)
(* Also the plan by which scattered values are gathered into grids.        *)
(***************************************************************************)
EXTENDS Integers, Sequences, FiniteSets, SequencesExt, FiniteSetsExt, TLC

\* A coordinate is <<row, column>>; a cell has a value and the set of formats
\* that its style stands for.
Blank == <<>>
WriteCell(v, s) == [v |-> v, s |-> s]
Emittable(cell) == cell.v # Blank \/ cell.s # {}
Before(j, k) == j[1] < k[1] \/ (j[1] = k[1] /\ j[2] < k[2])
NoRows == [sparse |-> <<>>, dense |-> <<>>]

SetCell(rows, k, cell) == [rows EXCEPT !.sparse = (k :> cell) @@ @]

LastColumn(segment) == segment.first + Len(segment.cells) - 1
DenseCell(rows, k) ==
  {d.cells[k[2] - d.first + 1] :
     d \in {e \in ToSet(rows.dense) : e.row = k[1] /\ k[2] \in e.first..LastColumn(e)}}

\* A style is laid over the value that the cell has.
StyleCell(rows, k, s) ==
  LET held == IF k \in DOMAIN rows.sparse THEN {rows.sparse[k]} ELSE DenseCell(rows, k)
      v == IF held = {} THEN Blank ELSE (CHOOSE cell \in held : TRUE).v
  IN SetCell(rows, k, WriteCell(v, s))

DenseTail(rows) ==
  IF rows.dense = <<>> THEN {} ELSE {<<Last(rows.dense).row, LastColumn(Last(rows.dense))>>}
SparseTail(rows) ==
  {k \in DOMAIN rows.sparse : \A j \in DOMAIN rows.sparse : ~Before(k, j)}
\* Fault: only what is dense is compared.
CanAppendAfterDense(rows, k) == \A tail \in DenseTail(rows) : Before(tail, k)

CanAppendDenseAt(rows, k) ==
  \A tail \in DenseTail(rows) \cup SparseTail(rows) : Before(tail, k)

\* Segments out of order are refused.
AppendDenseRow(out, r, c, cells) ==
  IF \A tail \in DenseTail(out.rows) : Before(tail, <<r, c>>)
  THEN [out EXCEPT !.rows.dense = Append(@, [row |-> r, first |-> c, cells |-> cells])]
  ELSE [out EXCEPT !.ok = FALSE]

\* One decision for the grid: whether its first cell comes after all others.
\* Rows without anything to write are passed over, and so are empty cells, except
\* inside dense rows.
CommitGrid(out, k, grid) ==
  LET Shows(i) == \E j \in DOMAIN grid[i] : Emittable(grid[i][j])
      shown == SetToSortSeq({i \in DOMAIN grid : Shows(i)}, <)
      RowAt(i) == k[1] + i - 1
      useDense == shown # <<>> /\ CanAppendDenseAt(out.rows, <<RowAt(shown[1]), k[2]>>)
      Sparse(o, i) ==
        [o EXCEPT !.rows.sparse =
           [key \in {<<RowAt(i), k[2] + j - 1>> : j \in {h \in DOMAIN grid[i] : Emittable(grid[i][h])}}
              |-> grid[i][key[2] - k[2] + 1]] @@ @]
      CommitRow(o, i) ==
        IF ~o.ok THEN o
        ELSE IF useDense THEN AppendDenseRow(o, RowAt(i), k[2], grid[i])
        ELSE Sparse(o, i)
  IN FoldLeft(CommitRow, out, shown)

-----------------------------------------------------------------------------
\* The sheet data.  The segments of a row are walked from left to right; what is
\* sparse comes before the dense cell whose column it does not exceed, and in
\* its place at the same column.
MergedCells(sparse, segments) ==
  LET Columns(d) == [i \in DOMAIN d.cells |-> [c |-> d.first + i - 1, cell |-> d.cells[i]]]
      Visit(acc, x) ==
        LET due == SelectSeq(acc.left, LAMBDA y : y.c <= x.c)
        IN [left |-> SelectSeq(acc.left, LAMBDA y : y.c > x.c),
            out |-> acc.out \o due
                    \o IF due # <<>> /\ Last(due).c = x.c THEN <<>> ELSE <<x>>]
      end == FoldLeft(Visit, [left |-> sparse, out |-> <<>>],
                      FlattenSeq([i \in DOMAIN segments |-> Columns(segments[i])]))
  IN end.out \o end.left

RowCells(rows, r) ==
  LET columns == SetToSortSeq({k[2] : k \in {j \in DOMAIN rows.sparse : j[1] = r}}, <)
  IN MergedCells([i \in DOMAIN columns |-> [c |-> columns[i], cell |-> rows.sparse[<<r, columns[i]>>]]],
                 SelectSeq(rows.dense, LAMBDA d : d.row = r))

\* A row of which nothing is to be written is an element without cells.
SheetData(rows) ==
  LET numbers == SetToSortSeq({k[1] : k \in DOMAIN rows.sparse} \cup {d.row : d \in ToSet(rows.dense)}, <)
      Written(r) == SelectSeq(RowCells(rows, r), LAMBDA x : Emittable(x.cell))
  IN [i \in DOMAIN numbers |->
        [r |-> numbers[i], cells |-> [j \in DOMAIN Written(numbers[i]) |->
           [c |-> Written(numbers[i])[j].c, v |-> Written(numbers[i])[j].cell.v,
            s |-> Written(numbers[i])[j].cell.s]]]]

-----------------------------------------------------------------------------
\* The grids that stand for the values of a map from coordinates: the runs of
\* each row are stacked on those of the next row with the same columns.  A map
\* that is one rectangle is recognised first, with the same result.
RunStarts(values) ==
  {k \in DOMAIN values : <<k[1], k[2] - 1>> \notin DOMAIN values}
RunWidth(values, k) ==
  Max({n \in 1..Cardinality(DOMAIN values) : \A i \in 1..n : <<k[1], k[2] + i - 1>> \in DOMAIN values})
SameRun(values, j, k) ==
  j \in RunStarts(values) /\ RunWidth(values, j) = RunWidth(values, k)

ValueGrids(values) ==
  LET Down(k, n) == <<k[1] + n, k[2]>>
      heads == {k \in RunStarts(values) : ~SameRun(values, Down(k, -1), k)}
      Height(k) == Max({n \in 1..Cardinality(DOMAIN values) :
                          \A i \in 0..n - 1 : SameRun(values, Down(k, i), k)})
      Grid(k) == [i \in 1..Height(k) |->
                    [j \in 1..RunWidth(values, k) |-> values[<<k[1] + i - 1, k[2] + j - 1>>]]]
      ordered == SetToSortSeq(heads, Before)
  IN [i \in DOMAIN ordered |-> [at |-> ordered[i], grid |-> Grid(ordered[i])]]
=============================================================================
