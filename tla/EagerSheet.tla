------------------------------ MODULE EagerSheet ------------------------------
(***************************************************************************)
(* A worksheet of a workbook that is written as a whole (mode "write") or  *)
(* of one that was loaded to be modified ("modify").  Python holds what    *)
(* was asked for in five places: cells with a map of their plain values,   *)
(* the coordinates that are dirty, those whose format is, appended rows,   *)
(* and grids of write_rows.  A save hands them to the native writer, or to *)
(* the patcher as values and formats by coordinate, and empties them.      *)
(***************************************************************************)
EXTENDS NativeRows

CONSTANTS Modes,      \* how the workbook was opened
          Coords,     \* cells that are called by their coordinate
          Areas,      \* sets of cells that are filled at first
          ValueRows,  \* kinds of values of appended rows
          QueuedGrids, \* and of grids, with their first coordinate
          ShiftRows,  \* rows that are inserted or deleted
          BaseCells,  \* the cells of the loaded file
          MaxMade     \* calls between two saves, and their number in all

VARIABLES
  mode,
  ws,         \* the worksheet in Python
  native,     \* Worksheet of the native writer
  patches,    \* value_patches and format_patches of the patcher
  base,       \* the cells of the file that the patcher and the reader have
  book,       \* what the last save that returned wrote, or NoBook
  want,       \* the cells as the calls gave them
  unsure,     \* the coordinates of which the calls leave it open
  made        \* the number of calls
eagerVars == <<mode, ws, native, patches, base, book, want, unsure, made>>

NoBook == [saved |-> FALSE, refused |-> FALSE, at |-> 0, rows |-> <<>>]
NewSheet == [cells |-> <<>>, values |-> <<>>, dirty |-> {}, formats |-> {},
             buffer |-> <<>>, start |-> 1, next |-> 1, bulk |-> <<>>, fast |-> TRUE]

\* A value is of a kind, and tells the call that gave it: "p" for plain values,
\* "d" for dates, "z" for dates with a time zone, which no payload stands for;
\* Unset is the text that a value never set is written as.
Unset == <<"unset">>
Plain(v) == v = Blank \/ v[1] = "p"
Payable(v) == v = Blank \/ v[1] # "z"
At(r, c, i, j) == <<r + i - 1, c + j - 1>>
HighestRow(S) == Max({0} \cup S)
Drop(f, k) == [j \in DOMAIN f \ {k} |-> f[j]]
WantOf(w, k) == IF k \in DOMAIN w THEN w[k] ELSE WriteCell(Blank, {})

-----------------------------------------------------------------------------
\* Cell.value, on a worksheet whose appended rows are cells already.  A date
\* brings its number format unless there is one.
Reached(w, k) == [w EXCEPT !.next = Max({@, k[1] + 1})]

GetOrCreate(w, k) ==
  IF k \in DOMAIN w.cells THEN w
  ELSE [w EXCEPT !.cells = (k :> [v |-> Unset, vd |-> FALSE, s |-> {}, fd |-> FALSE]) @@ @]

SetPlain(w, k, v) ==
  Reached([w EXCEPT !.cells[k].v = v, !.cells[k].vd = TRUE,
                    !.dirty = @ \cup {k}, !.values = (k :> v) @@ @], k)
SetDate(w, k, v) ==
  LET dated == "date" \in w.cells[k].s
  IN Reached([w EXCEPT !.cells[k] = [v |-> v, vd |-> TRUE, s |-> @.s \cup {"date"},
                                     fd |-> @.fd \/ ~dated],
                       !.formats = IF dated THEN @ ELSE @ \cup {k},
                       !.values = Drop(@, k), !.dirty = @ \cup {k}], k)
SetValue(w, k, v) ==
  LET c == GetOrCreate(w, k) IN IF Plain(v) THEN SetPlain(c, k, v) ELSE SetDate(c, k, v)

\* Cell.font and the like.
SetFont(w, k) ==
  LET c == GetOrCreate(w, k)
  IN [c EXCEPT !.cells[k].s = @ \cup {"font"}, !.cells[k].fd = TRUE, !.formats = @ \cup {k},
               !.dirty = IF mode = "write" /\ k \in DOMAIN w.values THEN @ ELSE @ \cup {k}]

\* Appended rows and queued grids that become cells; the buffer is emptied first.
GridCells(grid) == {<<i, j>> : i \in DOMAIN grid, j \in 1..Max({0} \cup {Len(grid[h]) : h \in DOMAIN grid})}
InGrid(grid) == SetToSortSeq({x \in GridCells(grid) : x[2] \in DOMAIN grid[x[1]]}, Before)

MaterializeAppend(w) ==
  LET SetOne(acc, x) ==
        LET k == At(w.start, 1, x[1], x[2])
            v == w.buffer[x[1]][x[2]]
        IN IF v = Blank THEN GetOrCreate(acc, k) ELSE SetValue(acc, k, v)
  IN FoldLeft(SetOne, [w EXCEPT !.buffer = <<>>], InGrid(w.buffer))

MaterializeBulk(w) ==
  LET SetOne(b, acc, x) ==
        LET k == At(b.at[1], b.at[2], x[1], x[2])
            v == b.grid[x[1]][x[2]]
            set == SetValue(acc, k, v)
        IN IF v = Blank THEN acc ELSE IF b.styled THEN SetFont(set, k) ELSE set
      SetAll(acc, b) == FoldLeft(LAMBDA a, x : SetOne(b, a, x), acc, InGrid(b.grid))
  IN FoldLeft(SetAll, [w EXCEPT !.bulk = <<>>], w.bulk)

\* ws.cell(): a plain value for a new cell is recorded without a trace in dirty,
\* as long as no rows were appended or queued.
CellFast(w, k, v) ==
  Reached([w EXCEPT !.cells = (k :> [v |-> v, vd |-> TRUE, s |-> {}, fd |-> FALSE]) @@ @,
                    !.values = (k :> v) @@ @], k)
CellCall(w, k, v) ==
  IF w.fast /\ Plain(v) /\ v # Blank /\ k \notin DOMAIN w.cells THEN CellFast(w, k, v)
  ELSE LET m == GetOrCreate(MaterializeAppend(w), k)
       IN IF v = Blank THEN m ELSE SetValue(m, k, v)

-----------------------------------------------------------------------------
\* The highest row of what is not saved yet, and of the sheet.
PendingMaxRow(w) ==
  HighestRow({k[1] : k \in DOMAIN w.values \cup w.dirty}
           \cup {w.start + i - 1 : i \in DOMAIN w.buffer}
           \cup UNION {{b.at[1] + i - 1 : i \in DOMAIN b.grid} : b \in ToSet(w.bulk)})
BoundsMaxRow(w) == Max({PendingMaxRow(w)} \cup {k[1] : k \in DOMAIN base})

AppendStart(w) ==
  IF mode = "modify" THEN Max({w.next, BoundsMaxRow(w) + 1}) ELSE w.next
AppendRowTo(w, row) ==
  LET first == IF w.buffer = <<>> THEN AppendStart(w) ELSE w.start
      at == IF w.buffer = <<>> THEN first ELSE w.next
  IN [w EXCEPT !.fast = FALSE, !.start = first, !.buffer = Append(@, row), !.next = at + 1]

\* collect_pending_overlay: what cell_records show of the edits.
GridValues(at, grid) ==
  [k \in {At(at[1], at[2], x[1], x[2]) : x \in ToSet(InGrid(grid))}
     |-> grid[k[1] - at[1] + 1][k[2] - at[2] + 1]]
DirtyOverlay(w) ==
  [k \in {j \in w.dirty : j \in DOMAIN w.cells} |->
     IF w.cells[k].v # Unset THEN w.cells[k].v ELSE WantOf(base, k).v]
\* Fault: the map of plain values goes over the dirty cells, without their dates.
OverlayOfValues(w) ==
  FoldLeft(LAMBDA acc, b : GridValues(b.at, b.grid) @@ acc,
           GridValues(<<w.start, 1>>, w.buffer) @@ w.values, w.bulk)

PendingOverlay(w) ==
  FoldLeft(LAMBDA acc, b : GridValues(b.at, b.grid) @@ acc,
           GridValues(<<w.start, 1>>, w.buffer) @@ DirtyOverlay(w) @@ w.values, w.bulk)

-----------------------------------------------------------------------------
\* The flush to the native writer.  What a grid cannot carry is taken out of it
\* and written cell by cell; the first value without a payload ends the save.
Batchable(grid) == [i \in DOMAIN grid |-> [j \in DOMAIN grid[i] |->
                      IF Plain(grid[i][j]) THEN grid[i][j] ELSE Blank]]
Individuals(at, grid) ==
  LET left == SelectSeq(InGrid(grid), LAMBDA x : ~Plain(grid[x[1]][x[2]]))
  IN [i \in DOMAIN left |-> [k |-> At(at[1], at[2], left[i][1], left[i][2]),
                             v |-> grid[left[i][1]][left[i][2]]]]
CellsOfGrid(grid, s) == [i \in DOMAIN grid |-> [j \in DOMAIN grid[i] |-> WriteCell(grid[i][j], s)]]

WriteIndividual(out, x) ==
  IF ~out.ok THEN out
  ELSE IF ~Payable(x.v) THEN [out EXCEPT !.ok = FALSE]
  ELSE [out EXCEPT !.rows = SetCell(@, x.k, WriteCell(x.v, IF x.v[1] = "d" THEN {"date"} ELSE {}))]
WriteGrid(out, at, grid, s) == CommitGrid(out, at, CellsOfGrid(grid, s))
WriteStyles(out, keys, s) ==
  IF out.ok THEN [out EXCEPT !.rows = FoldSet(LAMBDA k, acc : StyleCell(acc, k, s), @, keys)] ELSE out

FlushAppendBuffer(w) ==
  LET at == <<w.start, 1>>
      out == FoldLeft(WriteIndividual,
                      WriteGrid([ok |-> TRUE, rows |-> native], at, Batchable(w.buffer), {}),
                      Individuals(at, w.buffer))
  IN [out |-> out, ws |-> [w EXCEPT !.buffer = IF out.ok THEN <<>> ELSE Batchable(@)]]

\* One grid of write_rows, with styles or without.
FlushGrid(out, b) ==
  LET individual == Individuals(b.at, b.grid)
      written == FoldLeft(WriteIndividual, WriteGrid(out, b.at, Batchable(b.grid), {}), individual)
  IN IF b.styled /\ individual = <<>> THEN WriteGrid(out, b.at, b.grid, {"font"})
     ELSE IF b.styled THEN WriteStyles(written, DOMAIN GridValues(b.at, b.grid), {"font"})
     ELSE written

FlushBulkWrites(flush) ==
  LET FlushOne(acc, i) ==
        IF ~acc.out.ok THEN acc
        ELSE [out |-> FlushGrid(acc.out, acc.ws.bulk[i]),
              ws |-> [acc.ws EXCEPT !.bulk[i].grid = Batchable(@)]]
      done == FoldLeft(FlushOne, flush, [i \in 1..Len(flush.ws.bulk) |-> i])
  IN IF done.out.ok THEN [done EXCEPT !.ws.bulk = <<>>] ELSE done

\* The dirty values: plain ones in grids, the others cell by cell in any order.
DirtyPlain(w) ==
  w.values @@ [k \in {j \in w.dirty \cap DOMAIN w.cells : w.cells[j].vd /\ Plain(w.cells[j].v)}
                 |-> w.cells[k].v]
DirtyOthers(w) ==
  {k \in w.dirty : /\ k \in DOMAIN w.cells /\ k \notin DOMAIN w.values
                   /\ w.cells[k].vd /\ ~Plain(w.cells[k].v)}

WriteDirty(out, w) ==
  LET grids == IF DOMAIN DirtyPlain(w) = {} THEN <<>> ELSE ValueGrids(DirtyPlain(w))
  IN FoldLeft(LAMBDA o, g : IF o.ok THEN WriteGrid(o, g.at, g.grid, {}) ELSE o, out, grids)

\* The ways in which the flush can end: a value without payload stops it after
\* any of the others.
FlushDirty(flush) ==
  LET w == flush.ws
      start == WriteDirty(flush.out, w)
      others == DirtyOthers(w)
      payable == {k \in others : Payable(w.cells[k].v)}
      Put(keys) == FoldSet(LAMBDA k, o : WriteIndividual(o, [k |-> k, v |-> w.cells[k].v]), start, keys)
      Styled(o) ==
        FoldSet(LAMBDA k, acc : WriteStyles(acc, {k}, w.cells[k].s), o,
                {k \in w.formats : k \in DOMAIN w.cells /\ w.cells[k].s # {}})
  IN IF ~flush.out.ok THEN {flush}
     ELSE IF others = payable THEN {[out |-> Styled(Put(others)), ws |-> w]}
     ELSE {[out |-> [Put(done) EXCEPT !.ok = FALSE], ws |-> w] : done \in SUBSET payable}

Cleared(w) == [w EXCEPT !.dirty = {}, !.values = <<>>, !.formats = {}]

-----------------------------------------------------------------------------
\* The calls, with what they leave open: `unsure` has the cells that are not saved
\* as the last call gave them.  Cells and queued grids are saved in another order
\* than they were called in; an empty value erases neither what is queued in a
\* grid nor what was saved; a new value loses the format that was saved.
Everywhere == (1..6) \X (1..3)
Held(k) == IF k \in DOMAIN native.sparse THEN {native.sparse[k]} ELSE DenseCell(native, k)
FontGiven(k) == mode = "write" /\ "font" \in WantOf(want, k).s /\ k \notin ws.formats
ValueHeld(k) == \E cell \in Held(k) : cell.v # Blank
Filled(at, grid) == LET f == GridValues(at, grid) IN {k \in DOMAIN f : f[k] # Blank}
InBulk(k) == \E b \in ToSet(ws.bulk) : k \in Filled(b.at, b.grid)
InBuffer(k) == k \in Filled(<<ws.start, 1>>, ws.buffer)
CellValued(k) == k \in DOMAIN ws.cells /\ ws.cells[k].vd

Value(kind, i, j) == <<kind, made + 1, i, j>>
Renewed(old, v) == WriteCell(v, (old.s \cap {"font"}) \cup IF Plain(v) THEN {} ELSE {"date"})
Wanted(f) == [k \in DOMAIN f |-> Renewed(WantOf(want, k), f[k])] @@ want

Call(w, wanted, open) ==
  /\ ws' = w /\ want' = wanted /\ unsure' = unsure \cup open
  /\ made' = made + 1
  /\ UNCHANGED <<mode, native, patches, base, book>>

SetCellValue ==
  \E k \in Coords, kind \in {"p", "d", "z"} :
    LET v == Value(kind, 1, 1)
    IN Call(CellCall(ws, k, v), Wanted(k :> v), {k} \cap {j \in {k} : InBulk(j) \/ FontGiven(j)})

ClearValue ==
  \E k \in Coords :
    LET m == GetOrCreate(MaterializeAppend(ws), k)
    IN Call(SetValue(m, k, Blank), Wanted(k :> Blank),
            {j \in {k} : InBulk(j) \/ FontGiven(j) \/ ValueHeld(j)})

TouchCell ==
  \E k \in Coords : Call(CellCall(ws, k, Blank), want, {})

SetCellFont ==
  \E k \in Coords :
    Call(SetFont(GetOrCreate(MaterializeAppend(ws), k), k),
         (k :> [WantOf(want, k) EXCEPT !.s = @ \cup {"font"}]) @@ want, {})

AppendValues ==
  \E kinds \in ValueRows :
    LET row == [j \in DOMAIN kinds |-> IF kinds[j] = "" THEN Blank ELSE Value(kinds[j], 1, j)]
        w == AppendRowTo(ws, row)
        at == <<w.next - 1, 1>>
        f == GridValues(at, <<row>>)
        keys == Filled(at, <<row>>)
    IN Call(w, Wanted([k \in keys |-> f[k]]), {k \in keys : InBulk(k) \/ FontGiven(k)})

WriteRows ==
  \E g \in QueuedGrids, styled \in BOOLEAN :
    LET grid == [i \in DOMAIN g.kinds |-> [j \in DOMAIN g.kinds[i] |->
                   IF g.kinds[i][j] = "" THEN Blank ELSE Value(g.kinds[i][j], i, j)]]
        f == GridValues(g.at, grid)
        keys == Filled(g.at, grid)
        wanted == Wanted([k \in keys |-> f[k]])
    IN Call([ws EXCEPT !.fast = FALSE,
                       !.bulk = Append(@, [at |-> g.at, grid |-> grid, styled |-> styled])],
            [k \in DOMAIN wanted |-> IF styled /\ k \in keys
                                     THEN [wanted[k] EXCEPT !.s = @ \cup {"font"}] ELSE wanted[k]],
            {k \in keys : FontGiven(k) \/ (mode = "write" /\ (CellValued(k) \/ InBuffer(k)))}
            \cup {k \in DOMAIN f \ keys : styled /\ WantOf(want, k).v # Blank})

\* del ws[...] leaves the plain value where it is.
DeleteCell ==
  \E k \in Coords :
    Call([ws EXCEPT !.cells = Drop(@, k), !.dirty = @ \ {k}], want, {k})

\* Rows are inserted or deleted among the cells in Python, and all that remain
\* are dirty; what the native writer has stays.  A cell that was never set is a
\* value then.
ShiftedTo(k, row, amount) == IF k[1] >= row THEN <<k[1] + amount, k[2]>> ELSE k
Deleted(k, row, amount) == amount < 0 /\ k[1] \in row..row - amount - 1
Shifted(f, row, amount) ==
  LET kept == {k \in DOMAIN f : ~Deleted(k, row, amount)}
      From(k) == CHOOSE j \in kept : ShiftedTo(j, row, amount) = k
  IN [k \in {ShiftedTo(j, row, amount) : j \in kept} |-> f[From(k)]]

ShiftCells(w, row, amount) ==
  LET m == MaterializeBulk(MaterializeAppend(w))
      moved == Shifted(m.cells, row, amount)
      cells == [k \in DOMAIN moved |->
                  [moved[k] EXCEPT !.vd = TRUE, !.fd = @ \/ moved[k].s # {}]]
  IN [m EXCEPT !.cells = cells, !.dirty = DOMAIN cells, !.values = <<>>,
               !.formats = {k \in DOMAIN cells : cells[k].fd},
               !.next = 1 + HighestRow({k[1] : k \in DOMAIN cells})]

ShiftRowsOf ==
  /\ mode = "write"
  /\ \E row \in ShiftRows, amount \in {1, -1} :
       LET w == ShiftCells(ws, row, amount)
           open == IF native # NoRows THEN Everywhere
                   ELSE DOMAIN Shifted([k \in unsure |-> 0], row, amount)
                        \cup {k \in DOMAIN w.cells : w.cells[k].v = Unset}
       IN Call(w, Shifted(want, row, amount), open)

FillCells ==
  /\ made = 0
  /\ \E area \in Areas :
       LET f == [k \in area |-> <<"p", 0, k[1], k[2]>>]
       IN /\ ws' = FoldSet(LAMBDA k, w : CellCall(w, k, f[k]), ws, area)
          /\ want' = Wanted(f)
  /\ made' = MaxMade
  /\ UNCHANGED <<mode, native, patches, base, book, unsure>>

\* save() of a written workbook.
Unpayable ==
  \/ \E i \in DOMAIN ws.buffer : \E v \in ToSet(ws.buffer[i]) : ~Payable(v)
  \/ \E b \in ToSet(ws.bulk) : \E i \in DOMAIN b.grid : \E v \in ToSet(b.grid[i]) : ~Payable(v)
  \/ \E k \in DirtyOthers(ws) : ~Payable(ws.cells[k].v)

\* What a failed save took out of the rows that are still queued.
TakenOut(w) ==
  LET Keys(at, grid) == {x.k : x \in ToSet(Individuals(at, grid))}
  IN (IF w.buffer = <<>> THEN {} ELSE Keys(<<ws.start, 1>>, ws.buffer))
     \cup UNION {Keys(ws.bulk[i].at, ws.bulk[i].grid) :
                  i \in {j \in DOMAIN w.bulk : w.bulk[j].grid # ws.bulk[j].grid}}

SaveWritten ==
  /\ mode = "write"
  /\ \E f \in FlushDirty(FlushBulkWrites(FlushAppendBuffer(ws))) :
       /\ native' = f.out.rows
       /\ IF f.out.ok
            THEN /\ ws' = Cleared(f.ws)
                 /\ book' = [saved |-> TRUE, refused |-> FALSE, at |-> made,
                             rows |-> SheetData(f.out.rows)]
                 /\ UNCHANGED unsure
            ELSE /\ ws' = f.ws
                 /\ book' = [book EXCEPT !.refused = ~Unpayable]
                 /\ unsure' = unsure \cup TakenOut(f.ws)
  /\ UNCHANGED <<mode, patches, base, want, made>>

\* save() of a loaded workbook, back to its path: everything becomes cells, whose
\* values and formats are queued by coordinate; a value without a payload ends it
\* after any of the others.
Queued(w, keys) ==
  LET valued == {k \in keys : k \in DOMAIN w.cells /\ w.cells[k].vd /\ k \notin DOMAIN w.values}
      styled == {k \in keys : k \in DOMAIN w.cells /\ w.cells[k].fd}
  IN [values |-> w.values @@ [k \in valued |-> w.cells[k].v] @@ patches.values,
      formats |-> [k \in styled |-> w.cells[k].s] @@ patches.formats]
Patched(p) ==
  [k \in DOMAIN base \cup DOMAIN p.values \cup DOMAIN p.formats |->
     WriteCell(IF k \in DOMAIN p.values THEN p.values[k] ELSE WantOf(base, k).v,
               IF k \in DOMAIN p.formats THEN p.formats[k] ELSE WantOf(base, k).s)]
AllCells(w) == MaterializeBulk(MaterializeAppend(w))

SavePatched ==
  /\ mode = "modify"
  /\ LET w == AllCells(ws)
         unpayable == {k \in w.dirty : /\ k \in DOMAIN w.cells /\ k \notin DOMAIN w.values
                                       /\ w.cells[k].vd /\ ~Payable(w.cells[k].v)}
     IN IF unpayable = {}
        THEN /\ patches' = Queued(w, w.dirty)
             /\ base' = Patched(patches')
             /\ book' = [saved |-> TRUE, refused |-> FALSE, at |-> made,
                         rows |-> SheetData([NoRows EXCEPT !.sparse = base'])]
             /\ ws' = Cleared(w)
        ELSE /\ \E keys \in SUBSET (w.dirty \ unpayable) : patches' = Queued(w, keys)
             /\ ws' = w
             /\ UNCHANGED <<base, book>>
  /\ UNCHANGED <<mode, native, want, unsure, made>>

EagerInit ==
  /\ mode \in Modes
  /\ ws = NewSheet /\ native = NoRows
  /\ patches = [values |-> <<>>, formats |-> <<>>]
  /\ base = IF mode = "modify" THEN BaseCells ELSE <<>>
  /\ want = base /\ book = NoBook /\ unsure = {} /\ made = 0
EagerCalls == \/ SetCellValue \/ ClearValue \/ TouchCell \/ SetCellFont \/ AppendValues
              \/ WriteRows \/ DeleteCell \/ ShiftRowsOf \/ FillCells
EagerNext == \/ made < MaxMade /\ EagerCalls
             \/ made > 0 /\ (SaveWritten \/ SavePatched)

-----------------------------------------------------------------------------
\* After a save that returns, following any calls and any saves that failed, the
\* file has every cell as the last call that reached it gave it, with its value
\* and its format, once and in order of rows and columns; and a save is only
\* turned down for a value that no payload stands for.  Left out are the cells
\* in unsure.
SavesTheLastWrites ==
  /\ ~book.refused
  /\ book.saved /\ book.at = made =>
       LET SavedAt(k) ==
             UNION {{WriteCell(x.v, x.s) : x \in {y \in ToSet(row.cells) : y.c = k[2]}} :
                      row \in {r \in ToSet(book.rows) : r.r = k[1]}}
           Is(k, cell) == /\ cell.v = WantOf(want, k).v
                          /\ "font" \in WantOf(want, k).s => "font" \in cell.s
                          /\ "date" \in WantOf(want, k).s => {"date", "font"} \cap cell.s # {}
       IN /\ \A k \in Everywhere \ unsure :
               IF SavedAt(k) = {} THEN Is(k, WriteCell(Blank, {}))
               ELSE \A cell \in SavedAt(k) : Is(k, cell)
          /\ \A i, j \in DOMAIN book.rows : i < j => book.rows[i].r < book.rows[j].r
          /\ \A row \in ToSet(book.rows) :
               \A i, j \in DOMAIN row.cells : i < j => row.cells[i].c < row.cells[j].c

\* Of a loaded workbook that has been edited, the records show what a save that
\* returns would write: edits of cells, appended rows and queued grids, each over
\* the others as the save will lay them.  Left out are empty values in queued rows,
\* which the records show and the save does not write.
RecordsForetellTheSave ==
  mode = "modify" =>
    LET overlay == PendingOverlay(ws)
        saved == Patched(Queued(AllCells(ws), AllCells(ws).dirty))
        Foretold(k) == IF k \in DOMAIN overlay THEN overlay[k] ELSE WantOf(base, k).v
        EmptyIn(k) == \E q \in ToSet(ws.bulk) \cup {[at |-> <<ws.start, 1>>, grid |-> ws.buffer]} :
                         LET f == GridValues(q.at, q.grid) IN k \in DOMAIN f /\ f[k] = Blank
    IN \A k \in Everywhere \ unsure : ~EmptyIn(k) => Foretold(k) = WantOf(saved, k).v
=============================================================================
