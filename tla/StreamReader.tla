----------------------------- MODULE StreamReader -----------------------------
(***************************************************************************)
(* Rows of a worksheet, read one after the other without loading it        *)
(* (src/streaming.rs, python/wolfxl/_streaming.py): the values of rows,    *)
(* rows of cells, or values in chunks.                                     *)
(*                                                                         *)
(* The rust reader yields the row elements between the bounds.  Values     *)
(* come from a scanner of bytes until a row is not plain; from that row on *)
(* they come from the XML parser.  The generators of _streaming.py ask it  *)
(* for chunks of rows and fill in the rows that have no element.           *)
(*                                                                         *)
(* A worksheet is its declared dimension and its row elements.  A row or   *)
(* a cell whose place is 0 does not say where it is, and follows the last  *)
(* one.  Bounds are sets: empty, or of the one number that is given.       *)
(* Values are opaque; Nil is a cell that has none.                         *)
(***************************************************************************)
EXTENDS Integers, SequencesExt, FiniteSetsExt

CONSTANTS CHUNK_ROWS,          \* rows that a values generator asks for at once
          CHUNK_CELL_BUDGET,   \* cells after which a chunk takes no more rows
          Nil

ASSUME ChunkAssumption == CHUNK_ROWS \in Nat \ {0} /\ CHUNK_CELL_BUDGET \in Nat \ {0}

VARIABLES request,    \* what is read, and how
          reader,     \* the StreamingSheetReader
          consumer    \* the generator that reads from it
readerVars == <<request, reader, consumer>>

Kinds == {"values", "cells", "chunks"}
Idle == [kind |-> "idle"]
Copies(n, x) == [i \in 1..n |-> x]
Highest(S) == Max({0} \cup S)
Given(bound, default) == IF bound = {} THEN default ELSE CHOOSE n \in bound : TRUE
Beyond(n, bound) == \E b \in bound : n > b

-----------------------------------------------------------------------------
(* The rust reader. *)

RowIndex(row, last) == IF row.r = 0 THEN last + 1 ELSE row.r

\* The cells of a row, each with its column, in the order of the file.
Placed(cells) ==
  LET col[j \in 0..Len(cells)] ==
        IF j = 0 THEN 0 ELSE IF cells[j].c = 0 THEN col[j - 1] + 1 ELSE cells[j].c
  IN [j \in DOMAIN cells |-> [c |-> col[j], v |-> cells[j].v]]

\* The largest row and the largest column of any cell.
CellBounds(sheet) ==
  LET row[i \in 0..Len(sheet.rows)] ==
        IF i = 0 THEN 0 ELSE RowIndex(sheet.rows[i], row[i - 1])
      filled == {i \in DOMAIN sheet.rows : sheet.rows[i].cells # <<>>}
  IN <<Highest({row[i] : i \in filled}),
       Highest(UNION {{p.c : p \in ToSet(Placed(sheet.rows[i].cells))} : i \in filled})>>

PushBounded(out, cell, minCol, maxCol) ==
  IF cell.c < Given(minCol, 1) \/ Beyond(cell.c, maxCol) \/ cell.c <= out.last THEN out
  ELSE [values |-> Append(out.values \o Copies(cell.c - out.last - 1, Nil), cell.v),
        last |-> cell.c]

\* The columns at the end of a row that have no cell.
FinishRow(out, minCol, maxCol) ==
  CASE maxCol # {} -> out.values \o Copies(Highest({Given(maxCol, 0) - out.last}), Nil)
    [] maxCol = {} /\ minCol # {} /\ out.values = <<>> -> <<Nil>>
    [] OTHER -> out.values

\* The values of a row, up to the last column that is asked for.
ValueRow(cells, minCol, maxCol) ==
  FinishRow(FoldLeft(LAMBDA o, cell : PushBounded(o, cell, minCol, maxCol),
                     [values |-> <<>>, last |-> Given(minCol, 1) - 1], Placed(cells)),
            minCol, maxCol)

Taken(rd, index) == [rd EXCEPT !.rest = Tail(@), !.last = index]
NoRow(rd) == [reader |-> rd, rows |-> <<>>]
PastTheEnd(rd) == NoRow([rd EXCEPT !.done = TRUE, !.past = TRUE])
AtTheEnd(rd) == NoRow([rd EXCEPT !.done = TRUE])

\* The row that the XML parser finds next.
EventStep(rd) ==
  IF rd.rest = <<>> THEN AtTheEnd(rd)
  ELSE LET row == Head(rd.rest)
           index == RowIndex(row, rd.last)
       IN CASE index < rd.minRow -> NoRow(Taken(rd, index))
            [] Beyond(index, rd.maxRow) -> PastTheEnd(rd)
            [] OTHER -> [reader |-> Taken(rd, index),
                         rows |-> <<[at |-> index,
                                     values |-> ValueRow(row.cells, rd.minCol, rd.maxCol)]>>]

\* The scanner leaves a row that it cannot read where it is: the parser reads
\* it, and all that follow.
HandOff(rd) == [rd EXCEPT !.scanning = FALSE]

\* The row that the scanner finds next: it reads plain rows, and looks no further
\* into a row past the last that is asked for.
ScanStep(rd) ==
  IF rd.rest # <<>> /\ (Head(rd.rest).plain \/ EventStep(rd).reader.past)
    THEN EventStep(rd)
    ELSE NoRow(HandOff(rd))

ParseIfLeft(scanned) ==
  IF scanned.reader.scanning THEN scanned ELSE EventStep(scanned.reader)
ValueStep(rd) == ParseIfLeft(IF rd.scanning THEN ScanStep(rd) ELSE NoRow(rd))

ChunkFull(c, limit) ==
  \/ c.reader.done \/ Len(c.rows) >= limit
  \/ FoldLeft(LAMBDA n, r : n + Len(r.values), 0, c.rows) >= CHUNK_CELL_BUDGET
WithStep(c, step) == [reader |-> step.reader, rows |-> c.rows \o step.rows]
ChunkOf(rd, rows) ==
  [reader |-> rd, empty |-> rows = <<>>,
   first |-> IF rows = <<>> THEN 0 ELSE Head(rows).at,
   last |-> IF rows = <<>> THEN 0 ELSE Last(rows).at,
   dense |-> \A i \in DOMAIN rows \ {1} : rows[i].at = rows[i - 1].at + 1,
   items |-> [i \in DOMAIN rows |-> rows[i].values],
   at |-> [i \in DOMAIN rows |-> rows[i].at]]
Compacted(end) == ChunkOf(end.reader, end.rows)

\* At most limit rows, fewer if they have too many cells.  A chunk of rows that
\* follow each other comes without their indexes.
CompactChunk(rd, limit) ==
  Compacted(FoldLeft(LAMBDA c, row : IF ChunkFull(c, limit) THEN c
                                     ELSE WithStep(c, ValueStep(c.reader)),
                     NoRow(rd), Append(rd.rest, "end")))

\* The next row of cells, those outside the columns left out.
CellStep(rd) ==
  LET read == EventStep(HandOff(rd))
      cells == SelectSeq(Placed(Head(rd.rest).cells),
                         LAMBDA p : p.c >= Given(rd.minCol, 1) /\ ~Beyond(p.c, rd.maxCol))
  IN [reader |-> read.reader,
      rows |-> IF read.rows = <<>> THEN <<>> ELSE <<[at |-> read.rows[1].at, cells |-> cells]>>]

-----------------------------------------------------------------------------
(* The generators. *)

\* The bounds that the request does not give: the declared dimension, unless it
\* was reset; the cells, for a sheet that is not opened to be read only.
DefaultBounds(sheet, req) ==
  CASE ~req.readOnly /\ (req.maxRow = {} \/ req.maxCol = {}) -> {CellBounds(sheet)}
    [] req.readOnly /\ req.reset -> {}
    [] OTHER -> sheet.dim

OpenReader(sheet, req) ==
  LET bounds == DefaultBounds(sheet, req)
      OrElse(given, i) == IF given # {} THEN given ELSE {b[i] : b \in bounds}
  IN /\ request' = req
     /\ reader' = [rest |-> sheet.rows, last |-> 0, scanning |-> TRUE, done |-> FALSE,
                   past |-> FALSE, minRow |-> Given(req.minRow, 1),
                   maxRow |-> OrElse(req.maxRow, 1),
                   minCol |-> req.minCol, maxCol |-> OrElse(req.maxCol, 2)]
     /\ consumer' = [out |-> <<>>, pending |-> <<>>, counter |-> Given(req.minRow, 1),
                     ended |-> FALSE]

\* A row that no element stands for.
EmptyRow(rd) ==
  IF rd.maxCol = {} THEN <<>>
  ELSE Copies(Highest({Given(rd.maxCol, 0) + 1 - Given(rd.minCol, 1)}), Nil)

\* The rows from counter to the one before.
Gap(rd, counter, before) == Copies(Highest({before - counter}), EmptyRow(rd))

\* Yield a row, and before it those that are missing.
YieldRow(c, rd, at, values) ==
  [c EXCEPT !.out = Append(@ \o Gap(rd, c.counter, at), values), !.counter = at + 1]

NumberOf(chunk, i) == IF chunk.dense THEN chunk.first + i - 1 ELSE chunk.at[i]

\* stream_iter_rows, values only.
ReadValues ==
  /\ request.kind = "values" /\ ~reader.done
  /\ \E chunk \in {CompactChunk(reader, CHUNK_ROWS)} :
       LET yielded[i \in 0..Len(chunk.items)] ==
             IF i = 0 THEN consumer
             ELSE YieldRow(yielded[i - 1], reader, NumberOf(chunk, i), chunk.items[i])
       IN /\ reader' = chunk.reader
          /\ consumer' = yielded[Len(chunk.items)]
  /\ UNCHANGED request

\* stream_iter_rows, cells.  A cell that is there twice is the later one.
CellsOf(cells, minCol, maxCol) ==
  LET last == Given(maxCol, Highest({minCol - 1} \cup {p.c : p \in ToSet(cells)}))
      Found(col) == {i \in DOMAIN cells : cells[i].c = col}
  IN [i \in 1..Highest({last + 1 - minCol}) |->
        LET found == Found(minCol + i - 1)
        IN IF found = {} THEN Nil ELSE cells[Max(found)].v]

ReadCells ==
  /\ request.kind = "cells" /\ ~reader.done
  /\ \E step \in {CellStep(reader)} :
       /\ reader' = step.reader
       /\ consumer' = FoldLeft(LAMBDA c, row :
                                 YieldRow(c, reader, row.at,
                                          CellsOf(row.cells, Given(reader.minCol, 1), reader.maxCol)),
                               consumer, step.rows)
  /\ UNCHANGED request

\* stream_value_chunks: rows are collected, and yielded request.size at a time.
Collect(c, row) ==
  IF Len(c.pending) + 1 >= request.size
    THEN [c EXCEPT !.out = Append(@, Append(c.pending, row)), !.pending = <<>>]
    ELSE [c EXCEPT !.pending = Append(@, row)]
CollectAll(c, rows) == FoldLeft(Collect, c, rows)

\* Fault: rows that wait are not looked at.
YieldsWholeAlways(chunk) == chunk.dense /\ ~chunk.empty /\ chunk.first = consumer.counter

\* A dense chunk that comes next is yielded as it is.
YieldsWhole(chunk) ==
  /\ chunk.dense /\ consumer.pending = <<>> /\ ~chunk.empty
  /\ chunk.first = consumer.counter
  /\ chunk.last = consumer.counter + Len(chunk.items) - 1

WithGap(c, rd, at, values) ==
  [CollectAll(c, Append(Gap(rd, c.counter, at), values)) EXCEPT !.counter = at + 1]

ReadChunks ==
  /\ request.kind = "chunks" /\ ~reader.done
  /\ \E chunk \in {CompactChunk(reader, request.size)} :
       LET collected[i \in 0..Len(chunk.items)] ==
             IF i = 0 THEN consumer
             ELSE WithGap(collected[i - 1], reader, NumberOf(chunk, i), chunk.items[i])
       IN /\ reader' = chunk.reader
          /\ consumer' =
               IF YieldsWhole(chunk)
                 THEN [consumer EXCEPT !.out = Append(@, chunk.items), !.counter = chunk.last + 1]
                 ELSE collected[Len(chunk.items)]
  /\ UNCHANGED request

\* _pad_trailing_rows: up to a row that was asked for, or that the sheet declares
\* and goes past.
PadsTrailing == request.maxRow # {} \/ ~request.readOnly \/ reader.past

EndOfRows ==
  /\ request # Idle /\ reader.done /\ ~consumer.ended
  /\ LET missing == IF PadsTrailing
                      THEN Gap(reader, consumer.counter, Given(reader.maxRow, 0) + 1) ELSE <<>>
         all == CollectAll(consumer, missing)
     IN consumer' =
          [consumer EXCEPT !.ended = TRUE, !.pending = <<>>,
             !.out = IF request.kind # "chunks" THEN @ \o missing
                     ELSE all.out \o IF all.pending = <<>> THEN <<>> ELSE <<all.pending>>]
  /\ UNCHANGED <<request, reader>>

ReaderInit == request = Idle /\ reader = Idle /\ consumer = Idle
ReaderNext == ReadValues \/ ReadCells \/ ReadChunks \/ EndOfRows
=============================================================================
