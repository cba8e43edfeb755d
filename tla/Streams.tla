-------------------------------- MODULE Streams --------------------------------
(***************************************************************************)
(* Rows on their way out and in.  A workbook is filled and saved, one that *)
(* is write-only (StreamWriter) or one that is held as a whole             *)
(* (EagerSheet); and a sheet of the file, or of another one, is read row   *)
(* by row (StreamReader).                                                  *)
(***************************************************************************)
EXTENDS StreamWriter, StreamReader, EagerSheet

CONSTANTS Sheets,     \* worksheets of other writers
          Requests    \* the ways in which they are read

VARIABLE sheet   \* the worksheet that is read, and the writer's sheet that it is, or 0
vars == <<writerVars, readerVars, eagerVars, sheet>>

NoSheet == [from |-> 0, dim |-> {}, rows |-> <<>>]

\* A package that is torn is not read: its worksheet is no XML.
ReadWritten(k) ==
  /\ request = Idle /\ file # NoFile /\ ~file[k].torn
  /\ sheet' = [from |-> k, dim |-> file[k].dim, rows |-> file[k].rows]
  /\ \E kind \in Kinds, reset \in BOOLEAN :
       OpenReader(sheet', [kind |-> kind, readOnly |-> TRUE, reset |-> reset, size |-> 2,
                           minRow |-> {}, maxRow |-> {}, minCol |-> {}, maxCol |-> {}])
  /\ UNCHANGED <<writerVars, eagerVars>>

\* The sheet of a workbook that was held as a whole: its dimension is that of
\* the cells.
Part(rows) ==
  LET r == {row.r : row \in {x \in ToSet(rows) : x.cells # <<>>}}
      c == UNION {{cell.c : cell \in ToSet(row.cells)} : row \in ToSet(rows)}
      Read(cell) == [c |-> cell.c, v |-> IF cell.v = Blank THEN Nil ELSE cell.v]
  IN [from |-> 0, dim |-> {<<Max({1} \cup r), Max({1} \cup c)>>},
      rows |-> [i \in DOMAIN rows |->
                  [r |-> rows[i].r, plain |-> TRUE,
                   cells |-> [j \in DOMAIN rows[i].cells |-> Read(rows[i].cells[j])]]]]

ReadHeld ==
  /\ request = Idle /\ mode = "write" /\ book.saved /\ book.at = made
  /\ sheet' = Part(book.rows)
  /\ OpenReader(sheet', [kind |-> "values", readOnly |-> TRUE, reset |-> FALSE, size |-> 2,
                         minRow |-> {}, maxRow |-> {}, minCol |-> {}, maxCol |-> {}])
  /\ UNCHANGED <<writerVars, eagerVars>>

ReadAnother ==
  /\ request = Idle /\ mode = "write_only" /\ calls = 0 /\ file = NoFile /\ faults = 0
  /\ \E s \in Sheets, req \in Requests :
       /\ sheet' = [from |-> 0, dim |-> s.dim, rows |-> s.rows]
       /\ OpenReader(sheet', req)
  /\ UNCHANGED <<writerVars, eagerVars>>

Init == WriterInit /\ ReaderInit /\ EagerInit /\ sheet = NoSheet
Next == \/ request = Idle /\ mode = "write_only" /\ WriterNext
             /\ UNCHANGED <<readerVars, eagerVars, sheet>>
        \/ request = Idle /\ mode # "write_only" /\ EagerNext
             /\ UNCHANGED <<writerVars, readerVars, sheet>>
        \/ \E k \in SheetIds : ReadWritten(k)
        \/ ReadHeld
        \/ ReadAnother
        \/ ReaderNext /\ UNCHANGED <<writerVars, eagerVars, sheet>>
Spec == Init /\ [][Next]_vars

-----------------------------------------------------------------------------
\* A save that returns, though calls before it failed, has written every row
\* whose append returned, under its number, to the sheet it was appended to, and
\* no others, and the sheets by their titles.  After a write to a temporary file
\* has failed no save returns but the retry of one that told of it; and a title
\* that was refused must not have stayed: its sheet takes the rows of whichever
\* has its name (StreamWriter.RenameSheet).
SavesHoldTheRows ==
  file # NoFile /\ "rename" \notin troubles /\ {"spool", "save"} \cap troubles # {"spool", "save"} =>
    \A h \in SheetIds :
      /\ file[h].name = title[h]
      /\ ~file[h].torn
      /\ file[h].rows = LET written == SelectSeq(kept[h], LAMBDA k : CellsIn(k.row) # <<>>)
                        IN [i \in DOMAIN written |-> RowElement(written[i].n, written[i].row)]

\* Where the rows and the cells of a worksheet are.
RowAt(rows, i) ==
  LET told == {j \in 1..i : rows[j].r # 0}
  IN IF told = {} THEN i ELSE rows[Max(told)].r + i - Max(told)
ColAt(cells, j) ==
  LET told == {k \in 1..j : cells[k].c # 0}
  IN IF told = {} THEN j ELSE cells[Max(told)].c + j - Max(told)
ValueAt(r, c) ==
  LET found == {cell \in UNION {{[c |-> ColAt(sheet.rows[i].cells, j), v |-> sheet.rows[i].cells[j].v] :
                                  j \in DOMAIN sheet.rows[i].cells} :
                                 i \in {k \in DOMAIN sheet.rows : RowAt(sheet.rows, k) = r}} : cell.c = c}
  IN IF found = {} THEN Nil ELSE (CHOOSE cell \in found : TRUE).v

\* All that was yielded, by rows, and whether it is what the rows and columns
\* should hold: each row up to the last column, or, without one, up to where only
\* empty cells follow.
Yielded == IF request.kind = "chunks" THEN FlattenSeq(consumer.out) ELSE consumer.out
IsRow(values, r, left, right) ==
  /\ \A i \in DOMAIN values : values[i] = ValueAt(r, left + i - 1)
  /\ IF right # {} THEN Len(values) = Highest({Given(right, 0) + 1 - left})
     ELSE \A c \in left..5 : ValueAt(r, c) # Nil => c < left + Len(values)

\* However a worksheet is read, by values, by cells or in chunks, by the scanner
\* or after a handoff, the rows that come out are the rows asked for, in order,
\* with their values at their columns: up to the last row that is asked for; else
\* to the last that has a cell, for a sheet that is not read only; else to the last
\* element within the declared dimension, or to its last row if there are more.
\* Chunks have the size that is asked for at most, and none is empty.
LastRow ==
  LET ends == {RowAt(sheet.rows, i) : i \in DOMAIN sheet.rows}
      filled == {RowAt(sheet.rows, i) : i \in {k \in DOMAIN sheet.rows : sheet.rows[k].cells # <<>>}}
      dim == IF request.reset THEN {} ELSE {d[1] : d \in sheet.dim}
  IN CASE request.maxRow # {} -> Given(request.maxRow, 0)
       [] ~request.readOnly -> Highest(filled)
       [] \E d \in dim, n \in ends : n > d -> Given(dim, 0)
       [] OTHER -> Highest(ends)
ReadsWhatIsThere ==
  request # Idle /\ consumer.ended /\ (sheet.from # 0 => "rename" \notin troubles) =>
    LET top == Given(request.minRow, 1)
        left == Given(request.minCol, 1)
        right == reader.maxCol
    IN /\ Len(Yielded) = Highest({LastRow + 1 - top})
       /\ \A i \in DOMAIN Yielded : IsRow(Yielded[i], top + i - 1, left, right)
       /\ request.kind = "chunks" =>
            \A i \in DOMAIN consumer.out : Len(consumer.out[i]) \in 1..request.size

\* What was appended is read back, whole and in order, with the declared dimension
\* or without it, and however many saves had failed before; rows without cells at
\* the end are not.  Left out are sheets of which a row was refused before others
\* were taken: their dimension, which counts the rows, is too short.
WrittenIsReadBack ==
  LET k == sheet.from
      rows == kept[k]
      filled == {i \in DOMAIN rows : CellsIn(rows[i].row) # <<>>}
  IN /\ request # Idle /\ consumer.ended /\ k # 0
     /\ "rename" \notin troubles /\ {"spool", "save"} \cap troubles # {"spool", "save"}
     /\ request.reset \/ \A i \in DOMAIN rows : rows[i].n = i
     => /\ Len(Yielded) = Highest({rows[i].n : i \in filled})
        /\ \A i \in filled : \A c \in DOMAIN rows[i].row :
             rows[i].row[c] # None => /\ c \in DOMAIN Yielded[rows[i].n]
                                     /\ Yielded[rows[i].n][c] = rows[i].row[c]
=============================================================================
