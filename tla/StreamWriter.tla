----------------------------- MODULE StreamWriter -----------------------------
(***************************************************************************)
(* A workbook of Workbook(write_only=True): each sheet is a Python object  *)
(* that numbers the rows appended to it and a stream of the native writer, *)
(* which encodes them into a temporary file through a buffer.  A save      *)
(* flushes the streams and splices the files into the package.             *)
(* (python/wolfxl/_worksheet_write_only.py, src/native_writer_streaming.rs,*)
(* crates/wolfxl-writer/src/streaming.rs)                                  *)
(*                                                                         *)
(* The two halves find each other by the sheet's name.  A write to a       *)
(* temporary file may fail, so may that of the package.                    *)
(***************************************************************************)
EXTENDS Integers, SequencesExt, FiniteSetsExt, TLC

CONSTANTS FirstTitles,   \* the sheets, in order, by the names they get
          NewTitles,     \* bound: names that a sheet may be given later
          BadTitles,     \* those of them that the native writer refuses
          AppendedRows,  \* bound: the rows that are appended
          None,           \* a cell that is skipped
          Refused,       \* a value that the native writer refuses
          MaxCalls,      \* bound: calls other than save
          MaxFaults      \* bound: writes that fail

ASSUME TitlesAssumption == IsInjective(FirstTitles) /\ BadTitles \cap ToSet(FirstTitles) = {}

VARIABLES
  title,     \* WriteOnlyWorksheet: _title
  counter,   \*                     _row_counter
  closed,    \*                     _closed
  saved,     \* Workbook: _saved
  name,      \* the native sheets' names
  spool,     \* and their streams
  file,      \* the package that was written
  kept,      \* the rows whose append returned, by sheet, with their numbers
  troubles,  \* what has been reported, of "rename", "spool", "save"
  calls, faults

writerVars == <<title, counter, closed, saved, name, spool, file, kept, troubles, calls, faults>>

SheetIds == DOMAIN FirstTitles
NoFile == <<>>

\* StreamingSheet: the row elements it was given, how many of them are on disk,
\* whether a part of one is among them, whether it takes more, and its counts.
NewSpool == [rows |-> <<>>, onDisk |-> 0, torn |-> FALSE, open |-> TRUE,
             error |-> FALSE, rowCount |-> 0, maxCol |-> 0]

CellsIn(row) ==
  LET cols == SetToSortSeq({c \in DOMAIN row : row[c] # None}, <)
  IN [j \in DOMAIN cols |-> [c |-> cols[j], v |-> row[cols[j]]]]

RowElement(n, row) == [r |-> n, cells |-> CellsIn(row), plain |-> TRUE]

\* emit_row_to: a row without cells has no element.
Encoded(s, n, row) ==
  IF CellsIn(row) = <<>> THEN s.rows ELSE Append(s.rows, RowElement(n, row))

\* A row that is appended to a stream; the buffer may be flushed before it.
Appended(s, n, row) ==
  {[s EXCEPT !.rows = Encoded(s, n, row), !.onDisk = flushed, !.rowCount = @ + 1,
             !.maxCol = Max({@} \cup {cell.c : cell \in ToSet(CellsIn(row))})] :
     flushed \in {s.onDisk, Len(s.rows)}}

\* Fault: a failed write is not remembered for the save.
HalfForgotten(s) ==
  {[s EXCEPT !.torn = torn, !.onDisk = flushed] :
     torn \in {s.torn, TRUE}, flushed \in s.onDisk..Len(s.rows)}

\* A row whose encoding ends with a failed write: what precedes it is in the
\* buffer still, and so may be the first bytes of the row.
HalfAppended(s) ==
  {[s EXCEPT !.torn = torn, !.error = TRUE, !.onDisk = flushed] :
     torn \in {s.torn, TRUE}, flushed \in s.onDisk..Len(s.rows)}

\* WriteOnlyWorksheet.append and append_streaming_row.  The row has its number
\* before the native writer is called, which may not take the row.
Target(h) == {k \in SheetIds : name[k] = title[h]}

AppendRow(h) ==
  /\ ~closed[h] /\ calls < MaxCalls
  /\ calls' = calls + 1
  /\ counter' = [counter EXCEPT ![h] = @ + 1]
  /\ \E row \in AppendedRows :
       LET n == counter[h] + 1
           takers == IF Refused \in ToSet(row) THEN {}
                     ELSE {k \in Target(h) : spool[k].open}
       IN \/ /\ takers = {}
             /\ UNCHANGED <<spool, kept, troubles, faults>>
          \/ \E k \in takers : \E s \in Appended(spool[k], n, row) :
               /\ spool' = [spool EXCEPT ![k] = s]
               /\ kept' = [kept EXCEPT ![h] = Append(@, [n |-> n, row |-> row])]
               /\ UNCHANGED <<troubles, faults>>
          \/ /\ faults < MaxFaults /\ CellsIn(row) # <<>>
             /\ faults' = faults + 1
             /\ \E k \in takers : \E s \in HalfAppended(spool[k]) : spool' = [spool EXCEPT ![k] = s]
             /\ troubles' = troubles \cup {"spool"}
             /\ UNCHANGED kept
  /\ UNCHANGED <<title, closed, saved, name, file>>

\* The title setter: the workbook knows the sheet by its new name before the
\* native writer is asked, which may refuse.
RenameSheet(h) ==
  /\ ~saved /\ calls < MaxCalls
  /\ calls' = calls + 1
  /\ \E t \in NewTitles \ ToSet(title) :
       /\ title' = [title EXCEPT ![h] = t]
       /\ IF t \in ToSet(name) \/ Target(h) = {} \/ t \in BadTitles
            THEN troubles' = troubles \cup {"rename"} /\ UNCHANGED name
            ELSE name' = [k \in SheetIds |-> IF k \in Target(h) THEN t ELSE name[k]]
                 /\ UNCHANGED troubles
  /\ UNCHANGED <<counter, closed, saved, spool, file, kept, faults>>

\* WriteOnlyWorksheet.close.
CloseSheet(h) ==
  /\ ~closed[h] /\ calls < MaxCalls
  /\ calls' = calls + 1
  /\ closed' = [closed EXCEPT ![h] = TRUE]
  /\ UNCHANGED <<title, counter, saved, name, spool, file, kept, troubles, faults>>

-----------------------------------------------------------------------------
(* save: finalize_all_streaming ends with the first stream that fails.       *)

\* finalize: the stream takes no more rows; an error of a row is told once.
Flushed(s) == [s EXCEPT !.open = FALSE, !.error = FALSE,
                        !.onDisk = IF s.open THEN Len(s.rows) ELSE @]

\* A flush that fails loses the buffer, or the end of it.
FlushFailed(s) ==
  {[s EXCEPT !.open = FALSE, !.rows = SubSeq(@, 1, k), !.onDisk = k, !.torn = torn] :
     k \in s.onDisk..Len(s.rows), torn \in {s.torn, TRUE}}

Unflushed(s) == s.open /\ (s.onDisk < Len(s.rows) \/ s.torn)

\* The streams that have an error to tell.
Erring == {k \in SheetIds : spool[k].error}

FlushedTo(last) == [k \in SheetIds |-> IF k <= last THEN Flushed(spool[k]) ELSE spool[k]]

SaveFailsToFlush(k) ==
  /\ ~saved /\ faults < MaxFaults
  /\ Unflushed(spool[k]) /\ Erring \cap 1..(k - 1) = {}
  /\ faults' = faults + 1
  /\ \E s \in FlushFailed(spool[k]) : spool' = [FlushedTo(k - 1) EXCEPT ![k] = s]
  /\ troubles' = troubles \cup {"spool", "save"}
  /\ UNCHANGED <<title, counter, closed, saved, name, file, kept, calls>>

SaveTellsAnError ==
  /\ ~saved /\ Erring # {}
  /\ spool' = FlushedTo(Min(Erring))
  /\ troubles' = troubles \cup {"save"}
  /\ UNCHANGED <<title, counter, closed, saved, name, file, kept, calls, faults>>

\* write_zip_atomically_fast: the package is there whole, or not at all.
SaveFailsToWrite ==
  /\ ~saved /\ Erring = {} /\ faults < MaxFaults
  /\ faults' = faults + 1
  /\ spool' = FlushedTo(Len(FirstTitles))
  /\ troubles' = troubles \cup {"save"}
  /\ UNCHANGED <<title, counter, closed, saved, name, file, kept, calls>>

\* Fault: rows without cells are not counted.
DimensionOfDisk(s) == <<Max({1, s.onDisk}), Max({1, s.maxCol})>>

\* The sheet's part: what is on disk, and the dimension by the stream's counts.
Dimension(s) == IF s.rowCount = 0 \/ s.maxCol = 0 THEN <<1, 1>> ELSE <<s.rowCount, s.maxCol>>
SheetPart(k) ==
  LET s == Flushed(spool[k])
  IN [name |-> name[k], dim |-> {Dimension(s)},
      rows |-> IF s.rowCount = 0 THEN <<>> ELSE SubSeq(s.rows, 1, s.onDisk),
      torn |-> s.rowCount # 0 /\ s.torn]

\* The sheets are closed after the save; the first that is closed already ends
\* it with an error, when the package has been written.
SaveWrites ==
  /\ ~saved /\ Erring = {}
  /\ spool' = FlushedTo(Len(FirstTitles))
  /\ file' = [k \in SheetIds |-> SheetPart(k)]
  /\ saved' = TRUE
  /\ closed' = LET first == Min({Len(FirstTitles) + 1} \cup {h \in SheetIds : closed[h]})
               IN [h \in SheetIds |-> h < first \/ closed[h]]
  /\ UNCHANGED <<title, counter, name, kept, troubles, calls, faults>>

WriterInit ==
  /\ title = FirstTitles /\ name = FirstTitles
  /\ counter = [h \in SheetIds |-> 0] /\ closed = [h \in SheetIds |-> FALSE]
  /\ saved = FALSE /\ file = NoFile
  /\ spool = [k \in SheetIds |-> NewSpool]
  /\ kept = [h \in SheetIds |-> <<>>]
  /\ troubles = {} /\ calls = 0 /\ faults = 0

WriterNext ==
  \/ \E h \in SheetIds : AppendRow(h) \/ RenameSheet(h) \/ CloseSheet(h) \/ SaveFailsToFlush(h)
  \/ SaveTellsAnError \/ SaveFailsToWrite \/ SaveWrites
=============================================================================
