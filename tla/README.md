# Verification of WolfXL

TLA+ models of WolfXL, a Rust and Python library, command line and MCP server
for spreadsheet workbooks. TLC checks small instances of the models and TLAPS
proves the properties that matter most for every value of the constants. Source
paths below are relative to the repository's root.

## Inventory

| Component | State it keeps | Operations | Modelled by |
| --- | --- | --- | --- |
| MCP file server (`crates/wolfxl-cli/src/mcp`) | per workbook path an undo and a redo stack of whole files and the revision they belong to; whether `initialize` was answered | read tools, editing tools with an optional `expected_revision` and dry run, `undo`, `redo` | `McpFiles`, `UndoFile` |
| Modify-mode sheet operations (`python/wolfxl/_workbook_sheets.py`, `_worksheet.py`, `src/wolfxl/mod.rs`) | the tab list, the titles created, copies and shifts not flushed, the patcher's queues | create, retitle, rename, remove, move, copy, insert rows | `SheetQueue`, `Tabs` |
| Patcher save pipeline (`src/wolfxl/patcher_*.rs`, `sheet_order.rs`) | added and deleted parts and relationship graphs, kept from save to save | the phases of `do_save`, the rewrite of the package, the reset after a save in place | `SheetQueue` (sheet phases), `BlockQueues` (block phases) |
| Cell and block queues (`patcher_sheet_blocks.rs`, `comments.rs`, `hyperlinks.rs`, `tables.rs`, `ancillary.rs`) | per sheet the validations, formats, links, tables, notes and threads asked for | the calls that queue them, the phases that write them | `BlockQueues` |
| Save orchestration and atomic writers (`_workbook_save.py`, `src/atomic_save.rs`, `mcp/files.rs`, `wolfxl-edit`) | a temporary file beside the target, what is still to be written | the steps of a save, each a write and a rename; sync of file and directory | `SaveFiles`; the MCP server's in `McpFiles` |
| Source of a loaded workbook (`_source_buffer.py`, `_workbook_sources.py`, `_workbook_lifecycle.py`) | a map of the caller's file and a private copy of it | load, promote, save over it and publish, close | `SaveFiles` |
| Editing session (`crates/wolfxl-edit`) | the original package, changed and removed parts, sheets, dirty flag | write a cell, insert and delete rows, add and rename sheets, number formats, save, open | `EditSession`; the XML of a sheet in `SheetPatch` |
| Structural shifts and formula references (`wolfxl-structural`, `wolfxl-formula`) | none | shift or move cells, ranges, formulas, columns, tables, notes, names | `Shifts`, `RangeMoves` |
| Sheet copies, relationships and part numbers (`sheet_copy.rs`, `crates/wolfxl-rels`) | next part numbers, table names | plan the copy of a sheet, walk its parts | `SheetCopy` |
| Formula evaluation (`python/wolfxl/calc`, `_formula_cache.py`) | cached evaluator, last results, results loaded | calculate, recalculate, save the results | `FormulaResults` |
| Terminal interface (`wolfxl-cli/src/tui`) | cursor, scrolling, search, order of rows, sheets visited | keys | `PeekGrid` |
| Cell buffers of a worksheet (`_worksheet_write_buffers.py`, `_worksheet_writer_flush.py`, `_cell.py`) | cells, plain values, dirty and formatted coordinates, appended rows, queued grids | set, clear, style, append, write rows, delete, shift rows; the flush of a save; records | `EagerSheet` |
| Workbook writer's cells (`model/worksheet.rs`, `native_writer_cells.rs`, `emit/sheet_data.rs`) | dense segments and a sparse overlay | write a grid, a cell, a style; emit the rows | `NativeRows` |
| Write-only writer (`wolfxl-writer/src/streaming.rs`, `_worksheet_write_only.py`) | per sheet a row counter and a title in Python, a buffered temporary file with its counts in Rust | append, retitle, close, save once | `StreamWriter`, `Streams` |
| Streaming reader (`src/streaming.rs`, `_streaming.py`) | the position in the XML, the last row number, rows waiting to be yielded | read rows by values, by cells or in chunks, within bounds | `StreamReader`, `Streams` |
| Load limits (`src/load_limits.rs`, `package_guard.rs`) | counted entries, bytes, cells | admit or refuse | not modelled yet |
| Readers, the writer's other parts, merger, autofilter, classify, pivot, command line | none, or one pass over a file | conversions | not modelled: data conversion without a protocol |

How they interact: the Python `Workbook` calls the patcher through PyO3, one
call at a time under the GIL; Python changes its own view first or last
depending on the method, and that order is what the sheet models keep. A save
calls the patcher once, which reads the source package and writes the target
through an atomic writer; the rewriting of a part (`wolfxl-structural`,
`sheet_patcher.rs`) is a pure function of its bytes. The MCP server calls the
editing session, gets bytes back and replaces the file itself. Files are the
only state shared between processes, and nothing locks them.

What is hard: the interleaving of processes on one file (MCP server); failures
and process ends between the steps of a replace; long legal sequences of calls
and saves in which a queue, a part, a title or a result outlives the save it
was meant for (patcher, blocks, results); and rewritings that must agree on
where a cell has gone although each part of a sheet counts it in its own way
(shifts). `PROJECT.json` lists these hazards at their lines.

## Modules

| Module | What it is |
| --- | --- |
| `UndoFile` | abstract: a linear log of file contents and a cursor, what the `undo` and `redo` tools promise a client |
| `McpFiles` | detailed: server processes, each read and rename a step, other writers, failures, restarts |
| `SequenceLemmas` | lemmas: insertion, removal and enumeration in sequences, greatest and least elements |
| `FoldInduction` | lemmas: induction over the folds of the community modules |
| `McpFilesProofs` | type correctness and the safety invariants of `McpFiles`, its undo budget, and that it implements `UndoFile` |
| `SheetQueueProofs` | the queues of `SheetQueue`, the parts that wait, and that every sheet has its own |
| `SaveFilesProofs` | types, sources, paths and saves of `SaveFiles` |
| `PeekGridProofs` | the properties of `PeekGrid` |
| `EditSessionProofs` | what each edit of `EditSession` makes of any well-formed package, and the properties of `EditSession` |
| `RewritesProofs` | where shifts and moves put references, anchors, columns, notes, tables and cells, and what patches leave, in sheets of any size |
| `SaveFiles` | paths and files behind open workbooks, each step of a save an action, failures, process ends, other programs |
| `Tabs` | abstract: a tab list that calls change at once and saves write |
| `SheetQueue` | detailed: the Python tab list, the patcher's queues, the phases of a save, packages as sheets, relationships and parts |
| `BlockQueues` | the queues of what a sheet has beside its cells, the phases that write them, packages over several saves |
| `EditSession` | the overlay of changed and removed parts over a package, edits of cells, rows, sheets and formats, saving and opening |
| `PeekGrid` | the terminal's grid: cursor, scrolling, search, sorting, sheets visited |
| `Shifts` | operators: insertions and deletions in references, ranges, cells, columns, notes, shapes, tables, names |
| `RangeMoves` | operators: a rectangle of cells that moves, and the formulas and anchors that follow |
| `SheetPatch` | operators: cells written into the XML of a sheet |
| `SheetCopy` | operators: the copy of a sheet's parts, part numbers, the walk of relationships |
| `Rewrites` | each of those operators applied to every small input, and what its result must agree with |
| `FormulaResults` | calculation, what-if recalculation and the results that saves write or drop |
| `StreamWriter` | write-only sheets, their temporary files and the save that splices them |
| `StreamReader` | the readers of rows: scanner, parser, generators |
| `NativeRows` | operators: the native writer's cells of a sheet, and the plan by which scattered values become grids |
| `EagerSheet` | a worksheet of a workbook that is held as a whole, from its buffers in Python to what a save writes |
| `Streams` | all composed: a file that is written, by either writer, and read, and sheets of other writers |
| `MCMcpFiles`, `MCSaveFiles`, `MCSheetQueue`, `MCBlockQueues`, `MCEditSession`, `MCPeekGrid`, `MCRewrites`, `MCFormulaResults`, `MCStreams` | instances for TLC: small packages, inputs, sessions |

### McpFiles

`file` is the content under the path (`NoFile` when there is none). A content
stands for its own SHA-256 revision: two contents with the same hash are not
distinguished by the code either. Each server has a `pc`: `idle`, `reading`
(between the two reads of `get_workbook` and `read_range`), `prepared` (the
bytes to write are in memory), `checked` (the second read agreed), `staged`
(the temporary file is written), `renamed` (the history is not updated yet).
`history` is the `History` record of `mcp/mod.rs`; `known` is the revision the
client read last and the only one it can name as `expected_revision`; `raced`
is a ghost that says whether somebody wrote the file since the server last
compared it. `Outside` is any other program; `Restart` a process that ends at
any point. Not in it: JSON-RPC framing, argument errors, what an edit computes
(any content), permissions, and the path checks of `files.rs:47-71`.

`UndoRedoIsLinear` is the refinement of `UndoFile`: the log is the undo stack,
the current revision and the reversed redo stack, and an edit takes effect at
its rename. The one step it excepts is a server's rename over what somebody wrote
after the server's last comparison (`raced`): the code calls that check best
effort (`files.rs:95-97`). Whatever was raced before, every other step keeps to
the log.

### SaveFiles

A package is the path it was first loaded from and the edits made to it since;
what an edit says is left out. `at` is the directory (path to file, so two
paths may be hard links of one file) and `data` the files' contents in the
order in which the files were made: a rename gives a path a new file, an open
for writing changes the file under everyone who maps it. `Torn` is the content
of a file that is only partly written.

`book` is an open workbook: `origin` is `_source_origin_path`, `map` the file
that its `MappedSource` maps (`InMemory` when mapping is not possible, and then
`bytes`), `private` the patcher's private copy, `dirty` the edits that Python or
the patcher still hold, `shows` what the user sees. `save` is the save in
progress: `step`, the destination, whether it is a save back (`home`, decided
by `modify_source_target`), the file written last (`put`).

The steps are those of `save_workbook`: the patcher writes the private copy or
the destination (`Patch`), or a read workbook is copied (`CopySource` by a
rename, or `OpenTarget` and `FillTarget` in place); the pivot layout
(`TakeLayout`, `RewriteLayout`), the merges and the custom document properties
rewrite what the step before wrote; a save back maps a copy of the private file
(`MapCopy`) and renames it (`Publish`). Four kinds of edits stand for the four
ways the code treats one: the patcher keeps cell patches from save to save,
merges are replayed by every save, the layout flag is cleared before its step
and the properties flag after. Every step may fail and the process may end at
every step. Workbooks run in threads and their steps interleave.

Ghosts: `promised` are the packages loaded and those that saves were to write;
`loose` the paths that were written by anything but a save back, which no
property calls whole.

Not in it: loss of power and writes that were not synced, write mode,
encryption, file objects, the refusal of `read_only` workbooks, the steps for
package shape, templates, chart sheets, external links and formula results
(each reads the package and renames a new one over it, like the merges),
Windows' locks on mapped files, and unreadable packages other than torn ones.

### SheetQueue

`tabs` is `_sheet_names` together with the content each tab should have by the
calls made: the loaded sheet it comes from and the row insertions since.
`createdTitles`, `sheetCopies` and `axisShifts` are the Python side's pending
state. `patcher` is a record of the fields of `XlsxPatcher` that sheets need:
`paths` (`sheet_paths`, `Pending` for the placeholder path), `order`, the
queues, `adds` and `dels` (`file_adds`, `file_deletes`) and `graph`
(`rels_patches` for the workbook). `source` is the package it patches: the
`<sheet>` list, the workbook relationships, the parts by number. `written` is
what a reader finds in the package last written.

One action per method of the workbook, with the patcher's refusals; `Save` is
the whole of `save_workbook`: the flush of the copies and shifts, the phases in
`do_save`'s order as functions of a workspace, the collision assertion, the
write, and what a refused or failed save leaves behind. The calls are made by
one thread, so a save is one step. `Retitle` of a creation that is still pending is
a deletion and a creation: when the patcher refuses the new title it has already
forgotten the old one.

`WritesWhatIsShown` says that this implements `Tabs`: every save that succeeds
writes exactly the tabs shown, in order, with their contents. **It does not hold
for every session.** The passing runs delimit sessions for which it does, the
violation runs show where it fails, and the sections below say why.

### BlockQueues

`shown` is what the calls made of each sheet; `patcher` has the queues of
`XlsxPatcher` for validations, conditional formats, links, tables, table growth,
notes and threads, the `ancillary` registry, the relationship graphs and the
added and deleted parts; `source` and `written` are packages: sheets with their
blocks, relationships, the parts of four kinds by number, differential formats
and content types. `Save` runs the phases of `do_save` that touch them, in its
order, as functions of a workspace.

`SavesHoldTheBlocks` asks that a package has on each sheet what the calls made
of it, each block once; `BlocksAreWired` that every relationship has its part
and every part its relationship and content type, and that ids are unique.

No save empties the queues of validations, formats, links, tables, growth,
notes, threads and persons (they go when the sheet is deleted, and move when it
is renamed); those of images and charts are drained. That is right for saves to
other paths. **In place it holds only for what is merged by cell**, which is how
the sessions are cut. Outside them the model shows, by changing `MCSessions`:

- a second save in place adds validations and conditional formats again,
  refuses the tables it added itself ("Table with name ... already exists",
  although `_workbook_save.py:52` says that such workbooks remain re-savable)
  and refuses grown tables;
- `ancillary` is never reset: after a save in place that added the first note
  of a sheet, later notes go to a part nobody refers to, and after one that
  deleted the last note every later save in place fails on the missing part;
- part numbers are seeded from the source alone: a note on the second sheet, a
  save elsewhere, then a note on the first give two sheets one notes part (and
  likewise threads); the last note deleted, a save elsewhere, then a new note
  deletes the part that the relationship names;
- threads write placeholders among the notes only where no note is queued
  (`patcher_sheet_blocks.rs:516`): a note deleted and a thread set on its cell
  leave the thread without one; a thread replaced after a save keeps the first's;
  a thread deleted after a save leaves its placeholder;
- a thread may be set on a cell that has a *loaded* note, and replaces it,
  though `_cell.py:698-699` speaks of any note, and `threaded_comment = None` on
  a cell with only a note deletes the note;
- validations, formats, links or notes on a created or copied sheet that the
  source does not have yet make the save fail (`mod.rs:2283-2286` says that
  cloned sheets are visible to the phases).

The content-type override of a deleted notes part stays, a link with a target
and a location loses its location, relationships of replaced links stay. Table
names are checked across sheets by `ws.add_table` alone. Not in it: persons,
images, charts, pivots, sheet setup, page breaks, filters, cell patches, and
copies, renames and deletions of sheets with these queues.

### EditSession

A package is a function from part names to contents. `original`, `changed`,
`removed` and `sheets` are the fields of `EditSession`; a worksheet is one
column of cells whose formulas are one reference, with the identity of the row
that was meant as a ghost. One action per public edit, `Save` and `Open`; an
edit that is refused or changes nothing is no step. `Reopens` says that the four
collections agree: what a save writes is a package that a new session opens,
with the same sheets; `PackageClosed` that no relationship or content type names
a part that is gone; `RefsFollowRows`, `IndexesFollowSheets`, `StylesKept` and
`ResultsRecalculated` follow rows, scoped names and tabs, formats and cached
results through the edits.

Not in it: other columns (column edits mirror row edits), row styles, tables,
`firstSheet`, names without a sheet whose scope comes after a chart sheet,
ranges (`Shifts`), several cells in one call, packages with an orphan part that
differs from a new sheet's part only in case. A package whose part is called
`Sheet1.xml` can never have a sheet added: the session `Bare` explores that
refusal. Renames are left out where a sheet lies outside `xl/worksheets/`.

### PeekGrid

`view` is the grid of `app.rs` (the order of rows, the cursor, the scrolling),
`parked` those of the sheets visited before, `matches` the cells found. Each key
in each mode is an action; the screen is drawn, at any size, between keys. Its
properties: the cursor stays on the screen, the matches are those of the order
shown, and a sheet is as it was left. Left out: wording and the counts of the
frequency view.

### Shifts, RangeMoves, SheetPatch, SheetCopy and Rewrites

Pure functions of `wolfxl-structural`, `wolfxl-formula`, `sheet_patcher.rs` and
`wolfxl-rels`, as operators. A behaviour of `Rewrites` is one call of one of
them: `given` is its input, `result` what the code makes of it. The properties
compare the results with one reference definition of where a cell has gone:

- `RefsFollowCells`: references and ranges, with their ends in either order,
  name the cells they named, less the deleted ones;
- `AnchorsFollowCells`: merges, validations, links and spans of columns cover
  the cells they covered;
- `PartsFollowTheSheet`: notes, shapes and tables agree with the cells;
- `MovesCarryTheirCells`: a moved rectangle replaces what was there, and
  formulas in and outside it point at the same cells;
- `PatchKeepsTheSheet`: a patched sheet has the patches, and everything else it
  had, in rows in order, within its declared dimension;
- `CopiesLookAlike`: a copied sheet refers to parts that look like the
  original's, and nothing that was there changes.

`MarkedRefsStay` is what `range_move.rs:11-12` and `656-660` say of references
with a `$`: they do not shift. The code moves them with the rectangle if they point
into it (`translate.rs:302-318` does not look at the marks), and `MovesPinned` shows
it; `MovesCarryTheirCells` holds for the code, marks or none. The first half of that
sentence, that relative references shift, is true of those into the rectangle only,
as a test beside it says (`range_move.rs:1056-1058`).

Known differences, left out of the properties: a whole row or column reference
of which a part is deleted is not clipped (`translate.rs:584`); a table whose
first remaining row moved up into deleted rows above it is marked headerless
(`shift_workbook.rs:195`); `apply_workbook_shift` rewrites the sheet of the
operation and no other; the cells that a patch adds to a row come behind those
that are there, though `sheet_patcher.rs:88-89` promises their sorted position;
rows without a number count as row 0 in the general path and get their cells
twice; a row without spans gets the span of its patches alone. A copied
drawing's relationships are renumbered in file order and only the charts' ids in
its XML follow, so a picture with a higher id changes its picture (`InOrder`
leaves such drawings out). A copied table's id is its part's number, which may
be another table's id where ids are not part numbers (`sheet_copy.rs:1160-1163`
says that it is unique). A copy of a copied sheet saved elsewhere has no
relationships. One save applies one shift of an axis after the other; their
order is not modelled. Left out of the copies: slicers, timelines, control
shapes, the workbook's entries, relationships of tables.

### FormulaResults

A cell is a title and a row and holds a number, a boolean or a formula that
copies or adds cells. `evaluator` is the cached evaluator with its graph and
values, `calculated` the inputs and results remembered for the next save.
`SavedResultsAreCurrent`: a result that a save writes beside a formula is the
value it has in the workbook written. `RecalculationIsFull`: a what-if gives
every formula it reaches the value that a full evaluation would.

Left out: renames in modify mode, saves in place with pending row insertions,
insertions in write mode, names, the date system, the tolerance of comparisons,
`max_depth`, cells that a function finds when it runs (OFFSET), the fallback to
the `formulas` library. `TRUE` and 1 are one value to the comparison of inputs
(`_formula_cache.py:118`; `_workbook.py:1506-1509` tells them apart), so that
change keeps its results. Perturbations add up: each recalculation starts from
what the one before left, on the evaluator of before the edits.

### NativeRows and EagerSheet

`ws` is the Python worksheet: `cells` with their value, format and two dirty
flags (`vd`, `fd`), `values` (`_dirty_values`), `dirty`, `formats`
(`_format_dirty_cells`), the append `buffer` with its first row, the queued
grids (`bulk`), the next row to append at and `fast`
(`_plain_cell_fast_path`). `native` is the writer's sheet (`NativeRows`): dense
segments, and a sparse map over them. `patches` are the patcher's queues, `base`
the cells of the file that it and the reader have. A value is a kind and the
call that gave it: plain values go to the native writer in grids, dates one by
one, and dates with a time zone are refused. A format is the font that a call
gave or the number format that a date brings.

The calls fill, set, clear, touch and style cells, append rows, queue grids with
or without styles, delete a cell, and, in write mode, insert and delete rows.
`SaveWritten` is the flush to the native writer: appended rows, grids, plain
values by the planned grids, single values in any order, formats; a refused
value ends it anywhere among the single ones. `SavePatched` turns everything
into cells and queues values and formats by coordinate; the save is one back to
the loaded path. `want` is what the calls asked for, `book` what the last save
wrote.

`SavesTheLastWrites`: a save that returns, after any calls and any saves that
failed, has every cell as its last call gave it, with the format, once and in
order. `RecordsForetellTheSave`: the records of an edited, loaded sheet show
what a save would write. `unsure` has the coordinates for which the code does
otherwise, and each way into it is a difference found:

- a cell and a queued grid at one place: in write mode grids are flushed before
  cells and after appended rows, whatever came first, in modify mode after both;
  an appended row may overlap a queued grid, because `write_rows` does not move
  the next row (`_worksheet_write_buffers.py:70-87`);
- an empty value erases nothing in a grid: a cleared cell keeps the value that
  was saved or queued before (`native_writer_cells.rs:220`), while an empty value
  of a styled grid erases what was there;
- `del ws["A1"]` leaves the plain value in `_dirty_values`, and it is saved
  (`_worksheet.py:1160-1165`);
- rows inserted or deleted after a save move Python's cells alone; the native
  writer's stay (`_worksheet_structural.py:213-236`);
- a shift makes every cell value-dirty, and one that was only touched or styled
  is written as the text `<UNSET>`;
- a value set after a save loses the saved format of its cell, and a style laid
  over a date of a queued row its number format;
- a refused date: the save has replaced the dates of the queued rows by nothing
  before it is refused (`_worksheet_write_buffers.py:251`), and the retry returns
  without them, though `_workbook_save.py:103-105` calls the state re-tryable;
- the records show empty values of queued rows over loaded ones, which a save
  skips.

Met outside these: `materialize_append_buffer` empties the buffer before its
loop, so an illegal character loses the rows behind it; a cell set, saved,
overwritten by a grid, saved and styled is written with its first value; after a
save to another path records forget the edits, while the patcher keeps its queue
of values for every later save.

Not in them: array formulas, rich text, merged cells, borders, columns, row
heights, spills, range moves, shifts of loaded sheets (`SheetQueue`), and the
width and the limits of coordinates.

### StreamWriter, StreamReader and Streams

A write-only sheet is two halves that find each other by the sheet's name:
`title`, `counter` and `closed` of the Python object, `name` and `spool` of the
native writer. A spool has the rows encoded, how many of them are on disk,
whether a piece of one is, and its own counts, from which the declared dimension
is made. Appending may flush, or fail in the middle of a row; a save flushes
every spool, splices them into the package and closes the sheets. A reading is
`request` (values, cells or chunks, with bounds), `reader` (the rows still to
come, the last number, whether the scanner still reads) and `consumer` (what was
yielded, what waits, the next row number). `Streams` reads the sheets that were
written and sheets of other writers: rows and cells that do not say where they
are, gaps, rows that the scanner cannot read, wrong dimensions. It also reads the
sheet that a written workbook was saved to, with the dimension of its cells. A
behaviour is of one workbook, by its `mode`: write-only, written or loaded.

Differences found, which the properties leave out: a refused row (a value the
writer does not take, a failed write) keeps its number but is not counted, so
the declared dimension is one short and a reading that trusts it loses the last
row (`dimension.rs:7` says "populated-cell bounds"); a title that the native
writer refuses stays with the Python sheet, whose rows are refused from then on,
or go to another sheet that takes the old name; after a save that told of a
failed flush a retry returns and publishes a torn or short sheet; a sheet closed
before the save makes the save raise when the package is there already; cells
out of order in their row are dropped by the reading of values and returned by
the reading of cells; a chunk that meets an error loses the rows it had read.
`column_dimensions`, `row_dimensions` and print titles of write-only sheets are
never written, and styles are cached by the `id()` of objects that may be gone.

Not in them: the writer without a native backend, freeze panes and print areas,
styles, moves and removals of write-only sheets, encryption; shared strings,
dates, formula output, merged ranges in the cell bounds, forced dimensions, a
row numbered 0, and the choice of streaming for large sheets.

## Runs

Every instance is the smallest in which its cases happen.

- *MCP*: one server, any other program, three contents of sizes around
  `HISTORY_BYTES` and two history entries, so that trimming by count and by
  bytes both happen. That the invariants hold for any number of servers is
  proved.
- *SaveFiles*: two paths, which may be links of one file, one or two workbooks,
  two saves of each (one where there are two workbooks), one change by another
  program. A source that changes under a workbook needs one save by somebody
  else; an edit that a save loses needs two saves, the first failed or to
  another path; a mapped file that gets a second name needs one outside change.
- *SheetQueue*: six kinds of sessions over two or three loaded sheets, at most
  four calls and three saves in any order. A queue that outlives a save needs
  one call and two saves, a chain of renames two calls, a position error three
  tabs, a reused part number two creations around a save.
- *BlockQueues*: two loaded sheets and a new one, two cells, a bare package and
  one with a block of each kind, at most three calls and three saves: one save
  of everything without threads; notes and threads with one save in place; up to
  three saves elsewhere with failures; links, and links with notes, in place; a
  created sheet with tables.
- *EditSession*: three packages (with a chart sheet between worksheets, with one
  sheet, with parts in odd places), at most three edits.
- *PeekGrid*: a sheet of three rows and two columns, a narrow one, one that
  cannot be loaded; two screens.
- *Rewrites*: four rows and three columns, shifts by one and two, every
  reference with its ends in either order; moves of up to three cells over five
  places; patches over two rows; packages of two sheets, one or two copies.
- *FormulaResults*: two sheets, three rows, a chain of three formulas, five
  calls.
- *Streams*: two sheets, four kinds of rows, four calls, one failed write;
  readings of sheets of up to three rows with chunks of one and two rows and a
  budget of four cells, so that chunks are cut by both. Beside them one worksheet
  of at most three calls with saves after any of them: two coordinates, three
  kinds of rows and of grids that overlap them, a loaded file of two cells; and
  every set of six cells, so that the planner meets every pattern. A grid that
  must not become dense needs two calls, one that a style or a retry follows
  three.

Sessions end, so deadlock is checked for the MCP server alone.

| Run | Shows |
| --- | --- |
| `McpHistory` | one server against any writer, with failures and restarts: `TypeOK`, `HistoryBounded`, `UndoWithinBudget`, `RestoreIsOfTheHistory`, `ReplacesWhatItRead`, `GuardHonoured`, `Answered`, `UndoRedoIsLinear` |
| `SavesWhole` | `PathsHoldWhole`, `KeepsItsSource`, `BufferFollowsSave`, `SavesWhatIsShown` for five kinds of sessions: (1) saves back with failing steps; (2) saves back of a pivot layout without failures; (3) saves to two paths of cells and merges, with failures; (4) a read workbook saved unedited and promoted between; (5) two workbooks of one file that save concurrently |
| `Sheets` | every call, save and failure: `NeverCollides`; in-place saves whose additions reach the source: `OnePartEach`; without copies: `NothingRefused`; `WritesWhatIsShown` for the sessions of `OneQueue`: (1) create, retitle, remove with in-place saves; (2) move, insert rows and (3) rename, move, with copy saves and failed saves; (4) copy, rename and one in-place save |
| `SheetsShiftTwice` | violation of `ResavedUnchanged`: a row insertion is applied again by the second in-place save |
| `BlockQueues` | `SavesHoldTheBlocks`, `BlocksAreWired` |
| `EditSession` | `Reopens`, `PackageClosed`, `RefsFollowRows`, `ResultsRecalculated`, `IndexesFollowSheets`, `StylesKept` |
| `PeekGrid` | `CursorVisible`, `SearchFindsAll`, `SheetsRemembered` |
| `Rewrites` | `RefsFollowCells`, `AnchorsFollowCells`, `PartsFollowTheSheet`, `MovesCarryTheirCells`, `PatchKeepsTheSheet`, `CopiesLookAlike` |
| `ShiftNames` | violation of `OtherSheetsKeepTheirNames`: a name of the workbook that refers to another sheet is shifted with this one's rows |
| `MovesPinned` | violation of `MarkedRefsStay`: a reference with a `$` goes with the rectangle that it points into |
| `FormulaResults` | `SavedResultsAreCurrent`, `RecalculationIsFull` |
| `Streams` | `SavesHoldTheRows`, `ReadsWhatIsThere`, `WrittenIsReadBack`, `SavesTheLastWrites`, `RecordsForetellTheSave` |

The queues for moves, renames and shifts are never emptied and the queues for
creations, deletions and copies are emptied by the phase that reads them. The
first is right for saves to another path, which start from the unchanged source
(and `tests/test_cached_values.py` asserts it), and wrong after a save in
place; the second is right after a save in place and wrong after the others.
The sessions of `OneQueue` take each on its good side. On the other side the
model also shows, by changing `Sessions`: a chain of renames A to X to Y saved as
X; a move made before a creation applied after it; a move applied twice by two
in-place saves; a retry of a failed save, or a second copy save, without the
sheet created before the first; a copy taken after a row insertion that has the
rows of before; a row insertion dropped when its sheet is renamed before the
save; a save refused because the source of a pending copy was renamed; a copy
that cannot be planned, which ends the save after the deletions and creations
were drained and stays queued; a copy that is written though `remove()` raised.

The same two rules meet in `SaveFiles`. `SavesWhatIsShown` holds for cells and
merges wherever a workbook is saved, because the patcher and the replay keep
them. It fails, as the model shows with other `Sessions`, for properties and
layouts that are saved to one path and then to another: their flag is cleared by
the first save, and the second starts from the private copy without them; and
for a layout whose step fails: the flag is cleared before the step, and the
retry has nothing left to write. `KeepsItsSource` is not claimed when two
workbooks map a file and one of them, unedited, is saved over a path of it that
the other still maps: `save_read_mode` opens that path for writing unless its
own map is that file.

In `McpFiles` redo snapshots are bounded by their number and not by bytes
(`trim` looks at undo alone), and `get_workbook` and `read_range` may report the
revision of other content than they describe, when somebody writes between their
two reads.

`OnePartEach` is stated for sessions in which every addition reaches the source:
the part numbers of a save are seeded from the source, so a sheet created after a
copy save, a failed save, or a save that was refused after it had drained the
creations (it could not plan the copy of a sheet that was renamed) can be given
the part of a sheet that an earlier save created.

Every property of a passing run is shown to fail when a plausible bug is put in
the model (`mutants` in `PROJECT.json`; the faulty operators stand before the
definitions they replace).

## Fairness

`McpFiles` has weak fairness on each server's own steps (`Work`): a request that
was read runs to its reply without waiting for anyone (`mcp/mod.rs:67-82`), and
every read or write returns or fails. Reading a request, restarting and other
programs have none. The other modules have
safety properties only: they are driven by calls, keys or readers, and a user
may stop at any time.

## Proofs

TLAPS checks every theorem below for all values of the constants, under the
named `ASSUME`s of the modules, which TLC evaluates in the runs. They say that a
constant is of its type (sets of packages, sheets, sessions; `HISTORY_ENTRIES`
and `HISTORY_BYTES` are numbers) and nothing about how large it is. Two say
more: `TitlesAssumption`, that no title is one of the two words the model uses
for the content of a new sheet and for no sheet, and `SessionsAssumption`, that
editing sessions start from packages that are `WellFormed` and `Styled` (below).
`Shifts` and `Rewrites` say what the inputs of the rewritings are: a sheet has
more than one row and column, a shift is by some rows or columns but not by
none, the ends of references are on the sheet (in either order), spans of
columns are in order and apart, boxes and tables are not inside out and a table
has one name per column, a rectangle and where it goes are on the sheet
(`move_range` checks), and of the cells of a grid no two are at one place and a
formula reads at most one cell. A sheet that is patched has its rows in order, one
cell per column at most, its cells in the spans of their rows and in the rectangle
it declares, and styled columns apart; its row elements may lack their index
(`SheetsAssumption`), and a patch is of a cell of the sheet (`PatchesAssumption`).

| Theorem | Property | For |
| --- | --- | --- |
| `McpFilesProofs!TypeCorrect`, `HistoryStaysBounded`, `NoUnracedLostUpdate`, `GuardsAreHonoured`, `RestoresComeFromHistory` | `TypeOK`, `HistoryBounded`, `ReplacesWhatItRead`, `GuardHonoured`, `RestoreIsOfTheHistory` | any servers, contents, limits and writers |
| `McpFilesProofs!UndoStaysWithinBudget` | `UndoWithinBudget` | the same |
| `McpFilesProofs!UndoRedoRefines` | `UndoRedoIsLinear` | the same; a raced rename is excepted, as the property says |
| `SheetQueueProofs!PartsNeverCollide` | `NeverCollides` | any sheets and sessions |
| `SheetQueueProofs!NothingIsRefused` | `NothingRefused` | any sheets; sessions without copies, as the property says |
| `SheetQueueProofs!EachSheetHasItsPart` | `OnePartEach` | any sheets; sessions whose additions reach the source, as the property says |
| `SaveFilesProofs!TypeCorrect`, `BufferAgreesWithCopy` | `BufferFollowsSave` | any workbooks, paths and sessions |
| `SaveFilesProofs!SourcesAreKept` | `KeepsItsSource` | sessions with `NoTruncation` |
| `SaveFilesProofs!PathsAreWhole` | `PathsHoldWhole` | `NoTruncation` and `FlagsKept` |
| `SaveFilesProofs!SavesAreComplete` | `SavesWhatIsShown` | `FlagsKept`, and `Alone` or `AllBack` |
| `PeekGridProofs!CursorStaysVisible`, `SearchesFindAll`, `SheetsAreRemembered` | `CursorVisible`, `SearchFindsAll`, `SheetsRemembered` | any sheets and screens |
| `EditSessionProofs!PackageStaysWhole`, `SavesReopen`, `PackageStaysClosed`, `EditsAreRecalculated` | the inductive invariant, `Reopens`, `PackageClosed`, `ResultsRecalculated` | any well-formed packages, edits and numbers of rows |
| `EditSessionProofs!AddedSheetsMoveIndexes`, `FormatsKeepOtherStyles` | `IndexesFollowSheets`, `StylesKept` | the same |
| `EditSessionProofs!ReferencesFollow` | `RefsFollowRows` | the same, where the edits reach every formula (`Reached`) |
| `RewritesProofs!FormulasFollowCells`, `AnchorsFollowTheirCells` | `RefsFollowCells`, `AnchorsFollowCells` | sheets of any size, any shift, reference and spans |
| `RewritesProofs!PartsFollow` | `PartsFollowTheSheet` | the same, any note, shape and table |
| `RewritesProofs!MovesCarryCells` | `MovesCarryTheirCells` | any rectangle, offset, cells and anchors |
| `RewritesProofs!PatchesKeepTheSheet` | `PatchKeepsTheSheet` | any sheet and list of patches |

### McpFilesProofs

None of the invariants is inductive alone. The inductive invariant is the
conjunction of `TypeOK`; `Busy` (a server past `reading` has a job, which is no
dry run once it is checked); `RestoreIsOfTheHistory` (a restore's bytes are the
top of its stack and it starts from the history's revision); `HistoryBounded`;
`ReplacesWhatItRead`; and that a job's guard is its base. `HistoryBounded`
needs `RestoreIsOfTheHistory`, because a restore may push without trimming only
when it pops from the other stack. `GuardHonoured` is `ReplacesWhatItRead` for
the base that the guard was compared with.

`UndoRedoRefines`: the initial state and every step of `McpFiles`, but a raced
rename, map to `UndoFile`. The argument follows the rename: at `staged` the
file equals the job's base, by `ReplacesWhatItRead` when nobody raced, so the
cursor of the log stands on the file; the rename is the abstract edit or move;
`Record` maps to a stutter because the mapping already counts the history of a
renamed job as updated. That `Trim` only drops a prefix, never the newest
snapshot, is a lemma; `UndoStaysWithinBudget` is the same lemma with the sum of
the sizes in it.

### FoldInduction

The sums, searches, sorts and walks of the models are folds (`FoldLeft`,
`MapThenFoldSet`), and what a fold computes for every input needs an induction
that the library states with an operator as parameter, which no prover here can
instantiate. `FoldInduction` has that operator as a CONSTANT instead: a module
that wants to know something of one fold takes an instance of it, with the
step, the start and the statement `Good` about a prefix, and cites `FoldKeeps`, or
`FoldGrows` where the statement is of how many elements the fold has seen.
What `SelectSeq`, `SortSeq` and recursive functions compute stays out of reach;
where the order of a sort matters it is written as a fold of insertions
(`PeekGrid!Ordered`).

`SequenceLemmas` has what these proofs share: how `InsertAt` and `RemoveAt` move
the other elements, that the `Max` of a finite set or of a function's values is
one of them and bounds the rest, and that a set of numbers has one increasing
enumeration, which says what a filter leaves of a sequence before and after one
more element is put into it.

### SheetQueueProofs

A save is one step of some ten phases, each a fold over a queue, so there is one
lemma per step of a fold and one per phase, with the workspace as its variable.
`PartsApart` is the invariant for `NeverCollides`: parts in `adds` are not in
`source`, and every workspace between two phases keeps it, since the allocator
starts above all of the source's parts; a save in place moves `adds` into the
source and empties it in one step, the others leave both. For `NothingRefused` it
is `Known`: without copies, the titles that the patcher knows (loaded, or queued
as creations) are the tabs shown, and every queued deletion, rename, move and
shift is of one of them, so that each phase finds what it looks up.

`OnePartEach` is not inductive: two sheets are apart after a save only if the parts
given out were nobody's, and a part that was given out twice is safe only if the
first one never reached the source. The invariant `EachOwns` says, in the sessions
whose additions reach the source, that the sheets which are not only queued have
parts of the source, each its own, and none of a deleted title (`Keeps`, with no
addition or deletion left over from a save); that a copy stays queued with the
patcher only while the first one is refused again (`Blocked`); and, in sessions with
copies, that the patcher's titles are those of the `<sheet>` list without the deleted
ones and with the queue of creations, each at a position (`CopiesKnown`). Inside a
save, `Hands` says that the next part number is above every part there is or that
waits, and that no part of a sheet is deleted; each phase keeps it, and `Settled`
holds after the creations. So such a save succeeds once its copies are planned, its
additions are the source's afterwards, and `Keeps` holds again. Where `Retitle` could
leave the patcher was the step that did not go through at first: the model then let a
refused call on an unknown title empty the patcher, which `queue_sheet_delete` does
not do (`mod.rs:1258-1262`).

### SaveFilesProofs

`Shape` is the type invariant with what each step of a save says of its workbook.
`Fresh` and `SourceApart` say who refers to a file: a file that a save renames
into place is referred to by nobody else, and a file that a workbook maps has no
path through which anyone writes. A rename gives a path a new file, so the only
step that changes a file is the truncation of a read workbook's destination.
Hence `NoTruncation`: no unedited saves, or one workbook alone, which looks at
its own map before (`maps_file`). Without it `KeepsItsSource` is false.

`Accounted` relates what a workbook shows to what its files hold: every edit
shown is in the private copy, or in the file that the save in progress wrote
last, or is still owed (`Owes`: queued in the patcher, or to be replayed by a
step that is still to come). Its hypothesis is `FlagsKept`: edits of the layout
and of properties are saved back, and layouts without failing steps, because
their flags are cleared by a save that leaves the edit out of the source. TLC finds
the lost edit otherwise (below the table of runs). From `Accounted` at the last
step follows `PathsHoldWhole`, for paths that are written by saves back alone.
`Carries` says the same of the file that is being written, for `SavesWhatIsShown`:
it needs that no other workbook writes between two steps of a save (`Alone`), or
that everyone saves back, where intermediate steps go to the private copy
(`AllBack`). The sessions of `SavesWhole` satisfy all these hypotheses.

### PeekGridProofs

The invariant is `Shown` (the cursor is in the grid and on the screen, the order
is a permutation of the rows), `Searched` (the matches are those of the present
sheet, order and query) and `Parked` (a parked sheet was left with a cursor and an
order of its own rows). `SearchFindsAll` is three facts about `Matches`: by
induction over rows and columns it has the cells that hold the query and no
others, in order; `NextMatch` is the successor in that sequence, and
`PreviousMatch` its inverse; and a set of matches that is closed under
`NextMatch` is empty or all of them. That a sort keeps every row is an induction
over insertions.

### EditSessionProofs

`View` is the package that a session shows: its own parts laid over the original
ones, without the removed. The inductive invariant `IInv` says of the view and
of the file that each is `Shown`: the package is `WellFormed` and `Styled`, the
list of worksheets is the one its workbook gives, each worksheet has the
identities of its rows, and if cells were edited and there are formulas, nothing
of the calculation chain is left. It also says that only the chain is ever
removed and that a session that is not dirty shows what was read.

`WellFormed` is what `from_bytes` accepts (`Opens`) and what the edits go on to
rely on: parts are of the kind their name says (`PartsTyped`), the active tab and
the scopes of names are in range (`Indexed`), links and content types are of
parts that are there, with the chain linked and typed as one (`Linked`), and the
document properties list the worksheets (`Listed`). `Styled` says that every style
is a cell format of the styles part and that ids of number formats differ. The
theorems say that edits keep all of this, from any package that has it. A
package that lacks it, say one with a link to a part that is missing, is opened
by the code and keeps its defect; that is not `PackageClosed`, and
`SessionsAssumption` leaves such packages out. TLC checks the assumption for the
packages of the run.

The first half has one lemma per kind of edit about packages alone: parts
rewritten in place, a recalculation, a rename, one more worksheet, a restyled
sheet. The hard one is one more worksheet: the list of worksheets is a filter of
the entries by their links, chart sheets stand between them, and the new entry is
put before the entry of the worksheet at the position, so the filter of the longer
sequence has the new sheet exactly there (`SheetsWithOneMore`); the new id, link
and path are new because each is above, or is looked for among, all that are there.
The second half shows that each action makes one of these edits on the view
(`WriteCellKeeps`, `AxisShiftKeeps`, `RenameKeeps`, `AddSheetKeeps`,
`SetNumberFormatKeeps`). For `StylesKept` it is the fold over the rows (`VisitAll`):
whatever styles were visited, each has a target that looks like it with the new
number format, and appending to the tables changes no index of the others; that no
other worksheet changes its look needs that ids of number formats stay different,
which is why the new id is above those that cell formats use as well.

`ReferencesFollow` is the theorem about `RefsFollowRows`, under `RefsInv`. The
identities of the rows are ghosts, so `Places` says that they are sound: no
identity is on two rows, and each was made by an edit that has been, so that the
next edit makes new ones. `Keeps` says of one reference that its row has the
identity that was meant, or, when it points at no row any more, that no row has that
identity (`Lost`) and none will. `Refers` says it of every cell, chart and name of a
package, for the view and for the file; an edit moves identities and references
by the same plan (`IdsFollow`, `ShiftedRefKeeps`, `RenamedRefKeeps`), and a save or a
new session exchanges view and file. Its hypothesis is `Reached`, what the edits
of the code reach: the code rewrites formulas only in parts under
`xl/worksheets/`, so that a session that renames has no worksheet elsewhere, and it looks
up the sheet of a name's scope among the worksheets alone, so that a name that
refers without a sheet has no chart sheet before its own (`Scoped`, which the edits
keep). Every session of the run satisfies it: TLC evaluates `SessionsReached`.

### RewritesProofs

A behaviour of `Rewrites` is one call, so these invariants need no strengthening;
their proofs are about the operators. A plan is three numbers of its axis: the first
row or column that moves (`From`), where one goes (`After`), and which of them stay
on the sheet (`Stays`). Each rewriting of the code counts in its own way, so each
has a lemma that says it in these numbers.

- *References and anchors.* The code clips the ends of a range that are in the
  deleted band and shifts the others, whichever end is the lower one. `GoodPairs`
  says of the two new ends of an axis that what lies between them is where the old
  lines between the old ends have gone; `ClippedPair`, `ShiftAnchorNews`,
  `TranslateRangePairs` and `TranslateSpanPairs` show it for each of the code's
  computations, and `GoodNewsFollow` concludes `Follows` for the two axes together.
- *Spans of columns.* A span becomes no, one or two pieces: `SplitSpanPieces`. The
  list of pieces is a fold, whose `Good` is that the pieces made so far are apart,
  stay below the next span, and give each column the attributes of the column that
  has come there (`SplitStep`).
- *Moves.* The cells that a move leaves are those that are not overwritten, moved
  to where they belong; that no two of them get to one place (`MovedApart`) is what
  makes the label at a reference's new target the label of the old one, also when
  the rectangle overlaps its destination.
- *Notes and tables.* Markers count from zero and lie between cells (`MarkerIs`). A
  table loses the names of its deleted columns by a fold (`KeptColumns`) that counts
  how many of the first columns are gone (`Gone`), and its range is clipped by
  another computation; `DeletedFollow` shows that both agree on the column a name is
  over. An insertion puts new names after the columns before it, each above all
  that there are (`TopIsAbove`, `ColumnsWidened`).
- *Patches.* `Ascending` is an enumeration by rank (`AscendingEnumerates`). A row
  that is written follows a row that was there, or an empty one (`RowFollows`):
  its cells are what the old row showed in their columns, patched, the columns
  with a cell are the old ones and the patched ones, and its span holds them
  (`RewrittenRowFollows`, `NewRowFollows`, `SplicedRow` of the other patcher). The
  fold over the row elements keeps that what is written is in order and has the
  rows read so far and the patched ones below the last of them (`Walked`,
  `NextRowWalks`), so that nothing is left out or written twice when the rest is
  added at the end. Both patchers end in one predicate, `Patchwork`, of which
  `PatchworkKeeps` shows what a reader sees, who takes the style of a missing cell
  from its row or column.

The proofs showed three things that the instances of TLC had not: a range that covers
the whole sheet is clipped to nothing only if no cell is left at all, so `Follows`
asks for a remaining cell; a whole row or column never moves with a rectangle,
even when a sheet is so small that the rectangle has all of its cells; and on a
sheet of one row some of these laws say something else, so `MaxAssumption` asks for
two. The assumption that a formula reads at most one cell keeps `MovesCarryTheirCells`
a statement about single references; several are translated one by one by the code.

### Model-checked only

`Answered` is liveness under fairness, and ENABLED is beyond the provers.
`WritesWhatIsShown` (`SheetQueue`), `CopiesLookAlike` (`Rewrites`) and the
properties of `BlockQueues`, `FormulaResults`, `Streams` and `EagerSheet` are
checked by TLC alone; several of their operators are recursive or filter
sequences.

## Not modelled, and the plan

1. Proofs: `WritesWhatIsShown` of `SheetQueue`, `SavesHoldTheRows` of `StreamWriter`.
2. *`SaveFiles`*: what a loss of power leaves of writes that were not synced;
   write mode.
3. *`BlockQueues`*: images, charts, pivots and persons; the queues under copies,
   renames and deletions of sheets, joined with `SheetQueue`.
4. *Load limits*: budgets charged while a package is admitted.

Format parsing and emission, formula functions, styles and layout stay out: they
convert data and have no states to explore.
