----------------------------- MODULE BlockQueues -----------------------------
(***************************************************************************)
(* What a worksheet holds beside its cells, in a workbook opened with      *)
(* modify=True: validations, conditional formats, links, tables, notes and *)
(* threads.                                                                *)
(*                                                                         *)
(* The calls queue patches by sheet (src/wolfxl/mod.rs); each save runs    *)
(* the phases of src/wolfxl/patcher_sheet_blocks.rs over the queues and    *)
(* the source package.  A save empties none of these queues: a save to     *)
(* another path starts over from the unchanged source, a save in place     *)
(* starts from a source that has the patches already.                      *)
(*                                                                         *)
(* A package is its worksheets, their relationships, the parts of four     *)
(* kinds by number, the differential formats of the styles and the content *)
(* types of parts.  Texts, addresses and ranges are numbers; a call gives  *)
(* a new one to what it makes.                                             *)
(***************************************************************************)
EXTENDS Integers, FiniteSets, SequencesExt, TLC

CONSTANTS Loaded,      \* the sheets of the loaded workbook, in order
          New,         \* the title of the sheet that can be created
          Cells,       \* bound: the cells that get links, notes and threads
          Packages,    \* the loaded packages
          Sessions     \* the kinds of sessions that are explored

PartKinds == {"table", "notes", "shapes", "threads"}
CallKinds == {"validate", "format", "link", "unlink", "table", "grow",
              "note", "unnote", "thread", "unthread", "create"}

ASSUME SheetsAssumption == /\ IsInjective(Loaded)
                           /\ New \notin ToSet(Loaded)
                           /\ Cells \subseteq Nat
ASSUME SessionsAssumption ==
  Sessions \subseteq
    [calls    : SUBSET CallKinds,      \* the calls it makes
     sheets   : SUBSET (ToSet(Loaded) \cup {New}),   \* the sheets they name
     packages : SUBSET Packages,       \* the packages it starts from
     saves    : SUBSET {"in_place", "elsewhere"},
     faults   : BOOLEAN,               \* a write may fail
     maxCalls : Nat,                   \* bound: calls
     maxSaves : Nat]                   \* bound: saves

VARIABLES session,   \* the kind of session that this is
          shown,     \* what the calls made of each sheet
          growable,  \* the names of the tables read from the loaded file, by sheet
          patcher,   \* the XlsxPatcher
          source,    \* the package it patches
          written,   \* the package last written
          outcome,   \* of the last step: "called", "saved", "failed", "refused"
          calls, saves   \* how many were made

vars == <<session, shown, growable, patcher, source, written, outcome, calls, saves>>

-----------------------------------------------------------------------------
Without(f, S) == [x \in DOMAIN f \ S |-> f[x]]
Highest(S) == Max({0} \cup S)

\* The relationships of a type, in the order of their ids.
RidsOf(rels, type) ==
  SetToSortSeq({r \in DOMAIN rels : rels[r].type = type}, <)

\* The part that the first relationship of a type names, 0 if there is none.
FirstPart(rels, type) ==
  LET rids == RidsOf(rels, type) IN IF rids = <<>> THEN 0 ELSE rels[rids[1]].target

EmptySheet == [rules |-> <<>>, formats |-> <<>>, links |-> <<>>, tables |-> <<>>,
               legacy |-> 0]

NoParts == [k \in PartKinds |-> <<>>]
NoSheetShown == [rules |-> <<>>, formats |-> <<>>, links |-> <<>>, tables |-> <<>>,
                 notes |-> <<>>, threads |-> <<>>]

\* A note is one of the user's or the placeholder of a thread.
Note(text) == <<"note", text>>
Placeholder(thread) == <<"tc", thread>>

\* What a reader finds on a sheet of the package.
View(package, s) ==
  LET sheet == package.sheets[s]
      rels  == package.rels[s]
      Target(rid) == IF rid \in DOMAIN rels THEN rels[rid].target ELSE 0
      Part(kind, n) == IF n \in DOMAIN package.parts[kind]
                       THEN package.parts[kind][n] ELSE <<>>
      Table(n) == IF n \in DOMAIN package.parts["table"]
                  THEN [name |-> package.parts["table"][n].name,
                        columns |-> package.parts["table"][n].columns]
                  ELSE [name |-> 0, columns |-> 0]
  IN [rules   |-> sheet.rules,
      formats |-> [i \in DOMAIN sheet.formats |-> package.dxfs[sheet.formats[i]]],
      links   |-> [c \in DOMAIN sheet.links |-> Target(sheet.links[c])],
      tables  |-> [i \in DOMAIN sheet.tables |-> Table(Target(sheet.tables[i]))],
      notes   |-> Part("notes", FirstPart(rels, "notes")),
      threads |-> Part("threads", FirstPart(rels, "threads"))]

\* A thread has a placeholder among the notes.
Expected(sheet) ==
  [sheet EXCEPT
     !.notes = [c \in DOMAIN sheet.notes \cup DOMAIN sheet.threads |->
                  IF c \in DOMAIN sheet.notes THEN sheet.notes[c]
                  ELSE Placeholder(sheet.threads[c])]]

\* The same, read back: what a loaded sheet shows its user.
Understood(view) ==
  [view EXCEPT !.notes = Without(@, DOMAIN view.threads)]

-----------------------------------------------------------------------------
Unread == [read |-> FALSE, notes |-> 0, shapes |-> 0]

OpenPatcher ==
  LET Sheets == ToSet(Loaded) \cup {New}
  IN [order |-> Loaded, creating |-> FALSE,
      rules |-> [s \in Sheets |-> <<>>], formats |-> [s \in Sheets |-> <<>>],
      links |-> [s \in Sheets |-> <<>>], tables  |-> [s \in Sheets |-> <<>>],
      growth |-> [s \in Sheets |-> <<>>],
      notes |-> [s \in Sheets |-> <<>>], threads |-> [s \in Sheets |-> <<>>],
      ancillary |-> [s \in Sheets |-> Unread],
      graphs |-> <<>>, newSheets |-> <<>>, adds |-> NoParts, dels |-> {}, types |-> {}]

\* In the queues of links, notes and threads this removes what the cell has.
Deleted == 0
DeletedNote == <<"deleted", 0>>

HasPendingWork(p) ==
  \/ p.creating
  \/ \E s \in DOMAIN p.rules :
       \/ p.rules[s] # <<>> \/ p.formats[s] # <<>> \/ p.links[s] # <<>>
       \/ p.tables[s] # <<>> \/ p.growth[s] # <<>>
       \/ p.notes[s] # <<>> \/ p.threads[s] # <<>>
  \/ p.graphs # <<>> \/ p.newSheets # <<>> \/ p.adds # NoParts
  \/ p.dels # {} \/ p.types # {}

-----------------------------------------------------------------------------
(* The phases of do_save, on a workspace w: the patcher, the blocks that
   replace those of a sheet, the source parts being replaced, the note parts
   still to be routed, the differential formats, the table inventory, the next
   free part numbers, and whether no phase has returned an error. *)
Workspace(p) ==
  [p |-> p, blocks |-> [s \in DOMAIN p.rules |-> <<>>],
   patches |-> NoParts, writes |-> NoParts, drops |-> {}, dxfs |-> source.dxfs,
   next |-> [k \in PartKinds |-> Highest(DOMAIN source.parts[k]) + 1],
   ok |-> TRUE]

Failed(w) == [w EXCEPT !.ok = FALSE]
WithBlock(w, s, name, block) == [w EXCEPT !.blocks[s] = (name :> block) @@ @]

\* Fault: each phase starts from the relationships of the source.
GraphOfSource(p, s) ==
  LET rels == IF s \in DOMAIN source.rels THEN source.rels[s] ELSE <<>>
  IN [rels |-> rels, next |-> Highest(DOMAIN rels) + 1]

\* rels_patches for a sheet, else the relationships of the source.
GraphOf(p, s) ==
  IF s \in DOMAIN p.graphs THEN p.graphs[s]
  ELSE LET rels == IF s \in DOMAIN source.rels THEN source.rels[s] ELSE <<>>
       IN [rels |-> rels, next |-> Highest(DOMAIN rels) + 1]

WithGraph(w, s, graph) == [w EXCEPT !.p.graphs = (s :> graph) @@ @]

AddRel(graph, type, target) ==
  [rels |-> (graph.next :> [type |-> type, target |-> target]) @@ graph.rels,
   next |-> graph.next + 1]

DropRels(graph, rids) == [graph EXCEPT !.rels = Without(@, rids)]

\* The blocks of a sheet are read from the source, never from the added parts.
InSource(s) == s \in DOMAIN source.sheets

CreatesPhase(w) ==
  IF w.p.creating
  THEN [w EXCEPT !.p.creating = FALSE, !.p.newSheets = (New :> EmptySheet) @@ @]
  ELSE w

DataValidationsPhase(w) ==
  LET One(acc, s) ==
        IF ~acc.ok \/ acc.p.rules[s] = <<>> THEN acc
        ELSE IF ~InSource(s) THEN Failed(acc)
        ELSE WithBlock(acc, s, "rules", source.sheets[s].rules \o acc.p.rules[s])
  IN FoldLeft(One, w, w.p.order)

\* One count of differential formats runs through all sheets (the code takes them
\* by title, which only changes their ids).
ConditionalFormattingPhase(w) ==
  LET One(acc, s) ==
        IF ~acc.ok \/ acc.p.formats[s] = <<>> THEN acc
        ELSE IF ~InSource(s) THEN Failed(acc)
        ELSE LET new == acc.p.formats[s]
                 ids == [i \in DOMAIN new |-> Len(acc.dxfs) + i]
             IN [WithBlock(acc, s, "formats", source.sheets[s].formats \o ids)
                   EXCEPT !.dxfs = @ \o new]
  IN FoldLeft(One, w, w.p.order)

\* The parts a sheet came with, looked up once.
Populated(w, s) ==
  LET rels == IF s \in DOMAIN source.rels THEN source.rels[s] ELSE <<>>
  IN IF w.p.ancillary[s].read THEN w
     ELSE [w EXCEPT !.p.ancillary[s] = [read   |-> TRUE,
                                        notes  |-> FirstPart(rels, "notes"),
                                        shapes |-> FirstPart(rels, "shapes")]]

\* The relationship of a link that is replaced or deleted goes; a new link
\* gets one, in the order of the cells.
BuildLinks(existing, ops, graph) ==
  LET set  == {c \in DOMAIN ops : ops[c] # Deleted}
      gone == {existing[c] : c \in DOMAIN ops \cap DOMAIN existing}
      rid  == [c \in set |-> graph.next + Cardinality({d \in set : d < c})]
      Add(g, c) == AddRel(g, "link", ops[c])
  IN [links |-> rid @@ Without(existing, DOMAIN ops),
      graph |-> DropRels(FoldLeft(Add, graph, SetToSortSeq(set, <)), gone)]

HyperlinksPhase(w) ==
  LET One(acc, s) ==
        IF ~acc.ok \/ acc.p.links[s] = <<>> THEN acc
        ELSE LET ready == WithGraph(Populated(acc, s), s, GraphOf(acc.p, s))
             IN IF ~InSource(s) THEN Failed(ready)
                ELSE LET built == BuildLinks(source.sheets[s].links, acc.p.links[s],
                                             GraphOf(acc.p, s))
                     IN WithBlock(WithGraph(ready, s, built.graph), s, "links", built.links)
  IN FoldLeft(One, w, w.p.order)

\* Fault: the ids are taken to have no gap.
LowestFreeCounted(ids) == Cardinality(ids) + 1

LowestFree(ids) == CHOOSE i \in 1..(Cardinality(ids) + 1) :
                     i \notin ids /\ \A j \in 1..(i - 1) : j \in ids

\* build_tables: the tables of one sheet, up to the first name that is taken.
BuildTables(b, patches) ==
  LET One(acc, patch) ==
        IF ~acc.ok \/ patch.name \in acc.names THEN [acc EXCEPT !.ok = FALSE]
        ELSE LET id == LowestFree(acc.ids)
             IN [ok    |-> TRUE,
                 ids   |-> acc.ids \cup {id},
                 names |-> acc.names \cup {patch.name},
                 next  |-> acc.next + 1,
                 graph |-> AddRel(acc.graph, "table", acc.next),
                 parts |-> (acc.next :> [name |-> patch.name, id |-> id,
                                         columns |-> patch.columns]) @@ acc.parts]
  IN FoldLeft(One, b, patches)

\* The inventory is of the source, and grows from sheet to sheet.
TablesPhase(w) ==
  LET there == source.parts["table"]
      One(acc, s) ==
        IF ~acc.w.ok \/ acc.w.p.tables[s] = <<>> THEN acc
        ELSE LET b == BuildTables([ok |-> TRUE, ids |-> acc.ids, names |-> acc.names,
                                   next |-> acc.w.next["table"],
                                   graph |-> GraphOf(acc.w.p, s), parts |-> <<>>],
                                  acc.w.p.tables[s])
                 kept == WithGraph(acc.w, s, b.graph)
             IN IF ~b.ok THEN [acc EXCEPT !.w = Failed(kept)]
                ELSE [ids |-> b.ids, names |-> b.names,
                      w |-> [WithBlock(kept, s, "tables", RidsOf(b.graph.rels, "table"))
                               EXCEPT !.next["table"] = b.next,
                                      !.p.adds["table"] = b.parts @@ @,
                                      !.p.types = @ \cup ({"table"} \X (DOMAIN b.parts))]]
  IN FoldLeft(One, [w |-> w, ids |-> {there[n].id : n \in DOMAIN there},
                    names |-> {there[n].name : n \in DOMAIN there}], w.p.order).w

\* The parts written by the phases for threads and notes are routed at the end.
WritePart(w, kind, n, content, isNew) ==
  [w EXCEPT !.writes[kind] = (n :> content) @@ @,
            !.p.types = IF isNew THEN @ \cup {<<kind, n>>} ELSE @]

DropPart(w, kind, n) == [w EXCEPT !.drops = @ \cup (IF n = 0 THEN {} ELSE {<<kind, n>>})]

\* The number of a part that a sheet has already, else the next one.
Numbered(w, kind, n) ==
  IF n # 0 THEN [n |-> n, w |-> w]
  ELSE [n |-> w.next[kind], w |-> [w EXCEPT !.next[kind] = @ + 1]]

WithRel(graph, type, n) ==
  IF RidsOf(graph.rels, type) = <<>> THEN AddRel(graph, type, n) ELSE graph

\* Sets replace and deletions drop what the cells have.
Merged(existing, ops, deleted) ==
  [c \in {d \in DOMAIN ops : ops[d] # deleted} |-> ops[c]] @@ Without(existing, DOMAIN ops)

\* Each thread queues a placeholder note, each deletion the deletion of one,
\* unless the cell has a note queued.
Placeholders(ops, notes) ==
  notes @@ [c \in DOMAIN ops |-> IF ops[c] = Deleted THEN DeletedNote
                                 ELSE Placeholder(ops[c])]

ThreadedCommentsPhase(w) ==
  LET One(acc, s) ==
        IF acc.p.threads[s] = <<>> THEN acc
        ELSE LET ops    == acc.p.threads[s]
                 graph  == GraphOf(acc.p, s)
                 old    == FirstPart(graph.rels, "threads")
                 there  == source.parts["threads"]
                 merged == Merged(IF old \in DOMAIN there THEN there[old] ELSE <<>>,
                                  ops, Deleted)
                 at     == Numbered(acc, "threads", old)
                 noted  == [at.w EXCEPT !.p.notes[s] = Placeholders(ops, @)]
             IN IF merged = <<>>
                THEN DropPart(WithGraph(noted, s, DropRels(graph,
                       ToSet(RidsOf(graph.rels, "threads")))), "threads", old)
                ELSE WritePart(WithGraph(noted, s, WithRel(graph, "threads", at.n)),
                               "threads", at.n, merged, old = 0)
  IN IF w.ok THEN FoldLeft(One, w, w.p.order) ELSE w

\* build_comments and what the phase does with its result, for one sheet: old
\* are the parts that the sheet came with, n the numbers to write to.  Shapes
\* that belong to no note are kept.
BuildNotes(w, s, old, n) ==
  LET graph  == GraphOf(w.p, s)
      notes  == IF old.notes = 0 THEN <<>> ELSE source.parts["notes"][old.notes]
      others == old.shapes # 0 /\ source.parts["shapes"][old.shapes].others
      merged == Merged(notes, w.p.notes[s], DeletedNote)
      shapes == [notes |-> DOMAIN merged, others |-> others]
      rids(type) == ToSet(RidsOf(graph.rels, type))
      emptied == DropRels(graph, rids("notes") \cup (IF others THEN {} ELSE rids("shapes")))
      filled  == WithRel(WithRel(graph, "notes", n.notes), "shapes", n.shapes)
      legacy(g) == LET r == RidsOf(g.rels, "shapes") IN IF r = <<>> THEN 0 ELSE r[1]
      Shaped(acc, g) == WithBlock(WithGraph(acc, s, g), s, "legacy", legacy(g))
      WithShapes(acc) == WritePart(acc, "shapes", n.shapes, shapes, FALSE)
  IN IF merged # <<>>
     THEN WithShapes(WritePart(Shaped(w, filled), "notes", n.notes, merged, old.notes = 0))
     ELSE LET bare == DropPart(Shaped(w, emptied), "notes", old.notes)
          IN IF others THEN WithShapes(bare) ELSE DropPart(bare, "shapes", old.shapes)

\* The part numbers are those found when the sheet was first looked at, and a
\* part found then must still be in the source.
CommentsPhase(w) ==
  LET One(acc, s) ==
        IF ~acc.ok \/ acc.p.notes[s] = <<>> THEN acc
        ELSE LET old    == acc.p.ancillary[s]
                 ready  == WithGraph(acc, s, GraphOf(acc.p, s))
                 notes  == Numbered(ready, "notes", old.notes)
                 shapes == Numbered(notes.w, "shapes", old.shapes)
             IN IF /\ InSource(s)
                   /\ old.notes \in DOMAIN source.parts["notes"] \cup {0}
                   /\ old.shapes \in DOMAIN source.parts["shapes"] \cup {0}
                THEN BuildNotes(shapes.w, s, old, [notes |-> notes.n, shapes |-> shapes.n])
                ELSE Failed(ready)
  IN IF w.ok THEN FoldLeft(One, FoldLeft(Populated, w, w.p.order), w.p.order) ELSE w

\* Each queued growth appends a column to a table that the source has on the
\* sheet, and is an error when the table has the column.
TableGrowthPhase(w) ==
  LET there == source.parts["table"]
      PartOf(s, name) ==
        LET rels == IF InSource(s) THEN source.rels[s] ELSE <<>>
        IN {rels[r].target : r \in {q \in DOMAIN rels :
              /\ rels[q].type = "table"
              /\ rels[q].target \in DOMAIN there
              /\ there[rels[q].target].name = name}}
      One(acc, s) ==
        LET Grow(a, patch) ==
              IF ~a.ok \/ PartOf(s, patch.name) = {} THEN Failed(a)
              ELSE LET n   == Min(PartOf(s, patch.name))
                       old == IF n \in DOMAIN a.patches["table"]
                              THEN a.patches["table"][n] ELSE there[n]
                   IN IF patch.column <= old.columns THEN Failed(a)
                      ELSE [a EXCEPT !.patches["table"] =
                              (n :> [old EXCEPT !.columns = patch.column]) @@ @]
        IN FoldLeft(Grow, acc, acc.p.growth[s])
  IN IF w.ok THEN FoldLeft(One, w, w.p.order) ELSE w

\* The blocks of each sheet replace those of its newest bytes.
SheetOf(w, s) ==
  w.blocks[s] @@ (IF s \in DOMAIN w.p.newSheets THEN w.p.newSheets[s] ELSE source.sheets[s])

\* A part of the source is replaced, any other added.
RoutePartsPhase(w) ==
  [w EXCEPT
     !.patches = [k \in PartKinds |->
        [n \in DOMAIN w.writes[k] \cap DOMAIN source.parts[k] |-> w.writes[k][n]] @@ @[k]],
     !.p.adds = [k \in PartKinds |->
        Without(w.writes[k], DOMAIN source.parts[k]) @@ @[k]],
     !.p.newSheets = [s \in DOMAIN @ |-> SheetOf(w, s)],
     !.p.dels = @ \cup w.drops]

Phases(p) ==
  LET blocks == TableGrowthPhase(CommentsPhase(ThreadedCommentsPhase(TablesPhase(
                  HyperlinksPhase(ConditionalFormattingPhase(DataValidationsPhase(
                    CreatesPhase(Workspace(p)))))))))
  IN IF blocks.ok THEN RoutePartsPhase(blocks) ELSE blocks

\* A deleted part is left out even when a phase has replaced it.
Package(w) ==
  [sheets |-> [s \in DOMAIN source.sheets \cup DOMAIN w.p.newSheets |-> SheetOf(w, s)],
   rels   |-> [s \in DOMAIN source.sheets \cup DOMAIN w.p.newSheets |-> GraphOf(w.p, s).rels],
   parts  |-> [k \in PartKinds |->
                w.p.adds[k] @@ Without(w.patches[k] @@ source.parts[k],
                                       {n \in DOMAIN source.parts[k] : <<k, n>> \in w.p.dels})],
   dxfs   |-> w.dxfs,
   types  |-> source.types \cup w.p.types]

\* The source now holds what the save added; the queues are kept.
ResetAfterInPlace(p) ==
  [p EXCEPT !.graphs = <<>>, !.newSheets = <<>>, !.adds = NoParts, !.dels = {},
            !.types = {}]

-----------------------------------------------------------------------------
NamesOn(s) == {shown[s].tables[i].name : i \in DOMAIN shown[s].tables}

Init == /\ session \in Sessions
        /\ source \in session.packages
        /\ written = source
        /\ shown = [s \in DOMAIN source.sheets |-> Understood(View(source, s))]
        /\ growable = [s \in DOMAIN shown |-> NamesOn(s)]
        /\ patcher = OpenPatcher
        /\ outcome = "called"
        /\ calls = 0
        /\ saves = 0

\* The names that calls give are no names of the loaded package.
Fresh == calls + 1

Call(kind) == /\ kind \in session.calls
              /\ calls < session.maxCalls
              /\ calls' = calls + 1
              /\ outcome' = "called"
              /\ UNCHANGED <<session, growable, source, written, saves>>

Named == session.sheets \cap DOMAIN shown

\* ws.data_validations.append(dv)
AddDataValidation(s) ==
  /\ Call("validate")
  /\ shown' = [shown EXCEPT ![s].rules = Append(@, Fresh)]
  /\ patcher' = [patcher EXCEPT !.rules[s] = Append(@, Fresh)]

\* ws.conditional_formatting.add(range, rule)
AddConditionalFormat(s) ==
  /\ Call("format")
  /\ shown' = [shown EXCEPT ![s].formats = Append(@, Fresh)]
  /\ patcher' = [patcher EXCEPT !.formats[s] = Append(@, Fresh)]

\* cell.hyperlink = link
SetHyperlink(s, c) ==
  /\ Call("link")
  /\ shown' = [shown EXCEPT ![s].links = (c :> Fresh) @@ @]
  /\ patcher' = [patcher EXCEPT !.links[s] = (c :> Fresh) @@ @]

\* cell.hyperlink = None
DeleteHyperlink(s, c) ==
  /\ Call("unlink")
  /\ shown' = [shown EXCEPT ![s].links = Without(@, {c})]
  /\ patcher' = [patcher EXCEPT !.links[s] = (c :> Deleted) @@ @]

\* ws.tables.add(table), under a name that the sheet has not.  Only ws.add_table
\* looks for the name on the other sheets.
AddTable(s, name) ==
  LET table == [name |-> name, columns |-> 1]
  IN /\ Call("table")
     /\ shown' = [shown EXCEPT ![s].tables = Append(@, table)]
     /\ patcher' = [patcher EXCEPT !.tables[s] = Append(@, table)]

\* A table of the loaded file gets another column.
GrowTable(s, i) ==
  LET table == shown[s].tables[i]
      grown == table.columns + 1
  IN /\ Call("grow")
     /\ s \in DOMAIN growable
     /\ table.name \in growable[s]
     /\ shown' = [shown EXCEPT ![s].tables[i].columns = grown]
     /\ patcher' = [patcher EXCEPT !.growth[s] =
                      Append(@, [name |-> table.name, column |-> grown])]

\* Notes and threads are explored on cells that have not the other.  The code
\* refuses a note where a thread is pending and a thread where a note is; it lets
\* a thread replace a note that was loaded, which this leaves out.

\* cell.comment = comment
SetComment(s, c) ==
  /\ Call("note")
  /\ c \notin DOMAIN shown[s].threads
  /\ shown' = [shown EXCEPT ![s].notes = (c :> Note(Fresh)) @@ @]
  /\ patcher' = [patcher EXCEPT !.notes[s] = (c :> Note(Fresh)) @@ @]

\* cell.comment = None
DeleteComment(s, c) ==
  /\ Call("unnote")
  /\ c \in DOMAIN shown[s].notes
  /\ shown' = [shown EXCEPT ![s].notes = Without(@, {c})]
  /\ patcher' = [patcher EXCEPT !.notes[s] = (c :> DeletedNote) @@ @]

\* cell.threaded_comment = thread
SetThread(s, c) ==
  /\ Call("thread")
  /\ c \notin DOMAIN shown[s].notes
  /\ shown' = [shown EXCEPT ![s].threads = (c :> Fresh) @@ @]
  /\ patcher' = [patcher EXCEPT !.threads[s] = (c :> Fresh) @@ @]

\* cell.threaded_comment = None
DeleteThread(s, c) ==
  /\ Call("unthread")
  /\ c \in DOMAIN shown[s].threads
  /\ shown' = [shown EXCEPT ![s].threads = Without(@, {c})]
  /\ patcher' = [patcher EXCEPT !.threads[s] = (c :> Deleted) @@ @]

\* create_sheet(title)
CreateSheet ==
  /\ Call("create")
  /\ New \notin DOMAIN shown
  /\ shown' = (New :> NoSheetShown) @@ shown
  /\ patcher' = [patcher EXCEPT !.creating = TRUE, !.order = Append(@, New)]

\* A save runs the phases; one that returns an error ends it and leaves what
\* the phases before did to the patcher.  A save in place makes the written
\* package the source.
Save(kind) ==
  LET w == Phases(patcher)
  IN /\ kind \in session.saves
     /\ saves < session.maxSaves
     /\ saves' = saves + 1
     /\ \/ /\ ~HasPendingWork(patcher)
           /\ outcome' = "saved"
           /\ written' = source
           /\ UNCHANGED <<patcher, source>>
        \/ /\ HasPendingWork(patcher)
           /\ ~w.ok
           /\ outcome' = "refused"
           /\ patcher' = w.p
           /\ UNCHANGED <<written, source>>
        \/ /\ HasPendingWork(patcher)
           /\ w.ok
           /\ session.faults
           /\ outcome' = "failed"
           /\ patcher' = w.p
           /\ UNCHANGED <<written, source>>
        \/ /\ HasPendingWork(patcher)
           /\ w.ok
           /\ outcome' = "saved"
           /\ written' = Package(w)
           /\ IF kind = "in_place"
              THEN patcher' = ResetAfterInPlace(w.p) /\ source' = Package(w)
              ELSE patcher' = w.p /\ UNCHANGED source
     /\ UNCHANGED <<session, shown, growable, calls>>

Next ==
  \/ \E s \in Named :
       \/ AddDataValidation(s)
       \/ AddConditionalFormat(s)
       \/ \E name \in {Fresh} \cup UNION {NamesOn(t) : t \in (DOMAIN shown) \ {s}} :
            name \notin NamesOn(s) /\ AddTable(s, name)
       \/ \E i \in DOMAIN shown[s].tables : GrowTable(s, i)
       \/ \E c \in Cells :
            \/ SetHyperlink(s, c)
            \/ c \in DOMAIN shown[s].links /\ DeleteHyperlink(s, c)
            \/ SetComment(s, c)
            \/ DeleteComment(s, c)
            \/ SetThread(s, c)
            \/ DeleteThread(s, c)
  \/ CreateSheet
  \/ \E kind \in {"in_place", "elsewhere"} : Save(kind)

Spec == Init /\ [][Next]_vars

-----------------------------------------------------------------------------
\* A save is refused exactly when two sheets have a table of the same name.  The
\* package it writes has on each sheet what the calls made of it: each validation
\* once and behind those that were there, each format rule with its own format,
\* each link with its own address, the tables with their columns, the notes, and
\* the threads with their placeholders (patcher_sheet_blocks.rs; do_save,
\* mod.rs:2211-2828).
SavesHoldTheBlocks ==
  LET clash == \E s, t \in DOMAIN shown : s # t /\ NamesOn(s) \cap NamesOn(t) # {}
  IN /\ outcome # "called" => (outcome = "refused" <=> clash)
     /\ outcome = "saved" =>
          /\ DOMAIN written.sheets = DOMAIN shown
          /\ \A s \in DOMAIN shown : View(written, s) = Expected(shown[s])

\* The package a save writes is closed: a relationship of a sheet names a part
\* that is there and that no other sheet names, every part is named, and has its
\* content type; what a sheet refers to by id is a relationship of that type;
\* every note has its shape; no two tables share a name or an id.
BlocksAreWired ==
  outcome = "saved" =>
    LET Rels(s) == written.rels[s]
        Uses == {<<s, r>> \in (DOMAIN written.sheets) \X (1..20) :
                   r \in DOMAIN Rels(s) /\ Rels(s)[r].type # "link"}
        PartOf(u) == <<Rels(u[1])[u[2]].type, Rels(u[1])[u[2]].target>>
        Parts == UNION {{k} \X (DOMAIN written.parts[k]) : k \in PartKinds}
        Refers(s, rid, type) == rid \in DOMAIN Rels(s) /\ Rels(s)[rid].type = type
        Tables == written.parts["table"]
    IN /\ {PartOf(u) : u \in Uses} = Parts
       /\ \A u, v \in Uses : PartOf(u) = PartOf(v) => u = v
       /\ {p \in Parts : p[1] # "shapes"} \subseteq written.types
       /\ \A s \in DOMAIN written.sheets :
            LET sheet == written.sheets[s]
            IN /\ \A c \in DOMAIN sheet.links : Refers(s, sheet.links[c], "link")
               /\ \A i \in DOMAIN sheet.tables : Refers(s, sheet.tables[i], "table")
               /\ sheet.legacy # 0 => Refers(s, sheet.legacy, "shapes")
               /\ FirstPart(Rels(s), "notes") # 0 =>
                    /\ sheet.legacy # 0
                    /\ written.parts["shapes"][Rels(s)[sheet.legacy].target].notes
                         = DOMAIN written.parts["notes"][FirstPart(Rels(s), "notes")]
       /\ \A m, n \in DOMAIN Tables :
            Tables[m].name = Tables[n].name \/ Tables[m].id = Tables[n].id => m = n
=============================================================================
