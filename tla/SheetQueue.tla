----------------------------- MODULE SheetQueue -----------------------------
(***************************************************************************)
(* The sheet operations of a workbook opened with modify=True.             *)
(*                                                                         *)
(* The Python workbook changes its tab list at once and queues each call   *)
(* on the Rust patcher (python/wolfxl/_workbook_sheets.py,                 *)
(* src/wolfxl/mod.rs); a save drains the queues in phases against the      *)
(* source package and writes the result over the source or elsewhere       *)
(* (src/wolfxl/patcher_workbook.rs, patcher_sheet_copy.rs,                 *)
(* patcher_structural.rs, sheet_order.rs).                                 *)
(*                                                                         *)
(* A package is its <sheet> list, the workbook relationships and the       *)
(* worksheet parts.  A part or relationship is its number, a tab or part   *)
(* content is as in Tabs, and file names, styles and cells are left out.   *)
(***************************************************************************)
EXTENDS Integers, FiniteSets, SequencesExt

CONSTANTS Titles,
          Loaded,       \* the sheet titles of the loaded workbook
          Offsets,      \* the offsets given to move_sheet
          Sessions      \* the kinds of sessions that are explored

CallKinds == {"create", "retitle", "remove", "rename", "move", "copy", "insert_rows"}

ASSUME TitlesAssumption == /\ Loaded \in Seq(Titles)
                           /\ IsInjective(Loaded)
                           /\ Titles \cap {"blank", "missing"} = {}
                           /\ Offsets \subseteq Int
ASSUME SessionsAssumption ==
  Sessions \subseteq
    [calls     : SUBSET CallKinds,     \* the methods it calls
     newTitles : SUBSET Titles,        \* the titles of created and copied sheets
     retitles  : SUBSET Titles,        \* the titles it sets on sheets
     saves     : SUBSET {"in_place", "elsewhere"},
     faults    : BOOLEAN,              \* a write may fail
     maxCalls  : Nat,                  \* bound: calls
     maxSaves  : Nat]                  \* bound: saves

VARIABLES session,        \* the kind of session that this is
          tabs,           \* _sheet_names, each with the content its calls gave it
          createdTitles,  \* _patcher_pending_created_titles
          sheetCopies,    \* _pending_sheet_copies
          axisShifts,     \* _pending_axis_shifts, the titles alone
          patcher,        \* the XlsxPatcher
          source,         \* the package it patches
          written,        \* the tabs of the package last written
          outcome,        \* of the last call: "done", "refused" or "failed"
          calls, saves    \* how many were made

vars == <<session, tabs, createdTitles, sheetCopies, axisShifts, patcher, source,
          written, outcome, calls, saves>>

Promise == INSTANCE Tabs

-----------------------------------------------------------------------------
With(f, k, v) == [x \in DOMAIN f \cup {k} |-> IF x = k THEN v ELSE f[x]]
Without(f, S) == [x \in DOMAIN f \ S |-> f[x]]

\* The position of the first entry with this title, 0 if there is none.
Position(s, title) == SelectInSeq(s, LAMBDA e : e.title = title)

\* Where an entry ends up that is moved by offset and kept within bounds.
Target(s, i, offset) == Max({1, Min({i + offset, Len(s)})})

Missing == [of |-> "missing", shifts |-> 0]

\* What a reader of the package finds under each tab.
Shown(package) ==
  LET ContentOf(rid) ==
        IF rid \in DOMAIN package.rels /\ package.rels[rid] \in DOMAIN package.parts
        THEN package.parts[package.rels[rid]]
        ELSE Missing
  IN [i \in DOMAIN package.sheets |->
        [title   |-> package.sheets[i].title,
         content |-> ContentOf(package.sheets[i].rid)]]

LoadedPackage ==
  [sheets |-> [i \in DOMAIN Loaded |-> [title |-> Loaded[i], rid |-> i]],
   rels   |-> [i \in DOMAIN Loaded |-> i],
   parts  |-> [i \in DOMAIN Loaded |-> [of |-> Loaded[i], shifts |-> 0]]]

\* sheet_paths holds this for a sheet that is queued for creation.
Pending == 0

\* rels_patches without an entry for the workbook.
NoGraph == [rels |-> <<>>, next |-> 0]

OpenPatcher ==
  [paths |-> [t \in ToSet(Loaded) |-> CHOOSE i \in DOMAIN Loaded : Loaded[i] = t],
   order |-> Loaded,
   deletedPaths |-> <<>>, deletes |-> <<>>, creates |-> <<>>, copies |-> <<>>,
   renames |-> <<>>, moves |-> <<>>, shifts |-> <<>>,
   adds |-> <<>>, dels |-> {}, graph |-> NoGraph]

-----------------------------------------------------------------------------
(* The queue_* methods of the patcher. *)
CanQueueCreate(p, title) ==
  title \notin DOMAIN p.paths /\ title \notin ToSet(p.creates)

QueueCreate(p, title, at) ==
  [p EXCEPT !.creates = Append(@, title),
            !.paths = With(@, title, Pending),
            !.order = InsertAt(@, Min({at, Len(@) + 1}), title)]

\* The sequence s without the elements of S.
Leaving(s, S) == FoldLeft(LAMBDA left, x : IF x \in S THEN left ELSE Append(left, x), <<>>, s)

Dropping(s, e) == Leaving(s, {e})

\* A sheet that is only queued leaves the queue; any other is deleted by the
\* next save.  The moves and renames queued for it stay.
QueueDelete(p, title) ==
  LET q == [p EXCEPT !.paths = Without(@, {title}), !.order = Dropping(@, title)]
  IN IF p.paths[title] = Pending
     THEN [q EXCEPT !.creates = Dropping(@, title)]
     ELSE [q EXCEPT !.deletedPaths = With(@, title, p.paths[title]),
                    !.deletes = Append(@, title)]

\* The queued moves follow the sheet to its new title; the row shifts and the
\* copies do not.
QueueRename(p, old, new) ==
  [p EXCEPT !.paths = With(Without(@, {old}), new, @[old]),
            !.order = ReplaceAll(@, old, new),
            !.moves = [i \in DOMAIN @ |->
                         IF @[i].title = old THEN [@[i] EXCEPT !.title = new] ELSE @[i]],
            !.renames = Append(@, [old |-> old, new |-> new])]

CanQueueCopy(p, copy) ==
  /\ copy.src \in DOMAIN p.paths
  /\ copy.dst \notin DOMAIN p.paths
  /\ \A i \in DOMAIN p.copies : p.copies[i].dst # copy.dst

HasPendingWork(p) ==
  \/ p.graph # NoGraph
  \/ p.adds # <<>>
  \/ p.dels # {}
  \/ p.renames # <<>> \/ p.moves # <<>> \/ p.shifts # <<>>
  \/ p.copies # <<>> \/ p.creates # <<>> \/ p.deletes # <<>>

-----------------------------------------------------------------------------
(* The phases of do_save, on a workspace w: the patcher, the <sheet> list of
   workbook.xml being rewritten, the source parts being replaced, the next
   free part number, and whether no phase has returned an error. *)
Workspace(p) ==
  [p |-> p, sheets |-> source.sheets, patches |-> <<>>,
   next |-> Max({0} \cup DOMAIN source.parts) + 1, ok |-> TRUE]

Graph(p) == IF p.graph # NoGraph THEN p.graph
            ELSE [rels |-> source.rels, next |-> Max({0} \cup DOMAIN source.rels) + 1]

RidOf(sheets, title) ==
  LET i == Position(sheets, title) IN IF i = 0 THEN 0 ELSE sheets[i].rid

\* Fault: sheet_order becomes what workbook.xml is left with, no more.
OrderAfterDeletesOfSource(p, rest) == [i \in DOMAIN rest |-> rest[i].title]

KeepPosition(p, order, i) ==
  IF p.order[i] \in ToSet(p.creates) \ ToSet(order)
  THEN InsertAt(order, Min({i, Len(order) + 1}), p.order[i])
  ELSE order

\* sheet_order becomes what workbook.xml is left with, and the queued creations
\* keep their positions.
OrderAfterDeletes(p, rest) ==
  FoldLeftDomain(LAMBDA order, i : KeepPosition(p, order, i),
                 [i \in DOMAIN rest |-> rest[i].title], p.order)

\* The relationship of a deleted title goes; so does its part, unless a
\* relationship that remains still names it.
DeleteOne(w, acc, title) ==
  LET paths == w.p.deletedPaths
      rels  == Without(acc.rels, {RidOf(w.sheets, title)})
      part  == IF title \in DOMAIN paths THEN {paths[title]} ELSE {}
  IN [rels |-> rels, dels |-> acc.dels \cup (part \ Range(rels))]

\* merge_sheet_deletes: the entries of the other titles.
SheetsLeft(sheets, titles) == Leaving(sheets, {e \in ToSet(sheets) : e.title \in titles})

DeletesPhase(w) ==
  LET p    == w.p
      end  == FoldLeft(LAMBDA acc, title : DeleteOne(w, acc, title),
                       [rels |-> Graph(p).rels, dels |-> p.dels], p.deletes)
      rest == SheetsLeft(w.sheets, ToSet(p.deletes))
  IN IF p.deletes = <<>> THEN w
     ELSE [w EXCEPT
             !.sheets = rest,
             !.p = [p EXCEPT
                      !.graph = [Graph(p) EXCEPT !.rels = end.rels],
                      !.dels = end.dels,
                      !.order = OrderAfterDeletes(p, rest),
                      !.deletes = <<>>,
                      !.deletedPaths = <<>>]]

\* merge_sheet_moves for one move; a title that is not there is skipped.
ApplyMove(sheets, move) ==
  LET i == Position(sheets, move.title)
  IN IF i = 0 THEN sheets
     ELSE InsertAt(RemoveAt(sheets, i), Target(sheets, i, move.offset), sheets[i])

\* Fault: the part number stays free.
AddSheetReusingPart(w, title, content) ==
  LET graph == Graph(w.p)
  IN [w EXCEPT
        !.sheets = Append(@, [title |-> title, rid |-> graph.next]),
        !.p.graph = [rels |-> With(graph.rels, graph.next, w.next), next |-> graph.next + 1],
        !.p.adds = With(@, w.next, content),
        !.p.paths = With(@, title, w.next)]

\* A new sheet: part, relationship and <sheet> entry, appended.
AddSheet(w, title, content) ==
  LET graph == Graph(w.p)
  IN [w EXCEPT
        !.sheets = Append(@, [title |-> title, rid |-> graph.next]),
        !.next = @ + 1,
        !.p.graph = [rels |-> With(graph.rels, graph.next, w.next), next |-> graph.next + 1],
        !.p.adds = With(@, w.next, content),
        !.p.paths = With(@, title, w.next)]

\* A created sheet is moved behind the sheets that precede it in sheet_order
\* and are there already.
CreateOne(desired, queued, acc, title) ==
  IF title \notin ToSet(desired) THEN acc
  ELSE LET before == SubSeq(desired, 1, SelectInSeq(desired, LAMBDA t : t = title) - 1)
           there  == {i \in DOMAIN before : before[i] \notin queued \ acc.made}
           added  == AddSheet(acc.w, title, Promise!Blank)
           offset == Cardinality(there) + 1 - Len(added.sheets)
       IN [made |-> acc.made \cup {title},
           w |-> [added EXCEPT !.sheets = ApplyMove(@, [title |-> title, offset |-> offset])]]

CreatesPhase(w) ==
  [FoldLeft(LAMBDA acc, title : CreateOne(w.p.order, ToSet(w.p.creates), acc, title),
            [w |-> w, made |-> {}], w.p.creates).w EXCEPT !.p.creates = <<>>]

\* The bytes of a part: replaced, added or still those of the source.
Current(w, part) ==
  IF part \in DOMAIN w.patches THEN w.patches[part]
  ELSE IF part \in DOMAIN w.p.adds THEN w.p.adds[part]
  ELSE IF part \in DOMAIN source.parts THEN source.parts[part]
  ELSE Missing

\* The first copy that cannot be planned ends the save; the ones before it
\* are made and all of them stay queued.
CopyOne(acc, copy) ==
  IF /\ acc.ok
     /\ copy.src \in DOMAIN acc.p.paths
     /\ Position(acc.sheets, copy.src) # 0
     /\ Position(acc.sheets, copy.dst) = 0
     /\ Current(acc, acc.p.paths[copy.src]) # Missing
  THEN [AddSheet(acc, copy.dst, Current(acc, acc.p.paths[copy.src])) EXCEPT
          !.p.order = Append(@, copy.dst)]
  ELSE [acc EXCEPT !.ok = FALSE]

CopiesPhase(w) ==
  LET end == FoldLeft(CopyOne, w, w.p.copies)
  IN IF end.ok THEN [end EXCEPT !.p.copies = <<>>] ELSE end

\* Every title is looked up once in a map from old to new titles, in which
\* the last rename of a title wins.
RenamesPhase(w) ==
  LET renames == w.p.renames
      Renamed(title) ==
        LET i == SelectLastInSeq(renames, LAMBDA r : r.old = title)
        IN IF i = 0 THEN title ELSE renames[i].new
      Entry(e) == [e EXCEPT !.title = Renamed(e.title)]
  IN [w EXCEPT !.sheets = [i \in DOMAIN w.sheets |-> Entry(w.sheets[i])]]

MovesPhase(w) ==
  IF w.p.moves = <<>> THEN w
  ELSE LET sheets == FoldLeft(ApplyMove, w.sheets, w.p.moves)
       IN [w EXCEPT !.sheets = sheets,
                    !.p.order = [i \in DOMAIN sheets |-> sheets[i].title]]

\* A shift reads the replaced or the source part, never an added one.
ShiftOne(acc, title) ==
  IF title \notin DOMAIN acc.p.paths THEN acc
  ELSE LET part == acc.p.paths[title]
       IN IF part \in DOMAIN source.parts
          THEN [acc EXCEPT !.patches = With(@, part, Promise!Shifted(
                  IF part \in DOMAIN @ THEN @[part] ELSE source.parts[part]))]
          ELSE acc

ShiftsPhase(w) == FoldLeft(ShiftOne, w, w.p.shifts)

Phases(p) ==
  LET copied == CopiesPhase(CreatesPhase(DeletesPhase(Workspace(p))))
  IN IF copied.ok THEN ShiftsPhase(MovesPhase(RenamesPhase(copied))) ELSE copied

\* rewrite_zip_phase asserts that nothing it adds is in the source already.
Collides(w) == DOMAIN w.p.adds \cap DOMAIN source.parts # {}

Package(w) ==
  [sheets |-> w.sheets,
   rels   |-> Graph(w.p).rels,
   parts  |-> [x \in (DOMAIN source.parts \ w.p.dels) \cup DOMAIN w.p.adds |->
                 Current(w, x)]]

\* Fault: the added parts are kept and added again.
ResetAfterInPlaceKeepingAdds(p) == [p EXCEPT !.dels = {}, !.graph = NoGraph]

\* The source now holds what the save added; the other queues are kept.
ResetAfterInPlace(p) == [p EXCEPT !.adds = <<>>, !.dels = {}, !.graph = NoGraph]

-----------------------------------------------------------------------------
Init == /\ session \in Sessions
        /\ source = LoadedPackage
        /\ tabs = Shown(source)
        /\ written = Shown(source)
        /\ patcher = OpenPatcher
        /\ createdTitles = {}
        /\ sheetCopies = <<>>
        /\ axisShifts = <<>>
        /\ outcome = "done"
        /\ calls = 0
        /\ saves = 0

Call(kind) == /\ kind \in session.calls
              /\ calls < session.maxCalls
              /\ calls' = calls + 1
              /\ UNCHANGED <<session, source, written, saves>>

Unused == Titles \ Promise!TitlesOf(tabs)

\* create_sheet(title, index); the title it makes unique is one not shown.
Create(title, at) ==
  /\ Call("create")
  /\ IF CanQueueCreate(patcher, title)
     THEN /\ patcher' = QueueCreate(patcher, title, at)
          /\ createdTitles' = createdTitles \cup {title}
          /\ tabs' = InsertAt(tabs, at, [title |-> title, content |-> Promise!Blank])
          /\ outcome' = "done"
     ELSE /\ outcome' = "refused"
          /\ UNCHANGED <<patcher, createdTitles, tabs>>
  /\ UNCHANGED <<sheetCopies, axisShifts>>

\* remove(ws): the tab is gone even when the patcher then refuses.
RemoveSheet(i) ==
  /\ Call("remove")
  /\ tabs' = RemoveAt(tabs, i)
  /\ createdTitles' = createdTitles \ {tabs[i].title}
  /\ IF tabs[i].title \in DOMAIN patcher.paths
     THEN /\ patcher' = QueueDelete(patcher, tabs[i].title)
          /\ outcome' = "done"
     ELSE /\ outcome' = "refused"
          /\ UNCHANGED patcher
  /\ UNCHANGED <<sheetCopies, axisShifts>>

\* ws.title = new, for a sheet queued for creation: deleted and queued again.
\* When the new title is refused, the patcher has forgotten the old one.
Retitle(i, new) ==
  LET old == tabs[i].title
      dropped == QueueDelete(patcher, old)
  IN /\ Call("retitle")
     /\ old \in createdTitles
     /\ IF old \in DOMAIN patcher.paths /\ CanQueueCreate(dropped, new)
        THEN /\ patcher' = QueueCreate(dropped, new, i)
             /\ createdTitles' = (createdTitles \ {old}) \cup {new}
             /\ tabs' = [tabs EXCEPT ![i].title = new]
             /\ outcome' = "done"
        ELSE /\ patcher' = IF old \in DOMAIN patcher.paths THEN dropped ELSE patcher
             /\ outcome' = "refused"
             /\ UNCHANGED <<createdTitles, tabs>>
     /\ UNCHANGED <<sheetCopies, axisShifts>>

\* ws.title = new, for any other sheet.
Rename(i, new) ==
  LET old == tabs[i].title
  IN /\ Call("rename")
     /\ old \notin createdTitles
     /\ IF old \in DOMAIN patcher.paths /\ new \notin DOMAIN patcher.paths
        THEN /\ patcher' = QueueRename(patcher, old, new)
             /\ tabs' = [tabs EXCEPT ![i].title = new]
             /\ outcome' = "done"
        ELSE /\ outcome' = "refused"
             /\ UNCHANGED <<patcher, tabs>>
     /\ UNCHANGED <<createdTitles, sheetCopies, axisShifts>>

MoveSheet(i, offset) ==
  /\ Call("move")
  /\ tabs' = InsertAt(RemoveAt(tabs, i), Target(tabs, i, offset), tabs[i])
  /\ patcher' = [patcher EXCEPT !.moves =
                   Append(@, [title |-> tabs[i].title, offset |-> offset])]
  /\ outcome' = "done"
  /\ UNCHANGED <<createdTitles, sheetCopies, axisShifts>>

CopyWorksheet(i, dst) ==
  /\ Call("copy")
  /\ tabs' = Append(tabs, [title |-> dst, content |-> tabs[i].content])
  /\ sheetCopies' = Append(sheetCopies, [src |-> tabs[i].title, dst |-> dst])
  /\ outcome' = "done"
  /\ UNCHANGED <<createdTitles, axisShifts, patcher>>

InsertRows(i) ==
  /\ Call("insert_rows")
  /\ tabs' = [tabs EXCEPT ![i].content = Promise!Shifted(@)]
  /\ axisShifts' = Append(axisShifts, tabs[i].title)
  /\ outcome' = "done"
  /\ UNCHANGED <<createdTitles, sheetCopies, patcher>>

\* save_modify_mode hands the pending copies to the patcher, stopping at the
\* first it refuses, and then the pending shifts.
FlushOne(acc, copy) ==
  IF acc.ok /\ CanQueueCopy(acc.p, copy)
  THEN [acc EXCEPT !.p.copies = Append(@, copy)]
  ELSE [acc EXCEPT !.ok = FALSE]

FlushCopies == FoldLeft(FlushOne, [p |-> patcher, ok |-> TRUE], sheetCopies)

Flushed == [FlushCopies.p EXCEPT !.shifts = @ \o axisShifts]

\* A save that raises before it reaches the file.
SaveRefused ==
  \/ /\ ~FlushCopies.ok
     /\ patcher' = FlushCopies.p
     /\ UNCHANGED <<sheetCopies, axisShifts>>
  \/ /\ FlushCopies.ok
     /\ HasPendingWork(Flushed)
     /\ LET w == Phases(Flushed)
        IN /\ ~w.ok \/ Collides(w)
           /\ patcher' = w.p
     /\ sheetCopies' = <<>>
     /\ axisShifts' = <<>>

\* A save whose temporary file could not be written or renamed.
SaveFails ==
  /\ session.faults
  /\ FlushCopies.ok
  /\ HasPendingWork(Flushed)
  /\ LET w == Phases(Flushed)
     IN /\ w.ok /\ ~Collides(w)
        /\ patcher' = w.p
  /\ sheetCopies' = <<>>
  /\ axisShifts' = <<>>

SaveSucceeds(inPlace) ==
  /\ FlushCopies.ok
  /\ IF HasPendingWork(Flushed)
     THEN LET w == Phases(Flushed)
          IN /\ w.ok /\ ~Collides(w)
             /\ written' = Shown(Package(w))
             /\ IF inPlace
                THEN /\ source' = Package(w)
                     /\ patcher' = ResetAfterInPlace(w.p)
                ELSE /\ patcher' = w.p
                     /\ UNCHANGED source
     ELSE /\ written' = Shown(source)
          /\ UNCHANGED <<patcher, source>>
  /\ sheetCopies' = <<>>
  /\ axisShifts' = <<>>
  /\ createdTitles' = {}

Save(inPlace) ==
  /\ saves < session.maxSaves
  /\ saves' = saves + 1
  /\ \/ /\ SaveRefused
        /\ outcome' = "refused"
        /\ UNCHANGED <<createdTitles, source, written>>
     \/ /\ SaveFails
        /\ outcome' = "failed"
        /\ UNCHANGED <<createdTitles, source, written>>
     \/ /\ SaveSucceeds(inPlace)
        /\ outcome' = "done"
  /\ UNCHANGED <<session, tabs, calls>>

Next ==
  \/ \E title \in Unused \cap session.newTitles, at \in 1..(Len(tabs) + 1) : Create(title, at)
  \/ \E i \in DOMAIN tabs :
       \/ RemoveSheet(i)
       \/ \E new \in Unused \cap session.retitles : Retitle(i, new) \/ Rename(i, new)
       \/ \E offset \in Offsets : MoveSheet(i, offset)
       \/ \E dst \in Unused \cap session.newTitles : CopyWorksheet(i, dst)
       \/ InsertRows(i)
  \/ "in_place" \in session.saves /\ Save(TRUE)
  \/ "elsewhere" \in session.saves /\ Save(FALSE)

Spec == Init /\ [][Next]_vars

-----------------------------------------------------------------------------
IsMap(f, Keys, Values) ==
  /\ DOMAIN f \subseteq Keys
  /\ \A k \in DOMAIN f : f[k] \in Values

\* The state's shape: what is shown always has a content, and so has every
\* part of the source and every part waiting to be added (mod.rs:104-377).
TypeOK ==
  /\ tabs \in Seq([title : Titles, content : Promise!Contents])
  /\ written \in Seq([title : Titles, content : Promise!Contents \cup {Missing}])
  /\ createdTitles \subseteq Titles
  /\ sheetCopies \in Seq([src : Titles, dst : Titles])
  /\ axisShifts \in Seq(Titles)
  /\ source.sheets \in Seq([title : Titles, rid : Nat])
  /\ IsMap(source.rels, Nat, Nat)
  /\ IsMap(source.parts, Nat, Promise!Contents)
  /\ IsMap(patcher.adds, Nat, Promise!Contents)
  /\ IsMap(patcher.paths, Titles, Nat)
  /\ ToSet(patcher.order) \subseteq Titles
  /\ outcome \in {"done", "refused", "failed"}
  /\ session \in Sessions
  /\ calls \in 0..session.maxCalls
  /\ saves \in 0..session.maxSaves

\* The sessions that use the patcher's queues in one way; in others the order
\* in which the queues are applied is not that of the calls.
OneQueue ==
  LET Only(kinds, saveKind) == session.calls \subseteq kinds /\ session.saves = {saveKind}
  IN \/ Only({"create", "retitle", "remove"}, "in_place") /\ ~session.faults
     \/ Only({"move", "insert_rows"}, "elsewhere")
     \/ Only({"move", "rename"}, "elsewhere")
     \/ Only({"copy", "rename"}, "in_place") /\ session.maxSaves = 1

\* Every successful save writes the tabs the workbook shows, in order, each
\* with the content its calls gave it; every other call changes the shown tabs
\* as documented and writes nothing (_workbook.py:927-1049).
WritesWhatIsShown == /\ OneQueue => Promise!Init
                     /\ [][OneQueue => Promise!Next]_(Promise!vars)

\* In a session without copies no call on a sheet the workbook shows is turned
\* down, and no save: neither the patcher's title checks nor a phase nor the
\* assertion on added parts stops one (mod.rs:1175-1287, patcher_workbook.rs).
NothingRefused == "copy" \notin session.calls => outcome # "refused"

\* Whatever calls, saves and failures came before, the parts the patcher holds
\* for the next save are none of the source's: the save that added a part to
\* the source also forgot it (patcher_workbook.rs:1906-1911, 2065-2159).
NeverCollides == DOMAIN patcher.adds \cap DOMAIN source.parts = {}

\* The sessions in which no save fails once it has added parts: the copy of a
\* sheet that was renamed since the last save is one that cannot be planned.
AddsReachTheSource ==
  /\ session.saves = {"in_place"} /\ ~session.faults
  /\ ~({"copy", "rename"} \subseteq session.calls)

\* The patcher reads and writes every sheet in a part of its own, however many
\* sheets a session whose saves are in place and do not fail creates, copies
\* and removes: a part number is given out once (part_id_allocator.rs).
OnePartEach ==
  AddsReachTheSource =>
  \A t, u \in DOMAIN patcher.paths :
    patcher.paths[t] = patcher.paths[u] /\ patcher.paths[t] # Pending => t = u

(* What the code's comments say of every session, and some sessions refute. *)
\* A save of a workbook whose tabs are all in the file leaves them as they are:
\* a queue that a save has drained is not applied by the next one.
ResavedUnchanged ==
  [][saves' # saves /\ outcome' = "done" /\ tabs = written => written' = written]_vars
=============================================================================
