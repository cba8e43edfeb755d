----------------------------- MODULE EditSession -----------------------------
(***************************************************************************)
(* The editing session of crates/wolfxl-edit: a package that is read once, *)
(* and edits kept as changed and removed parts until they are saved.       *)
(*                                                                         *)
(* A package is a function from part names to contents.  A worksheet is    *)
(* one column of cells; the code treats columns as it treats rows.  A cell *)
(* holds data or a formula that is one reference, and a style.             *)
(***************************************************************************)
EXTENDS Integers, FiniteSets, SequencesExt

CONSTANTS MaxRow,       \* the last row of a worksheet
          FirstCustom,  \* the first number format id that is not built in
          Sessions      \* the packages and edits that are explored

\* Part names.  The capitalised one differs from another in case alone, and
\* the one called data is a worksheet outside xl/worksheets/.
NewSheetPaths == <<"sheet1", "sheet2", "sheet3", "sheet4", "sheet5">>
SheetPaths == ToSet(NewSheetPaths) \cup {"Sheet1", "data"}
PathKey(path) == IF path = "Sheet1" THEN "sheet1" ELSE path

\* Sheet names; "b" and "B" differ in case alone.
NameKey(name) == IF name = "b" THEN "B" ELSE name

Kinds == {"write", "insert", "delete", "add", "rename", "format"}

Rows == 1..MaxRow

VARIABLES session,   \* the kind of session that this is
          original,  \* the package as it was read
          changed,   \* parts replaced or added since
          removed,   \* parts dropped since
          sheets,    \* the worksheets in workbook order
          dirty,     \* an edit was applied
          file,      \* the package last saved, with its row identities
          rowIds,    \* ghost: the identity of every row of every worksheet
          touched,   \* ghost: an edit changed cells
          edits      \* how many were made

vars == <<session, original, changed, removed, sheets, dirty, file, rowIds, touched, edits>>

\* A function of one argument, and one function laid over another.
Single(key, value) == [x \in {key} |-> value]
With(f, g) == [x \in DOMAIN f \cup DOMAIN g |-> IF x \in DOMAIN g THEN g[x] ELSE f[x]]

-----------------------------------------------------------------------------
(* References.  "at" is a ghost: the row that was meant, by its identity. *)
NoRef == [sheet |-> "", row |-> 0, at |-> <<>>]
IsRef(ref) == ref.row > 0
Tombstone(ref) == [ref EXCEPT !.sheet = "", !.row = -1]

\* is_target: a reference without a sheet is to the sheet that it is in.
Meant(ref, inSheet) == IF ref.sheet = "" THEN inSheet ELSE ref.sheet
IsTarget(ref, source, target) == IsRef(ref) /\ NameKey(Meant(ref, source)) = NameKey(target)

\* A row insertion or deletion.
Plan(at, count, delete) == [at |-> at, count |-> count, delete |-> delete]
Gone(plan, row) == plan.delete /\ row \in plan.at..(plan.at + plan.count - 1)
MovedRow(plan, row) ==
  IF row < plan.at THEN row
  ELSE IF plan.delete THEN row - plan.count ELSE row + plan.count

\* Fault: the row at which rows are inserted stays where it is.
ShiftRefAfter(ref, source, target, plan) ==
  IF ~IsTarget(ref, source, target) \/ ref.row <= plan.at THEN ref
  ELSE IF Gone(plan, ref.row) \/ MovedRow(plan, ref.row) > MaxRow THEN Tombstone(ref)
  ELSE [ref EXCEPT !.row = MovedRow(plan, @)]

ShiftRef(ref, source, target, plan) ==
  IF ~IsTarget(ref, source, target) THEN ref
  ELSE IF Gone(plan, ref.row) \/ MovedRow(plan, ref.row) > MaxRow THEN Tombstone(ref)
  ELSE [ref EXCEPT !.row = MovedRow(plan, @)]

RenameRef(ref, old, new) ==
  IF IsRef(ref) /\ ref.sheet # "" /\ NameKey(ref.sheet) = NameKey(old)
  THEN [ref EXCEPT !.sheet = new] ELSE ref

\* The formulas of a worksheet or chart part, rewritten by this function.
FormulasOf(part) ==
  IF "cells" \in DOMAIN part THEN {part.cells[r].ref : r \in DOMAIN part.cells} ELSE {part.ref}
RewriteCells(cells, to) == [r \in DOMAIN cells |-> [cells[r] EXCEPT !.ref = to[@]]]
RewriteFormulas(part, to) ==
  IF "cells" \in DOMAIN part
  THEN [part EXCEPT !.cells = RewriteCells(@, to)]
  ELSE [part EXCEPT !.ref = to[@]]

ShiftCells(part, source, plan) ==
  LET kept  == {r \in DOMAIN part.cells : ~Gone(plan, r)}
      rows  == {MovedRow(plan, r) : r \in kept}
      From(row) == CHOOSE r \in kept : MovedRow(plan, r) = row
      moved == [part EXCEPT !.cells = [row \in rows |-> @[From(row)]]]
  IN RewriteFormulas(moved, [ref \in FormulasOf(moved) |-> ShiftRef(ref, source, source, plan)])

-----------------------------------------------------------------------------
(* The package as the session sees it. *)
Has(path) == path \notin removed /\ path \in DOMAIN original \cup DOMAIN changed
Part(path) == IF path \in DOMAIN changed THEN changed[path] ELSE original[path]

View == [path \in (DOMAIN original \cup DOMAIN changed) \ removed |-> Part(path)]
ToBytes == IF dirty THEN View ELSE original

\* workbook::sheets
SheetsOf(workbook, rels) ==
  FoldLeft(LAMBDA found, e :
             IF rels[e.rid].kind = "worksheet"
             THEN Append(found, [name |-> e.name, path |-> rels[e.rid].path]) ELSE found,
           <<>>, workbook.entries)

Unique(s, Key(_)) == \A i, j \in DOMAIN s : Key(s[i]) = Key(s[j]) => i = j

\* from_bytes accepts the package.
Opens(package) ==
  LET entries == package["workbook"].entries
      rels    == package["rels"]
  IN /\ {"workbook", "rels", "types"} \subseteq DOMAIN package
     /\ \A p, q \in DOMAIN package : PathKey(p) = PathKey(q) => p = q
     /\ Unique(entries, LAMBDA e : NameKey(e.name))
     /\ Unique(entries, LAMBDA e : e.id)
     /\ Unique(entries, LAMBDA e : e.rid)
     /\ \A i \in DOMAIN entries : entries[i].rid \in DOMAIN rels
     /\ Unique(SheetsOf(package["workbook"], rels), LAMBDA s : PathKey(s.path))
     /\ \A s \in ToSet(SheetsOf(package["workbook"], rels)) : s.path \in DOMAIN package

-----------------------------------------------------------------------------
(* The packages that sessions start from: what from_bytes accepts and a      *)
(* spreadsheet program writes.                                               *)
SheetNames == STRING \ {""}
Texts == SheetNames \cup {""}
Entries == [name : SheetNames, id : Nat, rid : Nat]
References == [sheet : Texts, row : Int, at : {<<>>} \cup (SheetPaths \X (Nat \X Nat))]
Cells == [data : Texts, ref : References, style : Nat]

DefinedNames == [scope : Int, ref : References]
Workbooks == [entries : Seq(Entries), names : Seq(DefinedNames), active : Nat, fullCalc : BOOLEAN]
Charts == [ref : References]
IsWorksheet(part) ==
  /\ part \in [cells : {part.cells}, colStyle : Nat]
  /\ DOMAIN part.cells \subseteq Rows /\ part.cells \in [DOMAIN part.cells -> Cells]

\* The parts are what their names say.
PartsTyped(package) ==
  /\ package = [p \in DOMAIN package |-> package[p]]
  /\ {"workbook", "rels", "types"} \subseteq DOMAIN package
  /\ package["workbook"] \in Workbooks
  /\ \A p \in SheetPaths \cap DOMAIN package : IsWorksheet(package[p])
  /\ "chart" \in DOMAIN package => package["chart"] \in Charts

\* The active tab and the scopes of names are those of entries.
Indexed(workbook) ==
  /\ workbook.active < Len(workbook.entries)
  /\ \A i \in DOMAIN workbook.names :
       workbook.names[i].scope \in (-1)..(Len(workbook.entries) - 1)

\* Relationships and content types are of parts that are there; the chain is
\* the part that is linked and typed as one.
Linked(package) ==
  LET rels == package["rels"]  types == package["types"]
  IN /\ rels = [r \in DOMAIN rels |-> rels[r]] /\ IsFiniteSet(DOMAIN rels)
     /\ \A r \in DOMAIN rels : r \in Nat /\ rels[r] \in [kind : {rels[r].kind}, path : DOMAIN package]
     /\ \A r \in DOMAIN rels : rels[r].kind = "calcChain" <=> rels[r].path = "chain"
     /\ types = [p \in DOMAIN types |-> types[p]] /\ DOMAIN types \subseteq DOMAIN package
     /\ \A p \in DOMAIN types : types[p] = "calcChain" <=> p = "chain"
     /\ SheetPaths \cap DOMAIN package \subseteq DOMAIN types

\* The worksheets are in the parts that hold worksheets, and the properties of
\* the document list them.
Listed(package) ==
  LET listed == SheetsOf(package["workbook"], package["rels"])
  IN /\ \A e \in ToSet(package["workbook"].entries) : package["rels"][e.rid].kind # "calcChain"
     /\ \A s \in ToSet(listed) : s.path \in SheetPaths
     /\ "app" \in DOMAIN package => package["app"] = [i \in DOMAIN listed |-> listed[i].name]

\* A style is a zero-based index into the cell formats, and they name number
\* formats by an id that one number format of the part has, or none.
MinimalStyles == [formats |-> <<>>, xfs |-> <<[fmt |-> 0, other |-> "normal", applied |-> FALSE]>>]
StylesIn(package) == IF "styles" \in DOMAIN package THEN package["styles"] ELSE MinimalStyles
NumberFormats == [id : Nat, code : Texts]
CellFormats == [fmt : Nat, other : STRING \cup {"normal"}, applied : BOOLEAN]

Styled(package) ==
  LET styles == StylesIn(package)
  IN /\ styles \in [formats : Seq(NumberFormats), xfs : Seq(CellFormats)]
     /\ \A i, j \in DOMAIN styles.formats : styles.formats[i].id = styles.formats[j].id => i = j
     /\ styles.xfs # <<>>
     /\ \A p \in SheetPaths \cap DOMAIN package :
          /\ package[p].colStyle < Len(styles.xfs)
          /\ \A r \in DOMAIN package[p].cells : package[p].cells[r].style < Len(styles.xfs)

WellFormed(package) ==
  /\ PartsTyped(package) /\ Indexed(package["workbook"])
  /\ Opens(package) /\ Linked(package) /\ Listed(package)

\* The reference names, from where it is, the row it was written for, or is
\* #REF! because that row is gone.
Follows(ref, inSheet, list, ids) ==
  IF IsRef(ref)
  THEN \E s \in ToSet(list) :
         /\ NameKey(s.name) = NameKey(Meant(ref, inSheet))
         /\ ref.row \in Rows /\ ref.at = <<s.path, ids[s.path][ref.row]>>
  ELSE ref # NoRef => \A r \in Rows : ids[ref.at[1]][r] # ref.at[2]

\* The sheet that a defined name belongs to, chart sheets counted.
ScopeName(workbook, name) == IF name.scope < 0 THEN "" ELSE workbook.entries[name.scope + 1].name

FormulasFollow(package, list, ids) ==
  /\ \A s \in ToSet(list) : \A r \in DOMAIN package[s.path].cells :
       Follows(package[s.path].cells[r].ref, s.name, list, ids)
  /\ "chart" \in DOMAIN package => Follows(package["chart"].ref, "", list, ids)
  /\ \A i \in DOMAIN package["workbook"].names :
       LET name == package["workbook"].names[i]
       IN Follows(name.ref, ScopeName(package["workbook"], name), list, ids)

\* Every row starts with an identity of its own, every reference with a row.
FirstIds(list) == [p \in {s.path : s \in ToSet(list)} |-> [r \in Rows |-> <<0, r>>]]
Referring(package) ==
  LET list   == SheetsOf(package["workbook"], package["rels"])
      charts == DOMAIN package \cap {"chart"}
      names  == package["workbook"].names
  IN /\ FormulasFollow(package, list, FirstIds(list))
     /\ \A p \in {s.path : s \in ToSet(list)} \cup charts : \A ref \in FormulasOf(package[p]) :
          IsRef(ref) \/ ref = NoRef
     /\ \A i \in DOMAIN names : IsRef(names[i].ref)

\* The edits of the session reach every formula: formula_parts leaves out a
\* worksheet outside xl/worksheets/, which a rename would have to rewrite, and a
\* shift takes the scope of a name from the worksheets alone, so that a name
\* that refers without a sheet must be before the chart sheets.
Sheetless(ref) == ref.sheet = ""
ScopedName(name, entries, rels) ==
  IsRef(name.ref) /\ Sheetless(name.ref) =>
    \A j \in 1..(name.scope + 1) : rels[entries[j].rid].kind = "worksheet"
Scoped(package) ==
  \A i \in DOMAIN package["workbook"].names :
    ScopedName(package["workbook"].names[i], package["workbook"].entries, package["rels"])
Reached(s) == Scoped(s.package) /\ ("rename" \in s.edits => "data" \notin DOMAIN s.package)

ASSUME BoundsAssumption == MaxRow \in Nat \ {0} /\ FirstCustom \in Nat \ {0}
ASSUME SessionsAssumption ==
  \A s \in Sessions :
    /\ s.edits \subseteq Kinds /\ s.maxEdits \in Nat
    /\ s.rows \subseteq Rows /\ s.data \subseteq Texts /\ s.names \subseteq SheetNames
    /\ s.codes \subseteq Texts
    /\ WellFormed(s.package) /\ Styled(s.package) /\ Referring(s.package)

-----------------------------------------------------------------------------
(* The session. *)
PathOf(name) == (CHOOSE s \in ToSet(sheets) : s.name = name).path
NameOf(path) == (CHOOSE s \in ToSet(sheets) : s.path = path).name
Names == {s.name : s \in ToSet(sheets)}
IndexOf(s, Test(_)) == SelectInSeq(s, Test)
PositionOf(x, s) == IndexOf(s, LAMBDA y : y = x)
EntryNamed(name, entries) == IndexOf(entries, LAMBDA e : e.name = name)

\* formula_parts: by the directory of the part, not by its relationship.
FormulaParts ==
  (DOMAIN original \cup DOMAIN changed) \cap ((SheetPaths \ {"data"}) \cup {"chart"})

Apply(changes, drops) ==
  /\ changed' = [p \in (DOMAIN changed \cup DOMAIN changes) \ drops |->
                   IF p \in DOMAIN changes THEN changes[p] ELSE changed[p]]
  /\ removed' = (removed \ DOMAIN changes) \cup drops
  /\ dirty' = TRUE

\* Fault: the content types keep the calculation chain.
RecalculationKeepingType(changes) ==
  LET workbook == IF "workbook" \in DOMAIN changes THEN changes["workbook"] ELSE Part("workbook")
      rels     == Part("rels")
      links    == {r \in DOMAIN rels : rels[r].kind = "calcChain"}
  IN [changes |-> With(changes, [workbook |-> [workbook EXCEPT !.fullCalc = TRUE],
                                rels |-> [r \in DOMAIN rels \ links |-> rels[r]]]),
      drops   |-> {rels[r].path : r \in links}]

\* The workbook asks for a recalculation when it is opened, and the chain goes
\* with its relationship and its content type.
Recalculation(changes) ==
  LET workbook == IF "workbook" \in DOMAIN changes THEN changes["workbook"] ELSE Part("workbook")
      rels     == Part("rels")
      types    == Part("types")
      links    == {r \in DOMAIN rels : rels[r].kind = "calcChain"}
      chains   == {rels[r].path : r \in links}
      typed    == {p \in DOMAIN types : types[p] = "calcChain"
                                        \/ \E c \in chains : PathKey(c) = PathKey(p)}
  IN [changes |-> With(changes, [workbook |-> [workbook EXCEPT !.fullCalc = TRUE],
                                rels |-> [r \in DOMAIN rels \ links |-> rels[r]],
                                types |-> [p \in DOMAIN types \ typed |-> types[p]]]),
      drops   |-> chains \cup typed \cup (IF Has("chain") THEN {"chain"} ELSE {})]

\* Fault: only the calculation chain tells that there are formulas.
HasFormulasByChain == Has("chain")

HasFormulas ==
  \/ Has("chain")
  \/ \E s \in ToSet(sheets) : \E r \in DOMAIN Part(s.path).cells :
       Part(s.path).cells[r].ref # NoRef

-----------------------------------------------------------------------------
(* The edits.  One that is refused changes nothing and is no step. *)
Edit(kind) ==
  /\ kind \in session.edits
  /\ edits < session.maxEdits
  /\ edits' = edits + 1
  /\ UNCHANGED <<session, original, file>>

\* write_cells for one cell; an absent one takes the style of its column.
WriteCell(name, row, data, ref) ==
  LET path  == PathOf(name)
      part  == Part(path)
      style == IF row \in DOMAIN part.cells THEN part.cells[row].style ELSE part.colStyle
      cell  == [data |-> data, ref |-> ref, style |-> style]
      alone == Single(path, [part EXCEPT !.cells = With(@, Single(row, cell))])
      full  == Recalculation(alone)
  IN /\ Edit("write")
     /\ IF ref # NoRef \/ HasFormulas THEN Apply(full.changes, full.drops) ELSE Apply(alone, {})
     /\ touched' = TRUE
     /\ UNCHANGED <<sheets, rowIds>>

\* Defined names take the scope from the worksheets alone.
ShiftNames(names, target, plan) ==
  [i \in DOMAIN names |->
     LET source == IF names[i].scope + 1 \in DOMAIN sheets THEN sheets[names[i].scope + 1].name
                   ELSE ""
     IN [names[i] EXCEPT !.ref = ShiftRef(@, source, target, plan)]]

\* Ghost: the rows that come in from below, or are inserted, are new.
ShiftIds(ids, plan) ==
  [r \in Rows |->
     IF r < plan.at THEN ids[r]
     ELSE IF plan.delete /\ r + plan.count <= MaxRow THEN ids[r + plan.count]
     ELSE IF ~plan.delete /\ r >= plan.at + plan.count THEN ids[r - plan.count]
     ELSE <<edits + 1, r>>]

\* check_shift_bounds: no cell would leave the worksheet.
Fits(part, plan) ==
  plan.delete \/ \A r \in DOMAIN part.cells : r >= plan.at => r + plan.count <= MaxRow

AxisShift(name, plan) ==
  LET path   == PathOf(name)
      part   == Part(path)
      charts == FormulaParts \cap {"chart"}
      Shifted(p, source) ==
        RewriteFormulas(Part(p), [ref \in FormulasOf(Part(p)) |-> ShiftRef(ref, source, name, plan)])
      moved  == [p \in {s.path : s \in ToSet(sheets)} \cup charts |->
                   IF p = path THEN ShiftCells(part, name, plan)
                   ELSE Shifted(p, IF p \in charts THEN "" ELSE NameOf(p))]
      full   == Recalculation(
                  With(moved, [workbook |-> [Part("workbook") EXCEPT
                                               !.names = ShiftNames(@, name, plan)]]))
  IN /\ Edit(IF plan.delete THEN "delete" ELSE "insert")
     /\ plan.at >= 1 /\ plan.count >= 1 /\ plan.at + plan.count - 1 <= MaxRow
     /\ Fits(part, plan)
     /\ Apply(full.changes, full.drops)
     /\ rowIds' = [rowIds EXCEPT ![path] = ShiftIds(@, plan)]
     /\ touched' = TRUE
     /\ UNCHANGED sheets

\* Fault: names that differ in case are taken for different ones.
NameTakenExactly(name, others, excluding) ==
  \E i \in DOMAIN others : others[i].name # excluding /\ others[i].name = name

NameTaken(name, others, excluding) ==
  \E i \in DOMAIN others : others[i].name # excluding /\ NameKey(others[i].name) = NameKey(name)

ShiftScopes(names, at) ==
  [i \in DOMAIN names |-> [names[i] EXCEPT !.scope = IF @ >= at THEN @ + 1 ELSE @]]

\* Fault: an active tab equal to the position of the new entry stays.
ShiftIndexesAfter(workbook, at) ==
  [workbook EXCEPT
     !.names = ShiftScopes(@, at),
     !.active = IF @ > at THEN @ + 1 ELSE @]

\* shift_sheet_indexes for an entry put at this zero-based position.
ShiftIndexes(workbook, at) ==
  [workbook EXCEPT
     !.names = ShiftScopes(@, at),
     !.active = IF @ >= at THEN @ + 1 ELSE @]

\* The workbook with an entry more at this zero-based position.
Inserting(workbook, at, entry) ==
  [IF at < Len(workbook.entries) THEN ShiftIndexes(workbook, at) ELSE workbook
     EXCEPT !.entries = InsertAt(@, at + 1, entry)]

BlankSheet == [cells |-> <<>>, colStyle |-> 0]

PartInUse(path) ==
  \/ \E s \in ToSet(sheets) : PathKey(s.path) = PathKey(path)
  \/ \E r \in DOMAIN Part("rels") : PathKey(Part("rels")[r].path) = PathKey(path)
  \/ \E p \in DOMAIN Part("types") : PathKey(p) = PathKey(path)

\* The first part that is not there.
FreePath == NewSheetPaths[IndexOf(NewSheetPaths, LAMBDA p : ~Has(p))]

\* add_sheet before the worksheet at this zero-based position, or at the end.
AddSheet(name, position) ==
  LET workbook == Part("workbook")
      entries  == workbook.entries
      rels     == Part("rels")
      path     == FreePath
      at       == IF position < Len(sheets)
                  THEN EntryNamed(sheets[position + 1].name, entries) - 1
                  ELSE Len(entries)
      entry    == [name |-> name,
                   id   |-> Max({0} \cup {e.id : e \in ToSet(entries)}) + 1,
                   rid  |-> Max({0} \cup DOMAIN rels) + 1]
      titles   == IF Has("app") THEN [app |-> InsertAt(Part("app"), position + 1, name)] ELSE <<>>
      changes  == With(With(titles, Single(path, BlankSheet)),
                       [workbook |-> Inserting(workbook, at, entry),
                        rels  |-> With(rels, Single(entry.rid, [kind |-> "worksheet", path |-> path])),
                        types |-> With(Part("types"), Single(path, "worksheet"))])
  IN /\ Edit("add")
     /\ \E p \in ToSet(NewSheetPaths) : ~Has(p)
     /\ ~NameTaken(name, entries, "")
     /\ ~PartInUse(path)
     /\ Apply(changes, {})
     /\ sheets' = SheetsOf(changes["workbook"], changes["rels"])
     /\ rowIds' = With(rowIds, Single(path, [r \in Rows |-> <<0, r>>]))
     /\ UNCHANGED touched

Renamed(list, old, new) ==
  [i \in DOMAIN list |->
     IF list[i].name = old THEN [list[i] EXCEPT !.name = new] ELSE list[i]]

RenameNames(names, old, new) ==
  [i \in DOMAIN names |-> [names[i] EXCEPT !.ref = RenameRef(@, old, new)]]

RenameSheet(old, new) ==
  LET workbook == Part("workbook")
      named    == [workbook EXCEPT
                     !.entries = Renamed(@, old, new), !.names = RenameNames(@, old, new)]
      title    == IF Has("app") THEN PositionOf(old, Part("app")) ELSE 0
      titles   == IF title # 0 THEN [app |-> [Part("app") EXCEPT ![title] = new]] ELSE <<>>
      Rewritten(p) == RewriteFormulas(Part(p),
                        [ref \in FormulasOf(Part(p)) |-> RenameRef(ref, old, new)])
      changes  == With(With(titles, [p \in FormulaParts |-> Rewritten(p)]), [workbook |-> named])
      full     == Recalculation(changes)
  IN /\ Edit("rename")
     /\ old # new
     /\ ~NameTaken(new, workbook.entries, old)
     /\ Apply(full.changes, full.drops)
     /\ sheets' = SheetsOf(named, Part("rels"))
     /\ touched' = TRUE
     /\ UNCHANGED rowIds

-----------------------------------------------------------------------------
(* Number formats. *)
\* The cell format of this style with the number format of the plan.
Copied(plan, base) == [plan.xfs[base + 1] EXCEPT !.fmt = plan.fmt, !.applied = TRUE]

\* Fault: the copies made by one edit all get the same index.
AddCopySamePlace(plan, base) ==
  LET known == PositionOf(Copied(plan, base), plan.xfs \o plan.appended)
  IN [plan EXCEPT
        !.appended = IF known = 0 THEN Append(@, Copied(plan, base)) ELSE @,
        !.targets  = With(@, Single(base, IF known # 0 THEN known - 1 ELSE Len(plan.xfs)))]

\* target_for: the formatted copy of a cell format, shared when there is one.
AddCopy(plan, base) ==
  LET known == PositionOf(Copied(plan, base), plan.xfs \o plan.appended)
  IN [plan EXCEPT
        !.appended = IF known = 0 THEN Append(@, Copied(plan, base)) ELSE @,
        !.targets  = With(@, Single(base, IF known # 0 THEN known - 1
                                            ELSE Len(plan.xfs) + Len(plan.appended)))]

Visit(plan, base) == IF base \in DOMAIN plan.targets THEN plan ELSE AddCopy(plan, base)

FormatOf(code, formats) == IndexOf(formats, LAMBDA f : f.code = code)

\* FormatPlan: the number format is one the table defines or a new one, whose
\* id is above every id that the part defines or uses.
FormatPlan(styles, code) ==
  LET reused == FormatOf(code, styles.formats)
      used   == {f.id : f \in ToSet(styles.formats)} \cup {x.fmt : x \in ToSet(styles.xfs)}
      id     == IF reused # 0 THEN styles.formats[reused].id
                ELSE Max({FirstCustom - 1} \cup used) + 1
  IN [fmt      |-> id,
      formats  |-> IF reused # 0 THEN styles.formats
                   ELSE Append(styles.formats, [id |-> id, code |-> code]),
      xfs      |-> styles.xfs, appended |-> <<>>, targets |-> <<>>]

\* The style of the cell at this row, which is that of the column when there is none.
BaseStyle(part, row) == IF row \in DOMAIN part.cells THEN part.cells[row].style ELSE part.colStyle

Restyle(part, row, style) ==
  [IF row \in DOMAIN part.cells THEN part.cells[row] ELSE [data |-> "", ref |-> NoRef, style |-> 0]
     EXCEPT !.style = style]

\* The cells of these rows whose style changes.
RestyledCells(part, targets, first, last) ==
  [row \in {r \in first..last : targets[BaseStyle(part, r)] # BaseStyle(part, r)} |->
     Restyle(part, row, targets[BaseStyle(part, row)])]

VisitAll(plan, bases) == FoldLeft(Visit, plan, bases)

FormatRows(part, styles, first, last, code) ==
  VisitAll(FormatPlan(styles, code), [i \in 1..(last - first + 1) |-> BaseStyle(part, first + i - 1)])

StylesOf(plan) == [formats |-> plan.formats, xfs |-> plan.xfs \o plan.appended]
Styles == IF Has("styles") THEN Part("styles") ELSE MinimalStyles

\* set_number_format on the rows first..last.
SetNumberFormat(name, first, last, code) ==
  LET path   == PathOf(name)
      part   == Part(path)
      plan   == FormatRows(part, Styles, first, last, code)
      rels   == Part("rels")
      link   == Max({0} \cup DOMAIN rels) + 1
      linked == IF Has("styles") THEN <<>>
                ELSE [rels  |-> With(rels, Single(link, [kind |-> "styles", path |-> "styles"])),
                      types |-> With(Part("types"), Single("styles", "styles"))]
      cells  == With(part.cells, RestyledCells(part, plan.targets, first, last))
  IN /\ Edit("format")
     /\ Apply(With(With(linked, Single(path, [part EXCEPT !.cells = cells])),
                   Single("styles", StylesOf(plan))), {})
     /\ UNCHANGED <<sheets, rowIds, touched>>

-----------------------------------------------------------------------------
(* save replaces the file in one step: what fails before leaves it, and what
   fails after, the sync of the directory, has replaced it. *)
Save ==
  /\ file' = [package |-> ToBytes, rowIds |-> rowIds, touched |-> touched]
  /\ UNCHANGED <<session, original, changed, removed, sheets, dirty, rowIds, touched, edits>>

\* A new session on the file.
Open ==
  /\ original' = file.package
  /\ changed' = <<>>
  /\ removed' = {}
  /\ sheets' = SheetsOf(file.package["workbook"], file.package["rels"])
  /\ dirty' = FALSE
  /\ rowIds' = file.rowIds
  /\ touched' = file.touched
  /\ UNCHANGED <<session, file, edits>>

Init ==
  /\ session \in Sessions
  /\ original = session.package
  /\ changed = <<>>
  /\ removed = {}
  /\ sheets = SheetsOf(original["workbook"], original["rels"])
  /\ dirty = FALSE
  /\ rowIds = FirstIds(sheets)
  /\ touched = FALSE
  /\ edits = 0
  /\ file = [package |-> original, rowIds |-> rowIds, touched |-> FALSE]

\* A reference to this row of this worksheet, as the formula writes it.
RefTo(sheet, inSheet, row) ==
  LET path == PathOf(IF sheet = "" THEN inSheet ELSE sheet)
  IN [sheet |-> sheet, row |-> row, at |-> <<path, rowIds[path][row]>>]

Next ==
  \/ \E name \in Names :
       \/ \E row \in session.rows :
            \/ \E data \in session.data : WriteCell(name, row, data, NoRef)
            \/ \E to \in Names \cup {""}, target \in session.rows :
                 WriteCell(name, row, "", RefTo(to, name, target))
            \/ \E count \in 1..2, delete \in BOOLEAN : AxisShift(name, Plan(row, count, delete))
            \/ \E last \in session.rows, code \in session.codes :
                 last >= row /\ SetNumberFormat(name, row, last, code)
       \/ \E new \in session.names : RenameSheet(name, new)
  \/ \E new \in session.names, position \in 0..Len(sheets) : AddSheet(new, position)
  \/ Save
  \/ Open

Spec == Init /\ [][Next]_vars

-----------------------------------------------------------------------------
\* What a save would write now, and what the file holds, is a package that a new
\* session opens, with the same worksheets and parts that this session shows:
\* the three collections of parts and the list of worksheets agree after every
\* edit (lib.rs:355-390, 426-460).
Reopens ==
  /\ Opens(ToBytes)
  /\ Opens(file.package)
  /\ SheetsOf(ToBytes["workbook"], ToBytes["rels"]) = sheets
  /\ \A path \in DOMAIN ToBytes : Has(path) /\ ToBytes[path] = Part(path)

\* Every relationship of the workbook and every content type names a part that
\* is in the package, every worksheet has its content type, and the document
\* properties list the worksheets in order (workbook.rs:132-364, 854-960).
PackageClosed ==
  /\ \A r \in DOMAIN Part("rels") : Has(Part("rels")[r].path)
  /\ \A path \in DOMAIN Part("types") : Has(path)
  /\ \A s \in ToSet(sheets) : s.path \in DOMAIN Part("types")
  /\ Has("app") => Part("app") = [i \in DOMAIN sheets |-> sheets[i].name]

\* Through any insertions, deletions, renames, added sheets, saves and new
\* sessions, the formulas of cells, charts and defined names keep to the rows
\* they were written for (formulas.rs, lib.rs:288-313, 541-713).
RefsFollowRows == FormulasFollow(View, sheets, rowIds)

HoldsFormulas ==
  \E s \in ToSet(sheets) : \E r \in DOMAIN Part(s.path).cells :
    Part(s.path).cells[r].ref # NoRef

\* A workbook whose cells were edited and that has formulas will be recalculated
\* when it is opened, and nothing of the calculation chain is left: no part, no
\* relationship, no content type (lib.rs:221-234, 462-506; workbook.rs:297-364).
ResultsRecalculated ==
  touched /\ HoldsFormulas =>
    /\ Part("workbook").fullCalc
    /\ ~Has("chain")
    /\ \A r \in DOMAIN Part("rels") : Part("rels")[r].kind # "calcChain"
    /\ "chain" \notin DOMAIN Part("types")

\* Adding a sheet leaves every scoped name with its sheet, and the active tab
\* the same sheet, chart sheets counted (workbook.rs:429-476).
IndexesFollowSheets ==
  [][\A name \in session.names, position \in 0..Len(sheets) : AddSheet(name, position) =>
       LET before == Part("workbook")  after == Part("workbook")'
       IN /\ after.entries[after.active + 1].rid = before.entries[before.active + 1].rid
          /\ \A i \in DOMAIN before.names :
               before.names[i].scope >= 0 =>
                 after.entries[after.names[i].scope + 1].rid
                   = before.entries[before.names[i].scope + 1].rid]_vars

FormatWith(id, formats) == SelectInSeq(formats, LAMBDA f : f.id = id)
CodeOf(id, formats) ==
  IF FormatWith(id, formats) = 0 THEN "" ELSE formats[FormatWith(id, formats)].code

\* How a style looks, and the cell at a row: the number format and the rest.
StyleLook(styles, style) ==
  LET xf == styles.xfs[style + 1]
  IN [code |-> CodeOf(xf.fmt, styles.formats), other |-> xf.other]

Look(part, styles, row) == StyleLook(styles, BaseStyle(part, row))

\* A number format changes the number format of the rows it is given and nothing
\* else of them, and no other cell of the workbook looks different, though cells
\* share styles (styles.rs:59-116, 142-282).
StylesKept ==
  [][\A name \in Names, first, last \in session.rows, code \in session.codes :
       first <= last /\ SetNumberFormat(name, first, last, code) =>
         \A s \in ToSet(sheets), r \in Rows :
           Look(Part(s.path)', Styles', r) =
             IF s.name = name /\ r \in first..last
             THEN [Look(Part(s.path), Styles, r) EXCEPT !.code = code]
             ELSE Look(Part(s.path), Styles, r)]_vars
=============================================================================
