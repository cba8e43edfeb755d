---------------------------- MODULE FormulaResults ----------------------------
(***************************************************************************)
(* Calculated results: Workbook.calculate() and recalculate(), the         *)
(* dependency graph and the order of evaluation (python/wolfxl/calc), and  *)
(* the results that a save writes beside the formulas, as caches           *)
(* (python/wolfxl/_formula_cache.py).                                      *)
(*                                                                         *)
(* A cell is a title and a row, so a sheet is one column.  Its contents    *)
(* are a number, a boolean or a formula, which copies or adds the cells    *)
(* that it refers to.  A file is the contents of its cells and, for some   *)
(* of its formulas, cached results.  Names, the date system, functions     *)
(* that find their cells when they run (OFFSET) and the tolerance of a     *)
(* comparison are left out.                                                *)
(***************************************************************************)
EXTENDS Integers, FiniteSets, SequencesExt, TLC

CONSTANTS Titles,    \* the titles, in the order in which they are sorted
          LastRow,   \* bound: the rows of a sheet
          Sessions   \* the workbooks and the calls that are explored

Cells == ToSet(Titles) \X (1..LastRow)
Number(n) == [is |-> "number", n |-> n]
Bool(n) == [is |-> "bool", n |-> n]
NoValue == [is |-> "none"]
Formula(op, refs) == [is |-> "formula", op |-> op, refs |-> refs]
IsFormula(contents) == contents.is = "formula"
Numeric(v) == v.is \in {"number", "bool"}

ASSUME RowsAssumption == LastRow \in Nat
ASSUME SessionsAssumption ==
  \A s \in Sessions : /\ s.mode \in {"write", "modify", "data_only"}
                      /\ DOMAIN s.file.cells \subseteq Cells
                      /\ s.maxCalls \in Nat

VARIABLES session,     \* the kind of session that this is
          cells,       \* the contents of the cells as the workbook shows them
          edited,      \* the cells that were given other contents
          source,      \* the file that the patcher patches
          moves,       \* the row insertions asked for, which saves apply
          evaluator,   \* the cached evaluator: its formulas and its values
          calculated,  \* the inputs and the results of the last calculation
          written,     \* the file last written
          report,      \* the result of the last recalculation
          forced,      \* ghost: formula cells that recalculations gave a value
          calls        \* how many calls were made

vars == <<session, cells, edited, source, moves, evaluator, calculated, written,
          report, forced, calls>>

\* A data-only load shows results in place of their formulas.
Hidden == IF session.mode = "data_only" THEN DOMAIN session.file.caches \ edited ELSE {}

FormulasOf(contents) ==
  LET at == {c \in DOMAIN contents : IsFormula(contents[c])} IN [c \in at |-> contents[c]]

-----------------------------------------------------------------------------
(* The graph.  "formulas" is a function from cells to formulas. *)
Before(c, d) ==
  LET At(title) == CHOOSE i \in DOMAIN Titles : Titles[i] = title
  IN At(c[1]) < At(d[1]) \/ (c[1] = d[1] /\ c[2] < d[2])
Sorted(set) == SetToSortSeq(set, Before)

Dependents(formulas, cell) == {f \in DOMAIN formulas : cell \in ToSet(formulas[f].refs)}

\* Kahn's algorithm; formulas that are on a cycle, or behind one, are left out.
TopologicalOrder(formulas) ==
  LET Degree(f) == Cardinality(ToSet(formulas[f].refs) \cap DOMAIN formulas)
      Visit(st, i) ==
        IF st.queue = <<>> THEN st
        ELSE LET cell   == Head(st.queue)
                 next   == Dependents(formulas, cell)
                 degree == [f \in DOMAIN formulas |-> IF f \in next THEN st.degree[f] - 1
                                                      ELSE st.degree[f]]
             IN [order  |-> Append(st.order, cell),
                 queue  |-> Tail(st.queue) \o Sorted({f \in next : degree[f] = 0}),
                 degree |-> degree]
      degrees == [f \in DOMAIN formulas |-> Degree(f)]
      start   == [order |-> <<>>, queue |-> Sorted({f \in DOMAIN formulas : degrees[f] = 0}),
                  degree |-> degrees]
  IN FoldLeft(Visit, start, [i \in 1..Cardinality(DOMAIN formulas) |-> i]).order

Circular(formulas) == Len(TopologicalOrder(formulas)) < Cardinality(DOMAIN formulas)

\* Fault: only the formulas that refer to a changed cell itself.
AffectedDirectly(formulas, changed) ==
  SelectSeq(TopologicalOrder(formulas),
            LAMBDA f : f \notin changed /\ \E c \in changed : f \in Dependents(formulas, c))

\* affected_cells: what can be reached from the changed cells, in the order of
\* evaluation; a changed cell is not, whatever it depends on.
AffectedCells(formulas, changed) ==
  LET reached[i \in 0..Cardinality(DOMAIN formulas)] ==
        IF i = 0 THEN changed
        ELSE reached[i - 1] \cup UNION {Dependents(formulas, c) : c \in reached[i - 1]}
      affected == reached[Cardinality(DOMAIN formulas)] \ changed
  IN SelectSeq(TopologicalOrder(formulas), LAMBDA f : f \in affected)

-----------------------------------------------------------------------------
(* The evaluator. *)
NoEvaluator == [loaded |-> FALSE, formulas |-> <<>>, values |-> <<>>]

\* load: the values begin as the contents, formulas as their text.
Load(contents) == [loaded |-> TRUE, formulas |-> FormulasOf(contents), values |-> contents]

\* _eval_expr: an operand that is not a number makes the sum unknown.
EvaluateFormula(formula, values) ==
  LET At(c) == IF c \in DOMAIN values THEN values[c] ELSE NoValue
      args  == [i \in DOMAIN formula.refs |-> At(formula.refs[i])]
  IN IF formula.op = "copy" THEN args[1]
     ELSE IF \A i \in DOMAIN args : Numeric(args[i])
       THEN Number(FoldLeft(LAMBDA sum, v : sum + v.n, 0, args))
     ELSE NoValue

Evaluate(ev, order) ==
  [ev EXCEPT !.values =
     FoldLeft(LAMBDA values, f : (f :> EvaluateFormula(ev.formulas[f], values)) @@ values, @, order)]
Calculate(ev) == Evaluate(ev, TopologicalOrder(ev.formulas))

\* Python's equality, which compares snapshots, and _values_differ: True is 1.
Same(a, b) == IF Numeric(a) /\ Numeric(b) THEN a.n = b.n ELSE a = b

\* recalculate: the perturbed values, then the formulas that they reach.
Perturbed(ev, inputs) ==
  Evaluate([ev EXCEPT !.values = inputs @@ @], AffectedCells(ev.formulas, DOMAIN inputs))
Deltas(ev, after, inputs) ==
  SelectSeq(AffectedCells(ev.formulas, DOMAIN inputs),
            LAMBDA f : ~Same(ev.values[f], after.values[f]))

-----------------------------------------------------------------------------
(* Saving. *)
NotCalculated == [done |-> FALSE, inputs |-> <<>>, results |-> <<>>]

\* record_calculation: the inputs are copied before evaluation changes them.
RecordCalculation(ev, contents) ==
  [done |-> TRUE, inputs |-> contents,
   results |-> [f \in DOMAIN ev.formulas |-> ev.values[f]]]

\* Fault: rows that a save will insert do not count.
ResultsStaleInPlace(record, contents, pending) ==
  \/ DOMAIN record.inputs # DOMAIN contents
  \/ \E c \in DOMAIN contents : ~Same(record.inputs[c], contents[c])

\* saved_formula_results: the results are for other inputs, or other places.
ResultsStale(record, contents, pending) ==
  \/ pending # <<>>
  \/ DOMAIN record.inputs # DOMAIN contents
  \/ \E c \in DOMAIN contents : ~Same(record.inputs[c], contents[c])

\* A row inserted in a sheet, as the patcher does it: the formulas of that sheet
\* alone are rewritten, and their references whatever sheet they name.
InsertedRow(move, row) == IF row >= move.at THEN row + 1 ELSE row
Shifted(file, move) ==
  LET To(c) == IF c[1] = move.title THEN <<c[1], InsertedRow(move, c[2])>> ELSE c
      From(f, d) == f[CHOOSE c \in DOMAIN f : To(c) = d]
      Moved(contents) ==
        IF IsFormula(contents)
        THEN [contents EXCEPT !.refs = [i \in DOMAIN @ |-> <<@[i][1], InsertedRow(move, @[i][2])>>]]
        ELSE contents
  IN [cells  |-> [d \in {To(c) : c \in DOMAIN file.cells} |->
                    IF d[1] = move.title THEN Moved(From(file.cells, d)) ELSE file.cells[d]],
      caches |-> [d \in {To(c) : c \in DOMAIN file.caches} |-> From(file.caches, d)]]

\* What the patcher or the writer makes of the workbook: a cell that was not
\* edited keeps the result that the source has for it.
Package ==
  LET shown == [c \in DOMAIN cells |-> IF c \in Hidden THEN source.cells[c] ELSE cells[c]]
      kept  == DOMAIN source.caches \ edited
  IN FoldLeft(Shifted, [cells |-> shown, caches |-> [c \in kept |-> source.caches[c]]], moves)

\* apply_formula_results: every result of a formula is replaced or dropped; a
\* data-only workbook leaves those that it did not compute.
ApplyResults(file) ==
  LET formulas == DOMAIN FormulasOf(file.cells)
      results  == calculated.results
      stale    == ResultsStale(calculated, cells, moves)
      left     == {c \in DOMAIN file.caches : session.mode = "data_only" /\ c \notin DOMAIN results}
      fresh    == {c \in formulas \cap DOMAIN results : ~stale /\ results[c] # NoValue}
  IN IF ~calculated.done THEN file
     ELSE [file EXCEPT !.caches = [c \in fresh \cup left |->
                                     IF c \in left THEN file.caches[c] ELSE results[c]]]

-----------------------------------------------------------------------------
Call(kind) ==
  /\ kind \in session.calls
  /\ calls < session.maxCalls
  /\ calls' = calls + 1
  /\ UNCHANGED session

NoReport == [before |-> <<>>, inputs |-> <<>>, deltas |-> <<>>]

\* A cell is given other contents.
Edit(c, contents) ==
  /\ Call("edit")
  /\ cells' = (c :> contents) @@ cells
  /\ edited' = edited \cup {c}
  /\ UNCHANGED <<source, moves, evaluator, calculated, written, report, forced>>

\* The title of a sheet is changed; formulas keep the old one.  A workbook that
\* was not loaded knows its cells by the sheet, whatever its title.
Rename(old, new) ==
  LET To(c) == IF c[1] = old THEN <<new, c[2]>> ELSE c
  IN /\ Call("rename")
     /\ session.mode = "write"
     /\ \E c \in DOMAIN cells : c[1] = old
     /\ \A c \in DOMAIN cells : c[1] # new
     /\ cells' = [d \in {To(c) : c \in DOMAIN cells} |->
                    cells[CHOOSE c \in DOMAIN cells : To(c) = d]]
     /\ UNCHANGED <<edited, source, moves, evaluator, calculated, written, report, forced>>

\* Rows are inserted: the cells of a loaded workbook move in the saved file.
InsertRow(title, at) ==
  /\ Call("insert")
  /\ session.mode # "write"
  /\ \E c \in DOMAIN cells : c[1] = title
  /\ moves' = Append(moves, [title |-> title, at |-> at])
  /\ UNCHANGED <<cells, edited, source, evaluator, calculated, written, report, forced>>

\* calculate(): a cycle raises and leaves the workbook as it was.
CalculateWorkbook ==
  LET ev == Load(cells)
  IN /\ Call("calculate")
     /\ IF Circular(ev.formulas) THEN UNCHANGED <<evaluator, calculated, report, forced>>
        ELSE /\ evaluator' = Calculate(ev)
             /\ calculated' = RecordCalculation(evaluator', cells)
             /\ report' = NoReport
             /\ forced' = {}
     /\ UNCHANGED <<cells, edited, source, moves, written>>

\* recalculate(): on the cached evaluator, even if cells were edited since, or
\* on a new one.
RecalculateWorkbook(inputs) ==
  LET fresh == Load(cells)
      ev    == IF evaluator.loaded THEN evaluator ELSE Calculate(fresh)
  IN /\ Call("recalculate")
     /\ IF ~evaluator.loaded /\ Circular(fresh.formulas)
        THEN UNCHANGED <<evaluator, report, forced>>
        ELSE /\ evaluator' = Perturbed(ev, inputs)
             /\ report' = [before |-> ev.values, inputs |-> inputs,
                           deltas |-> Deltas(ev, evaluator', inputs)]
             /\ forced' = forced \cup (DOMAIN inputs \cap DOMAIN ev.formulas)
     /\ UNCHANGED <<cells, edited, source, moves, calculated, written>>

\* save(): in place, the file that was written becomes the source.
Save(inPlace) ==
  /\ Call("save")
  /\ inPlace => session.mode # "write" /\ moves = <<>>
  /\ written' = ApplyResults(Package)
  /\ source' = IF inPlace THEN written' ELSE source
  /\ UNCHANGED <<cells, edited, moves, evaluator, calculated, report, forced>>

Init ==
  /\ session \in Sessions
  /\ edited = {}
  /\ cells = [c \in DOMAIN session.file.cells |->
                IF c \in Hidden THEN session.file.caches[c] ELSE session.file.cells[c]]
  /\ source = IF session.mode = "write" THEN [cells |-> <<>>, caches |-> <<>>] ELSE session.file
  /\ written = source
  /\ moves = <<>>
  /\ evaluator = NoEvaluator
  /\ calculated = NotCalculated
  /\ report = NoReport
  /\ forced = {}
  /\ calls = 0

Next ==
  \/ \E e \in session.edits : Edit(e.cell, e.contents)
  \/ \E old, new \in ToSet(Titles) : Rename(old, new)
  \/ \E title \in ToSet(Titles), at \in 1..LastRow : InsertRow(title, at)
  \/ CalculateWorkbook
  \/ \E inputs \in session.whatIfs : RecalculateWorkbook(inputs)
  \/ \E inPlace \in BOOLEAN : Save(inPlace)

Spec == Init /\ [][Next]_vars

-----------------------------------------------------------------------------
\* What a formula of the file makes of the values and cached results in it.
InFile(file, c) ==
  EvaluateFormula(file.cells[c],
    [d \in DOMAIN file.cells |->
       IF d \in DOMAIN file.caches THEN file.caches[d]
       ELSE IF IsFormula(file.cells[d]) THEN NoValue ELSE file.cells[d]])

\* Once a workbook was calculated, every result that a save writes is the one
\* that its formula has in that file, up to a 1 for TRUE, whatever was edited,
\* renamed, inserted, perturbed or calculated in between; only the formulas that a
\* data-only load hides keep their old results.  And no result is missing when the cells
\* are those of the last calculation and stay where they are
\* (_formula_cache.py:96-120, 275-330).
SavedResultsAreCurrent ==
  [][written' # written /\ calculated.done =>
       LET formulas == DOMAIN FormulasOf(written'.cells)
       IN /\ \A c \in formulas \cap DOMAIN written'.caches :
               c \in Hidden \/ moves # <<>> \/ Same(written'.caches[c], InFile(written', c))
          /\ moves # <<>> /\ session.mode = "modify" => DOMAIN written'.caches = {}
          /\ moves = <<>> /\ calculated.inputs = cells =>
               \A c \in formulas \ DOMAIN written'.caches : InFile(written', c) = NoValue]_vars

\* After any number of recalculations, every formula that was not itself given a
\* value has the value that a calculation of the whole would give it, although
\* only what the perturbed cells reach was evaluated; and the last one reported
\* every formula whose value it changed, no other, and each after the formulas
\* that it depends on (calc/_evaluator.py:393-449, calc/_graph.py:110-133).
RecalculationIsFull ==
  LET formulas == DOMAIN evaluator.formulas
      changed  == {f \in formulas \ DOMAIN report.inputs :
                     report # NoReport /\ ~Same(report.before[f], evaluator.values[f])}
  IN /\ \A f \in formulas \ forced :
          evaluator.values[f] = EvaluateFormula(evaluator.formulas[f], evaluator.values)
     /\ ToSet(report.deltas) = changed /\ IsInjective(report.deltas)
     /\ \A i, j \in DOMAIN report.deltas :
          report.deltas[i] \in ToSet(evaluator.formulas[report.deltas[j]].refs) => i < j
=============================================================================
