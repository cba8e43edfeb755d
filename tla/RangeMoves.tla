------------------------------ MODULE RangeMoves ------------------------------
(***************************************************************************)
(* Moving a rectangle of cells: crates/wolfxl-structural/src/range_move.rs.*)
(*                                                                         *)
(* A plan is a rectangle from lo to hi, how far it moves, and whether the  *)
(* formulas outside it are translated too.  Its caller has checked that it *)
(* moves and that it stays on the sheet.  A sheet is a set of cells, each  *)
(* with a label for its contents and the reference of its formula, if any, *)
(* and the attributes of its row elements.                                 *)
(***************************************************************************)
EXTENDS Shifts

ContainsRect(plan, lhs, rhs) ==
  \A a \in Axes : Low(lhs[a], rhs[a]) >= plan.lo[a] /\ High(lhs[a], rhs[a]) <= plan.hi[a]
ContainsCell(plan, cell) == ContainsRect(plan, cell, cell)
Relocated(cell, plan) == [a \in Axes |-> cell[a] + plan.by[a]]

\* move_range: what points into the rectangle goes with it, $ or not, against what
\* range_move.rs says of the marked references.
MoveDelta(plan) ==
  [by |-> [a \in Axes |-> 0], anchor |-> [a \in Axes |-> 0], band |-> {},
   bandSheet |-> NoSheet, formulaSheet |-> NoSheet,
   move |-> {[lo |-> plan.lo, hi |-> plan.hi, dst |-> Relocated(plan.lo, plan)]}]
TranslateText(refs, plan) == UNION {TranslateRef(r, MoveDelta(plan)) : r \in refs}

\* Fault: moved cells keep their formulas as they were.
MovedCellsVerbatim(cells, plan) ==
  {[c EXCEPT !.at = Relocated(c.at, plan)] : c \in {x \in cells : ContainsCell(plan, x.at)}}

\* The cells inside the rectangle are relocated, with their formulas; of the
\* others, those that they come to lie on are dropped.
MovedCells(cells, plan) ==
  {[c EXCEPT !.at = Relocated(c.at, plan), !.refs = TranslateText(c.refs, plan)] :
     c \in {x \in cells : ContainsCell(plan, x.at)}}
ExternalCells(cells, plan) ==
  {[c EXCEPT !.refs = IF plan.translate THEN TranslateText(c.refs, plan) ELSE c.refs] :
     c \in {x \in cells : ~ContainsCell(plan, x.at)}}

\* A row element is written for each row that has cells, with the attributes
\* that the row had, or the one that it came from.
InverseRow(r, plan) ==
  IF r \in (plan.lo["row"] + plan.by["row"])..(plan.hi["row"] + plan.by["row"])
    THEN r - plan.by["row"] ELSE r

RewriteSheetData(sheet, plan) ==
  LET moved == MovedCells(sheet.cells, plan)
      kept == {c \in ExternalCells(sheet.cells, plan) : \A m \in moved : m.at # c.at}
      rows == {c.at["row"] : c \in moved \cup kept}
  IN [cells |-> moved \cup kept,
      attrs |-> [r \in rows |-> IF InverseRow(r, plan) \in DOMAIN sheet.attrs
                                  THEN sheet.attrs[InverseRow(r, plan)] ELSE ""]]

\* Merges, hyperlinks, validations and formats move if they lie inside.
MoveOneAnchor(ref, plan) ==
  IF ref.kind # "span" /\ ContainsRect(plan, ref.lhs, ref.rhs)
    THEN [ref EXCEPT !.lhs = Relocated(@, plan), !.rhs = Relocated(@, plan)] ELSE ref
=============================================================================
