-------------------------------- MODULE Shifts --------------------------------
(***************************************************************************)
(* What inserting and deleting rows or columns rewrites in a worksheet and *)
(* around it: crates/wolfxl-structural, and the reference translation of   *)
(* crates/wolfxl-formula that it calls.                                    *)
(*                                                                         *)
(* A cell is a function on the axes; an endpoint of a whole row or a whole *)
(* column reference is a function on one of them.  A result that may be    *)
(* #REF!, or dropped, is a set with at most one element.  The $ marks stay *)
(* where they are and change nothing: every insertion and deletion is      *)
(* asked for with respect_dollar FALSE, and a move, which asks for TRUE,   *)
(* shifts by nothing: the flag is not read where a reference into the      *)
(* rectangle is re-anchored.                                               *)
(***************************************************************************)
EXTENDS Integers, FiniteSets, SequencesExt

CONSTANT MaxOf   \* MAX_ROW and MAX_COL

Axes == {"row", "col"}
ASSUME MaxAssumption == MaxOf \in [Axes -> Nat \ {0, 1}]

NoSheet == ""
Low(p, q) == IF p <= q THEN p ELSE q
High(p, q) == IF p <= q THEN q ELSE p

\* A shift: n > 0 inserts before idx, n < 0 deletes from idx on.
Inserts(plan) == plan.n > 0
AbsN(plan) == IF plan.n > 0 THEN plan.n ELSE -plan.n
BandLo(plan) == plan.idx
BandHi(plan) == plan.idx + AbsN(plan) - 1
InBand(plan, i) == ~Inserts(plan) /\ i \in BandLo(plan)..BandHi(plan)

-----------------------------------------------------------------------------
(* translate: the references of a formula. *)

\* The translator's instructions for a shift; the band is what is deleted, on
\* bandSheet or, without one, wherever a reference points.
Delta(plan, sheet) ==
  [by |-> [a \in Axes |-> IF a = plan.axis THEN plan.n ELSE 0],
   anchor |-> [a \in Axes |-> IF a # plan.axis THEN 0
                              ELSE IF Inserts(plan) THEN plan.idx ELSE plan.idx + AbsN(plan)],
   band |-> IF Inserts(plan) THEN {}
            ELSE {[axis |-> plan.axis, lo |-> BandLo(plan), hi |-> BandHi(plan)]},
   bandSheet |-> IF Inserts(plan) THEN NoSheet ELSE sheet,
   formulaSheet |-> sheet,
   move |-> {}]

Target(sheet, d) == IF sheet = NoSheet THEN d.formulaSheet ELSE sheet
Hit(sheet, d) == d.bandSheet \in {NoSheet, Target(sheet, d)}
Deleted(cell, d) == \E b \in d.band : cell[b.axis] \in b.lo..b.hi
Fits(cell) == \A a \in DOMAIN cell : cell[a] \in 1..MaxOf[a]

Moved(sheet, cell, d) ==
  LET into == {m \in d.move :
                 /\ d.formulaSheet \in {NoSheet, Target(sheet, d)}
                 /\ \A a \in Axes : cell[a] \in m.lo[a]..m.hi[a]}
  IN [a \in Axes |-> IF into = {} THEN cell[a]
                     ELSE LET m == CHOOSE m \in into : TRUE
                          IN cell[a] + m.dst[a] - m.lo[a]]

\* Fault: the first row after the insertion stays.
ShiftedAfter(cell, d) ==
  [a \in DOMAIN cell |->
     IF d.by[a] # 0 /\ d.anchor[a] > 0 /\ cell[a] > d.anchor[a] THEN cell[a] + d.by[a] ELSE cell[a]]

\* The shift applies whatever sheet the reference names.
Shifted(cell, d) ==
  [a \in DOMAIN cell |->
     IF d.by[a] # 0 /\ d.anchor[a] > 0 /\ cell[a] >= d.anchor[a] THEN cell[a] + d.by[a] ELSE cell[a]]
Carried(cell, d) == {c \in {Shifted(cell, d)} : Fits(cell) /\ Fits(c)}

TranslateCell(sheet, cell, d) ==
  IF Hit(sheet, d) /\ Deleted(cell, d) THEN {} ELSE Carried(Moved(sheet, cell, d), d)

\* clip_range: the part of a range that a deleted band leaves.
ClipRange(lhs, rhs, b) ==
  LET lo == Low(lhs[b.axis], rhs[b.axis])
      hi == High(lhs[b.axis], rhs[b.axis])
      newLo == IF b.lo <= lo THEN b.hi + 1 ELSE lo
      newHi == IF b.hi >= hi THEN b.lo - 1 ELSE hi
      up == lhs[b.axis] <= rhs[b.axis]
  IN IF b.hi < lo \/ b.lo > hi THEN {<<lhs, rhs>>}
     ELSE IF b.lo <= lo /\ b.hi >= hi THEN {}
     ELSE {<<[lhs EXCEPT ![b.axis] = IF up THEN newLo ELSE newHi],
             [rhs EXCEPT ![b.axis] = IF up THEN newHi ELSE newLo]>>}

Whole(lhs, rhs) ==
  \A a \in DOMAIN lhs : Low(lhs[a], rhs[a]) = 1 /\ High(lhs[a], rhs[a]) = MaxOf[a]
Acts(d, axes) == d.band # {} \/ \E a \in axes : d.by[a] # 0 /\ d.anchor[a] > 0

Pair(ls, rs) == {<<l, r>> : l \in ls, r \in rs}
TranslateRange(sheet, lhs, rhs, d) ==
  IF Whole(lhs, rhs) /\ Acts(d, Axes) THEN {<<lhs, rhs>>}
  ELSE IF d.band # {} /\ Hit(sheet, d)
    THEN UNION {Pair(Carried(c[1], d), Carried(c[2], d)) :
                  c \in UNION {ClipRange(lhs, rhs, b) : b \in d.band}}
  ELSE Pair(TranslateCell(sheet, lhs, d), TranslateCell(NoSheet, rhs, d))

\* A whole row or whole column reference.  Nothing clips it: it is lost when
\* the band covers it, and its ends are moved one by one when it does not.
TranslateSpan(lhs, rhs, d) ==
  LET axis == CHOOSE a \in Axes : a \in DOMAIN lhs
      here == {b \in d.band : b.axis = axis}
  IN IF Whole(lhs, rhs) /\ (here # {} \/ (d.by[axis] # 0 /\ d.anchor[axis] > 0))
       THEN {<<lhs, rhs>>}
     ELSE IF \E b \in here : /\ b.lo <= Low(lhs[axis], rhs[axis])
                             /\ b.hi >= High(lhs[axis], rhs[axis]) THEN {}
     ELSE Pair(Carried(lhs, d), Carried(rhs, d))

Ends(ref, pairs) == {[ref EXCEPT !.lhs = p[1], !.rhs = p[2]] : p \in pairs}
TranslateRef(ref, d) ==
  CASE ref.kind = "cell" -> Ends(ref, {<<c, c>> : c \in TranslateCell(ref.sheet, ref.lhs, d)})
    [] ref.kind = "range" -> Ends(ref, TranslateRange(ref.sheet, ref.lhs, ref.rhs, d))
    [] ref.kind = "span" -> Ends(ref, TranslateSpan(ref.lhs, ref.rhs, d))

ShiftFormula(ref, plan) == TranslateRef(ref, Delta(plan, NoSheet))
ShiftFormulaOnSheet(ref, plan, sheet) == TranslateRef(ref, Delta(plan, sheet))

-----------------------------------------------------------------------------
(* shift_anchors: ref and sqref attributes. *)

AnchorCell(cell, plan) ==
  LET a == plan.axis
  IN IF a \notin DOMAIN cell THEN {cell}
     ELSE IF InBand(plan, cell[a]) THEN {}
     ELSE LET from == IF Inserts(plan) THEN plan.idx ELSE plan.idx + AbsN(plan)
              c == [cell EXCEPT ![a] = IF @ >= from THEN @ + plan.n ELSE @]
          IN {x \in {c} : x[a] \in 1..MaxOf[a]}

\* Fault: the last row that is left is taken to be the first that is deleted.
SnappedShort(plan, low, i) ==
  LET kept == IF ~InBand(plan, i) THEN i ELSE IF low THEN BandHi(plan) + 1 ELSE BandLo(plan)
  IN IF kept > BandHi(plan) THEN kept + plan.n ELSE kept

\* An end that the deletion takes snaps to what is left of the range.
Snapped(plan, low, i) ==
  LET kept == IF ~InBand(plan, i) THEN i ELSE IF low THEN BandHi(plan) + 1 ELSE BandLo(plan) - 1
  IN IF kept > BandHi(plan) THEN kept + plan.n ELSE kept

AnchorRange(lhs, rhs, plan) ==
  LET a == plan.axis
      lo == Low(lhs[a], rhs[a])
      hi == High(lhs[a], rhs[a])
      Ended(l, r) == <<[lhs EXCEPT ![a] = l], [rhs EXCEPT ![a] = r]>>
      Pushed(i) == IF i >= plan.idx THEN i + plan.n ELSE i
  IN IF a \notin DOMAIN lhs THEN {<<lhs, rhs>>}
     ELSE IF Inserts(plan)
       THEN {Ended(Pushed(lhs[a]), Pushed(rhs[a])) : x \in {i \in {hi} : Pushed(i) <= MaxOf[a]}}
     ELSE IF BandHi(plan) < lo THEN {Ended(lhs[a] + plan.n, rhs[a] + plan.n)}
     ELSE IF BandLo(plan) > hi THEN {<<lhs, rhs>>}
     ELSE IF BandLo(plan) <= lo /\ BandHi(plan) >= hi THEN {}
     ELSE LET up == lhs[a] <= rhs[a]
          IN {Ended(Snapped(plan, up, lhs[a]), Snapped(plan, ~up, rhs[a]))}

ShiftAnchor(ref, plan) ==
  IF ref.kind = "cell" THEN Ends(ref, {<<c, c>> : c \in AnchorCell(ref.lhs, plan)})
  ELSE Ends(ref, AnchorRange(ref.lhs, ref.rhs, plan))

-----------------------------------------------------------------------------
(* shift_cells: a row element, and a cell in it. *)

ShiftedRow(r, plan) ==
  IF plan.axis # "row" THEN {r}
  ELSE IF InBand(plan, r) THEN {}
  ELSE LET from == IF Inserts(plan) THEN plan.idx ELSE plan.idx + AbsN(plan)
           new == IF r >= from THEN r + plan.n ELSE r
       IN {x \in {new} : new >= 1 /\ (Inserts(plan) => new <= MaxOf["row"])}

\* A cell goes with its row element and keeps the coordinates that it is given.
ShiftedCell(cell, plan) ==
  IF ShiftedRow(cell["row"], plan) = {} THEN {} ELSE AnchorCell(cell, plan)

-----------------------------------------------------------------------------
(* cols: the spans of columns that share a width and a style. *)

Span(min, max, attrs) == [min |-> min, max |-> max, attrs |-> attrs]
SplitSpan(s, plan) ==
  LET lower == IF s.min < plan.idx THEN <<Span(s.min, plan.idx - 1, s.attrs)>> ELSE <<>>
  IN IF s.max < plan.idx THEN <<s>>
     ELSE IF Inserts(plan)
       THEN lower \o <<Span(High(s.min, plan.idx) + plan.n, s.max + plan.n, s.attrs)>>
     ELSE IF s.min > BandHi(plan) THEN <<Span(s.min + plan.n, s.max + plan.n, s.attrs)>>
     ELSE lower \o (IF s.max > BandHi(plan)
                      THEN <<Span(BandHi(plan) + 1 + plan.n, s.max + plan.n, s.attrs)>> ELSE <<>>)

SplitColSpans(spans, plan) ==
  IF plan.axis # "col" THEN spans
  ELSE FoldLeft(LAMBDA done, s : done \o SplitSpan(s, plan), <<>>, spans)

-----------------------------------------------------------------------------
(* drawing_shift and vml_shift: anchors that count from zero. *)

\* A drawing's end in a deleted band goes to where the band was.
ShiftedMarker(z, plan) ==
  IF Inserts(plan) THEN (IF z + 1 >= plan.idx THEN z + plan.n ELSE z)
  ELSE IF InBand(plan, z + 1) THEN plan.idx - 1
  ELSE IF z + 1 > BandHi(plan) THEN z + plan.n ELSE z

\* A note's shape: the cell it belongs to, and the box it is drawn in.
OnSheet(z, axis) == z \in 0..(MaxOf[axis] - 1)
ShiftedBox(from, to, plan) ==
  IF InBand(plan, from + 1) /\ InBand(plan, to + 1) THEN {}
  ELSE LET start == ShiftedMarker(from, plan)
           end == IF InBand(plan, to + 1) THEN plan.idx - 2 ELSE ShiftedMarker(to, plan)
       IN {b \in {<<start, end>>} :
             OnSheet(start, plan.axis) /\ OnSheet(end, plan.axis) /\ end >= start}

ShiftedShape(shape, plan) ==
  LET a == plan.axis
      marker == {z \in {ShiftedMarker(shape.of[a], plan)} :
                   ~InBand(plan, shape.of[a] + 1) /\ OnSheet(z, a)}
  IN {[of |-> [shape.of EXCEPT ![a] = z], from |-> [shape.from EXCEPT ![a] = b[1]],
       to |-> [shape.to EXCEPT ![a] = b[2]]] :
        z \in marker, b \in ShiftedBox(shape.from[a], shape.to[a], plan)}

-----------------------------------------------------------------------------
(* table_shift: a table's range and its columns. *)

\* Fault: inserted columns are numbered from one.
NewColumnsFromOne(columns, n) == [k \in 1..n |-> k]

\* Columns are named by numbers; an inserted one gets the next free number.
NewColumns(columns, n) ==
  LET top == FoldLeft(High, 0, columns) IN [k \in 1..n |-> top + k]

TableColumns(columns, lo, hi, plan) ==
  IF Inserts(plan)
    THEN IF plan.idx > hi \/ plan.idx <= lo THEN columns
         ELSE SubSeq(columns, 1, plan.idx - lo) \o NewColumns(columns, plan.n)
              \o SubSeq(columns, plan.idx - lo + 1, Len(columns))
  ELSE FoldLeft(LAMBDA kept, i : IF InBand(plan, lo + i - 1) THEN kept ELSE Append(kept, columns[i]),
                <<>>, [i \in 1..Len(columns) |-> i])

\* A table is its range, its columns and whether it has a header row.  The
\* range tells which columns it has before the shift, and it is the shifted
\* range whose first row is looked for in the deleted rows.
ShiftTable(table, plan) ==
  LET lo == Low(table.lhs["col"], table.rhs["col"])
      hi == High(table.lhs["col"], table.rhs["col"])
      columns == IF plan.axis = "col" THEN TableColumns(table.columns, lo, hi, plan)
                 ELSE table.columns
  IN {[lhs |-> p[1], rhs |-> p[2], columns |-> columns,
       header |-> table.header /\ ~(plan.axis = "row" /\ InBand(plan, p[1]["row"]))] :
        p \in AnchorRange(table.lhs, table.rhs, plan)}

-----------------------------------------------------------------------------
(* shift_defined_names: a name has a reference and, perhaps, a sheet of its own. *)

ShiftName(name, plan, sheet) ==
  IF name.scope \in {NoSheet, sheet} THEN ShiftFormulaOnSheet(name.ref, plan, sheet) ELSE {name.ref}
=============================================================================
