--------------------------- MODULE RewritesProofs ---------------------------
(* The laws of the rewritings, for every size of a sheet, every insertion,
   deletion and move, every reference, span, shape and table, and every patched
   sheet. *)
EXTENDS Rewrites, SequenceLemmas, FiniteSetTheorems

-----------------------------------------------------------------------------
(* Rows and columns under a plan. *)

ShiftPlans == [axis : Axes, idx : Nat \ {0}, n : Int \ {0}]

\* The first row or column that moves, where one goes, and whether it is left.
From(plan) == IF Inserts(plan) THEN plan.idx ELSE plan.idx + AbsN(plan)
After(plan, i) == IF i >= From(plan) THEN i + plan.n ELSE i
Stays(plan, i) == ~InBand(plan, i) /\ After(plan, i) <= MaxOf[plan.axis]

\* The sizes of the sheet are numbers above one.
LEMMA Sizes == \A a \in Axes : MaxOf[a] \in Nat /\ MaxOf[a] > 1
BY MaxAssumption

\* The numbers of a plan.
LEMMA PlanNumbers ==
  ASSUME NEW plan \in ShiftPlans
  PROVE  /\ plan.axis \in Axes /\ plan.idx \in Nat /\ plan.idx > 0 /\ plan.n \in Int
         /\ Inserts(plan) => plan.n > 0 /\ From(plan) = plan.idx
         /\ ~Inserts(plan) => plan.n < 0 /\ From(plan) = plan.idx - plan.n
         /\ \A i \in Int : InBand(plan, i) <=>
              plan.n < 0 /\ plan.idx <= i /\ i <= plan.idx - plan.n - 1
         /\ BandLo(plan) = plan.idx
         /\ plan.n < 0 => BandHi(plan) = plan.idx - plan.n - 1
<1>1. plan.axis \in Axes /\ plan.idx \in Nat \ {0} /\ plan.n \in Int \ {0}
  BY DEF ShiftPlans
<1>2. QED
  BY <1>1 DEF Inserts, From, AbsN, InBand, BandLo, BandHi

\* A cell of the sheet has a row and a column of it.
LEMMA CellsFit ==
  ASSUME NEW cell \in Cells
  PROVE  /\ cell \in [Axes -> Nat] /\ DOMAIN cell = Axes
         /\ \A a \in Axes : cell[a] \in Nat /\ 1 <= cell[a] /\ cell[a] <= MaxOf[a]
<1>1. cell \in [Axes -> 1..High(MaxOf["row"], MaxOf["col"])] /\ Fits(cell)
  BY DEF Cells
<1>2. \A a \in Axes : MaxOf[a] \in Nat
  BY Sizes
<1>3. High(MaxOf["row"], MaxOf["col"]) \in Nat
  BY <1>2 DEF High, Axes
<1>4. QED
  BY <1>1, <1>2, <1>3 DEF Fits

\* A function on the axes within the bounds is a cell.
LEMMA FittingIsCell ==
  ASSUME NEW cell \in [Axes -> Nat], \A a \in Axes : 1 <= cell[a] /\ cell[a] <= MaxOf[a]
  PROVE  cell \in Cells /\ Fits(cell)
<1>1. \A a \in Axes : MaxOf[a] \in Nat
  BY Sizes
<1> DEFINE top == High(MaxOf["row"], MaxOf["col"])
<1>2. top \in Nat /\ MaxOf["row"] <= top /\ MaxOf["col"] <= top
  BY <1>1 DEF High, Axes
<1>3. \A a \in Axes : MaxOf[a] <= top
  BY <1>2 DEF Axes
<1> HIDE DEF top
<1>4. \A a \in Axes : cell[a] \in 1..top /\ cell[a] \in 1..MaxOf[a]
  BY <1>1, <1>2, <1>3
<1>5. cell \in [Axes -> 1..top] /\ Fits(cell)
  BY <1>4 DEF Fits
<1>6. QED
  BY <1>5 DEF Cells, top

\* Where a cell goes, and where its row element goes.
LEMMA AnchorCellIs ==
  ASSUME NEW plan \in ShiftPlans, NEW cell \in Cells
  PROVE  /\ AnchorCell(cell, plan) =
              IF Stays(plan, cell[plan.axis])
              THEN {[cell EXCEPT ![plan.axis] = After(plan, cell[plan.axis])]} ELSE {}
         /\ plan.axis # "row" => ShiftedRow(cell["row"], plan) = {cell["row"]}
         /\ plan.axis = "row" =>
              ShiftedRow(cell["row"], plan) =
                IF Stays(plan, cell["row"]) THEN {After(plan, cell["row"])} ELSE {}
<1> DEFINE a == plan.axis
           i == cell[a]
           new == [cell EXCEPT ![a] = After(plan, i)]
<1>1. /\ a \in Axes /\ DOMAIN cell = Axes /\ i \in Nat /\ 1 <= i /\ i <= MaxOf[a]
      /\ cell["row"] \in Nat
  BY CellsFit, PlanNumbers DEF Axes
<1>2. MaxOf[a] \in Nat /\ MaxOf["row"] \in Nat
  BY <1>1, Sizes DEF Axes
<1>3. /\ After(plan, i) \in Int
      /\ ~InBand(plan, i) => After(plan, i) >= 1
      /\ ~Inserts(plan) => After(plan, i) <= MaxOf[a]
      /\ new[a] = After(plan, i)
  BY <1>1, <1>2, PlanNumbers DEF After
<1>4. AnchorCell(cell, plan) = IF Stays(plan, i) THEN {new} ELSE {}
  <2>1. CASE InBand(plan, i)
    BY <1>1, <2>1 DEF AnchorCell, Stays
  <2>2. CASE ~InBand(plan, i)
    <3>1. AnchorCell(cell, plan) = {x \in {new} : x[a] \in 1..MaxOf[a]}
      BY <1>1, <2>2 DEF AnchorCell, After, From
    <3>2. new[a] \in 1..MaxOf[a] <=> Stays(plan, i)
      BY <1>2, <1>3, <2>2 DEF Stays
    <3> HIDE DEF new
    <3>3. QED
      BY <3>1, <3>2
  <2>3. QED
    BY <2>1, <2>2
<1>5. a # "row" => ShiftedRow(cell["row"], plan) = {cell["row"]}
  BY DEF ShiftedRow
<1>6. a = "row" => ShiftedRow(cell["row"], plan) =
                     IF Stays(plan, cell["row"]) THEN {After(plan, cell["row"])} ELSE {}
  <2>1. CASE a = "row" /\ InBand(plan, i)
    BY <2>1 DEF Stays, ShiftedRow
  <2>2. CASE a = "row" /\ ~InBand(plan, i)
    <3> DEFINE later == After(plan, i)
    <3>1. ShiftedRow(cell["row"], plan) =
            {x \in {later} : x >= 1 /\ (Inserts(plan) => x <= MaxOf["row"])}
      BY <2>2 DEF ShiftedRow, After, From
    <3>2. later >= 1 /\ (~Inserts(plan) => later <= MaxOf["row"])
      BY <1>3, <2>2
    <3>3. Stays(plan, i) <=> later <= MaxOf["row"]
      BY <2>2 DEF Stays
    <3> HIDE DEF later
    <3>4. ShiftedRow(cell["row"], plan) = IF Stays(plan, i) THEN {later} ELSE {}
      BY <3>1, <3>2, <3>3
    <3>5. QED
      BY <2>2, <3>4 DEF later
  <2>3. CASE a # "row"
    BY <2>3
  <2>4. QED
    BY <2>1, <2>2, <2>3
<1>7. QED
  BY <1>4, <1>5, <1>6

\* Its row element and its coordinates agree.
LEMMA ShiftedCellIs ==
  ASSUME NEW plan \in ShiftPlans, NEW cell \in Cells
  PROVE  ShiftedCell(cell, plan) =
           IF Stays(plan, cell[plan.axis])
           THEN {[cell EXCEPT ![plan.axis] = After(plan, cell[plan.axis])]} ELSE {}
<1>1. AnchorCell(cell, plan) =
        IF Stays(plan, cell[plan.axis])
        THEN {[cell EXCEPT ![plan.axis] = After(plan, cell[plan.axis])]} ELSE {}
  BY AnchorCellIs
<1>2. ShiftedRow(cell["row"], plan) = {} => ~Stays(plan, cell[plan.axis])
  BY AnchorCellIs
<1>3. QED
  BY <1>1, <1>2 DEF ShiftedCell
-----------------------------------------------------------------------------
(* When a reference follows its cells: what is asked of it on each axis. *)

Spanned(ref, a, i) == Low(ref.lhs[a], ref.rhs[a]) <= i /\ i <= High(ref.lhs[a], ref.rhs[a])

\* A new reference covers, on the axis of the plan, what stays of the old one,
\* and on the other axis what the old one covers.
Matches(ref, new, plan) ==
  /\ DOMAIN new.lhs = DOMAIN ref.lhs
  /\ \A b \in DOMAIN ref.lhs : b # plan.axis => new.lhs[b] = ref.lhs[b] /\ new.rhs[b] = ref.rhs[b]
  /\ plan.axis \in DOMAIN ref.lhs =>
       /\ new.lhs[plan.axis] \in Nat /\ new.rhs[plan.axis] \in Nat
       /\ \A i \in 1..MaxOf[plan.axis] : Stays(plan, i) =>
            (Spanned(new, plan.axis, After(plan, i)) <=> Spanned(ref, plan.axis, i))

\* Something of the reference stays, on the axis of the plan.
Lasts(ref, plan) ==
  plan.axis \in DOMAIN ref.lhs =>
    \E i \in 1..MaxOf[plan.axis] : Spanned(ref, plan.axis, i) /\ Stays(plan, i)
PushedOff(ref, plan) ==
  /\ plan.axis \in DOMAIN ref.lhs /\ Inserts(plan)
  /\ High(ref.lhs[plan.axis], ref.rhs[plan.axis]) + plan.n > MaxOf[plan.axis]
NothingLeft(ref, plan) ==
  /\ plan.axis \in DOMAIN ref.lhs
  /\ \A i \in 1..MaxOf[plan.axis] : Spanned(ref, plan.axis, i) => ~Stays(plan, i)

GoodNews(ref, plan, news) ==
  /\ \A new \in news : Matches(ref, new, plan)
  /\ news = {} => PushedOff(ref, plan) \/ NothingLeft(ref, plan)
  /\ news # {} => Lasts(ref, plan)

\* The ends of a reference are on the sheet.
LEMMA ReferenceEnds ==
  ASSUME NEW ref \in References
  PROVE  /\ DOMAIN ref.lhs \subseteq Axes /\ DOMAIN ref.rhs = DOMAIN ref.lhs
         /\ DOMAIN ref.lhs # {}
         /\ ref.lhs \in [DOMAIN ref.lhs -> Nat] /\ ref.rhs \in [DOMAIN ref.lhs -> Nat]
         /\ \A a \in DOMAIN ref.lhs : /\ ref.lhs[a] \in Nat /\ 1 <= ref.lhs[a] /\ ref.lhs[a] <= MaxOf[a]
                                      /\ ref.rhs[a] \in Nat /\ 1 <= ref.rhs[a] /\ ref.rhs[a] <= MaxOf[a]
         /\ ref.kind # "span" => ref.lhs \in Cells /\ ref.rhs \in Cells
         /\ ref.kind = "span" => \E a \in Axes : DOMAIN ref.lhs = {a}
<1>1. \/ ref.lhs \in Cells /\ ref.rhs \in Cells /\ ref.kind # "span"
      \/ \E a \in Axes : ref.lhs \in EndsOf(a) /\ ref.rhs \in EndsOf(a) /\ ref.kind = "span"
  BY DEF References
<1>2. CASE ref.lhs \in Cells /\ ref.rhs \in Cells /\ ref.kind # "span"
  <2>1. /\ DOMAIN ref.lhs = Axes /\ DOMAIN ref.rhs = Axes
        /\ ref.lhs \in [Axes -> Nat] /\ ref.rhs \in [Axes -> Nat]
        /\ \A a \in Axes : /\ ref.lhs[a] \in Nat /\ 1 <= ref.lhs[a] /\ ref.lhs[a] <= MaxOf[a]
                           /\ ref.rhs[a] \in Nat /\ 1 <= ref.rhs[a] /\ ref.rhs[a] <= MaxOf[a]
    BY <1>2, CellsFit
  <2>2. Axes # {}
    BY DEF Axes
  <2>3. QED
    BY <1>2, <2>1, <2>2
<1>3. CASE \E a \in Axes : ref.lhs \in EndsOf(a) /\ ref.rhs \in EndsOf(a) /\ ref.kind = "span"
  <2>1. PICK a \in Axes : ref.lhs \in EndsOf(a) /\ ref.rhs \in EndsOf(a) /\ ref.kind = "span"
    BY <1>3
  <2>2. MaxOf[a] \in Nat
    BY Sizes
  <2>3. QED
    BY <2>1, <2>2 DEF EndsOf
<1>4. QED
  BY <1>1, <1>2, <1>3

\* Good news follow the cells.
LEMMA GoodNewsFollow ==
  ASSUME NEW plan \in ShiftPlans, NEW ref \in References, NEW news, GoodNews(ref, plan, news)
  PROVE  Follows(ref, plan, news)
<1> DEFINE a == plan.axis
           D == DOMAIN ref.lhs
           moves == UNION {{<<c, moved>> : moved \in ShiftedCell(c, plan)} : c \in Cells}
           To(c) == [c EXCEPT ![a] = After(plan, c[a])]
<1>1. a \in Axes /\ D \subseteq Axes
  BY PlanNumbers, ReferenceEnds
<1>2. \A m \in moves : /\ m[1] \in Cells /\ Stays(plan, m[1][a])
                       /\ m = <<m[1], m[2]>> /\ m[2] = To(m[1])
  <2> SUFFICES ASSUME NEW c \in Cells, NEW moved \in ShiftedCell(c, plan)
               PROVE  Stays(plan, c[a]) /\ moved = To(c)
    OBVIOUS
  <2>1. QED
    BY ShiftedCellIs
<1>3. \A c \in Cells : Stays(plan, c[a]) => <<c, To(c)>> \in moves
  <2> SUFFICES ASSUME NEW c \in Cells, Stays(plan, c[a]) PROVE <<c, To(c)>> \in moves
    OBVIOUS
  <2>1. To(c) \in ShiftedCell(c, plan)
    BY ShiftedCellIs
  <2> HIDE DEF To
  <2>2. QED
    BY <2>1
<1> HIDE DEF moves
<1>4. ASSUME NEW new \in news, NEW m \in moves PROVE Covers(new, m[2]) <=> Covers(ref, m[1])
  <2> DEFINE c == m[1]
             d == m[2]
  <2>1. c \in Cells /\ Stays(plan, c[a]) /\ d = To(c)
    BY <1>2
  <2>2. /\ DOMAIN c = Axes /\ \A b \in Axes : c[b] \in Nat /\ 1 <= c[b] /\ c[b] <= MaxOf[b]
    BY <2>1, CellsFit
  <2>3. d[a] = After(plan, c[a]) /\ \A b \in Axes : b # a => d[b] = c[b]
    BY <1>1, <2>1, <2>2
  <2>4. Matches(ref, new, plan)
    BY DEF GoodNews
  <2>5. \A b \in D : Spanned(new, b, d[b]) <=> Spanned(ref, b, c[b])
    <3> TAKE b \in D
    <3>1. CASE b = a
      <4>1. c[a] \in 1..MaxOf[a]
        BY <1>1, <2>2, Sizes
      <4>2. QED
        BY <2>1, <2>3, <2>4, <3>1, <4>1 DEF Matches
    <3>2. CASE b # a
      BY <1>1, <2>3, <2>4, <3>2 DEF Matches, Spanned
    <3>3. QED
      BY <3>1, <3>2
  <2>6. \A b \in D : c[b] \in Int /\ d[b] \in Int
    <3>1. After(plan, c[a]) \in Int
      BY <1>1, <2>2, PlanNumbers DEF After
    <3>2. QED
      BY <1>1, <2>2, <2>3, <3>1
  <2>7. /\ \A b \in D : ref.lhs[b] \in Nat /\ ref.rhs[b] \in Nat /\ new.lhs[b] \in Nat /\ new.rhs[b] \in Nat
        /\ DOMAIN new.lhs = D
    BY <1>1, <2>4, ReferenceEnds DEF Matches
  <2> HIDE DEF c, d
  <2>8. \A b \in D : /\ d[b] \in Low(new.lhs[b], new.rhs[b])..High(new.lhs[b], new.rhs[b])
                          <=> Spanned(new, b, d[b])
                     /\ c[b] \in Low(ref.lhs[b], ref.rhs[b])..High(ref.lhs[b], ref.rhs[b])
                          <=> Spanned(ref, b, c[b])
    BY <2>6, <2>7 DEF Spanned, Low, High
  <2>9. QED
    BY <2>5, <2>7, <2>8 DEF Covers, c, d
<1>5. ASSUME NEW m \in moves, NothingLeft(ref, plan) PROVE ~Covers(ref, m[1])
  <2> DEFINE c == m[1]
  <2>1. c \in Cells /\ Stays(plan, c[a])
    BY <1>2
  <2>2. c[a] \in 1..MaxOf[a]
    BY <1>1, <2>1, CellsFit, Sizes
  <2>3. a \in D /\ ~Spanned(ref, a, c[a])
    BY <1>5, <2>1, <2>2 DEF NothingLeft
  <2>4. ref.lhs[a] \in Nat /\ ref.rhs[a] \in Nat
    BY <2>3, ReferenceEnds
  <2>5. ~(c[a] \in Low(ref.lhs[a], ref.rhs[a])..High(ref.lhs[a], ref.rhs[a]))
    BY <2>2, <2>3, <2>4 DEF Spanned, Low, High
  <2>6. QED
    BY <2>3, <2>5 DEF Covers
<1>6. ASSUME moves # {}, Lasts(ref, plan) PROVE \E m \in moves : Covers(ref, m[1])
  <2>1. PICK i \in 1..MaxOf[a] : Stays(plan, i) /\ (a \in D => Spanned(ref, a, i))
    <3>1. CASE a \in D
      BY <1>6, <3>1 DEF Lasts
    <3>2. CASE a \notin D
      <4>1. PICK m \in moves : TRUE
        BY <1>6
      <4>2. m[1] \in Cells /\ Stays(plan, m[1][a])
        BY <1>2
      <4>3. m[1][a] \in 1..MaxOf[a]
        BY <1>1, <4>2, CellsFit, Sizes
      <4>4. QED
        BY <3>2, <4>2, <4>3
    <3>3. QED
      BY <3>1, <3>2
  <2> DEFINE c == [b \in Axes |-> IF b = a THEN i ELSE IF b \in D THEN ref.lhs[b] ELSE 1]
  <2>2. c \in Cells /\ c[a] = i
    <3>1. \A b \in Axes : c[b] \in Nat /\ 1 <= c[b] /\ c[b] <= MaxOf[b]
      <4> TAKE b \in Axes
      <4>1. MaxOf[b] \in Nat /\ MaxOf[b] > 1 /\ MaxOf[a] \in Nat
        BY <1>1, Sizes
      <4>2. QED
        BY <1>1, <4>1, ReferenceEnds
    <3>2. c \in [Axes -> Nat]
      BY <3>1
    <3>3. c[a] = i
      BY <1>1
    <3> HIDE DEF c
    <3>4. QED
      BY <3>1, <3>2, <3>3, FittingIsCell
  <2>3. <<c, To(c)>> \in moves
    BY <1>3, <2>1, <2>2
  <2>4. \A b \in D : Spanned(ref, b, c[b]) /\ c[b] \in Int
    <3> TAKE b \in D
    <3>1. b \in Axes /\ ref.lhs[b] \in Nat /\ ref.rhs[b] \in Nat
      BY <1>1, ReferenceEnds
    <3>2. CASE b = a
      BY <2>1, <2>2, <3>2
    <3>3. CASE b # a
      BY <3>1, <3>3 DEF Spanned, Low, High
    <3>4. QED
      BY <3>2, <3>3
  <2>5. \A b \in D : ref.lhs[b] \in Nat /\ ref.rhs[b] \in Nat
    BY ReferenceEnds
  <2> HIDE DEF c
  <2>6. \A b \in D : c[b] \in Low(ref.lhs[b], ref.rhs[b])..High(ref.lhs[b], ref.rhs[b])
    BY <2>4, <2>5 DEF Spanned, Low, High
  <2>7. Covers(ref, c)
    BY <2>6 DEF Covers
  <2> DEFINE d == To(c)
  <2> HIDE DEF d
  <2>8. <<c, d>>[1] = c /\ <<c, d>> \in moves
    BY <2>3 DEF d
  <2>9. QED
    BY <2>7, <2>8
<1>7. CASE news = {}
  <2>1. PushedOff(ref, plan) \/ NothingLeft(ref, plan)
    BY <1>7 DEF GoodNews
  <2>2. QED
    BY <1>5, <1>7, <2>1 DEF Follows, moves, PushedOff
<1>8. CASE news # {}
  <2>1. Lasts(ref, plan)
    BY <1>8 DEF GoodNews
  <2>2. QED
    BY <1>4, <1>6, <1>8, <2>1 DEF Follows, moves
<1>9. QED
  BY <1>7, <1>8

-----------------------------------------------------------------------------
(* Ends that are clipped and then shifted. *)

\* The ends that a deletion leaves of a reference: on rows that stay, within
\* the reference, with everything that stays of it between them.
Clipped(ref, plan, l, r) ==
  /\ l \in 1..MaxOf[plan.axis] /\ r \in 1..MaxOf[plan.axis]
  /\ ~InBand(plan, l) /\ ~InBand(plan, r)
  /\ Spanned(ref, plan.axis, l) /\ Spanned(ref, plan.axis, r)
  /\ \A i \in 1..MaxOf[plan.axis] :
       Spanned(ref, plan.axis, i) /\ Stays(plan, i) => Low(l, r) <= i /\ i <= High(l, r)

\* A new reference with the clipped ends where they are now.
Shrunk(ref, new, plan) ==
  /\ DOMAIN new.lhs = DOMAIN ref.lhs
  /\ \A b \in DOMAIN ref.lhs : b # plan.axis => new.lhs[b] = ref.lhs[b] /\ new.rhs[b] = ref.rhs[b]
  /\ plan.axis \in DOMAIN ref.lhs =>
       \E l, r \in Nat :
         /\ Clipped(ref, plan, l, r)
         /\ new.lhs[plan.axis] = After(plan, l) /\ new.rhs[plan.axis] = After(plan, r)
         /\ After(plan, l) <= MaxOf[plan.axis] /\ After(plan, r) <= MaxOf[plan.axis]

\* Rows that stay keep their order.
LEMMA AfterKeepsOrder ==
  ASSUME NEW plan \in ShiftPlans, NEW i \in Nat, NEW j \in Nat, 1 <= i, 1 <= j,
         ~InBand(plan, i), ~InBand(plan, j)
  PROVE  /\ After(plan, i) <= After(plan, j) <=> i <= j
         /\ After(plan, i) \in Nat /\ After(plan, i) >= 1
         /\ ~Inserts(plan) => After(plan, i) <= i
BY PlanNumbers DEF After

\* Clipped and shifted ends follow the cells.
LEMMA ShrunkMatches ==
  ASSUME NEW plan \in ShiftPlans, NEW ref \in References, NEW new, Shrunk(ref, new, plan)
  PROVE  Matches(ref, new, plan) /\ Lasts(ref, plan)
<1> DEFINE a == plan.axis
<1>1. CASE a \notin DOMAIN ref.lhs
  BY <1>1 DEF Shrunk, Matches, Lasts
<1>2. CASE a \in DOMAIN ref.lhs
  <2>1. PICK l \in Nat, r \in Nat :
          /\ Clipped(ref, plan, l, r)
          /\ new.lhs[a] = After(plan, l) /\ new.rhs[a] = After(plan, r)
          /\ After(plan, l) <= MaxOf[a] /\ After(plan, r) <= MaxOf[a]
    BY <1>2 DEF Shrunk
  <2>2. /\ a \in Axes /\ MaxOf[a] \in Nat
        /\ ref.lhs[a] \in Nat /\ ref.rhs[a] \in Nat
    BY <1>2, PlanNumbers, ReferenceEnds, Sizes
  <2>3. /\ 1 <= l /\ 1 <= r /\ ~InBand(plan, l) /\ ~InBand(plan, r)
        /\ Spanned(ref, a, l) /\ Spanned(ref, a, r)
    BY <2>1, <2>2 DEF Clipped
  <2>4. /\ After(plan, l) \in Nat /\ After(plan, r) \in Nat
        /\ After(plan, l) <= After(plan, r) <=> l <= r
        /\ After(plan, r) <= After(plan, l) <=> r <= l
    BY <2>3, AfterKeepsOrder
  <2>5. ASSUME NEW i \in 1..MaxOf[a], Stays(plan, i)
        PROVE  Spanned(new, a, After(plan, i)) <=> Spanned(ref, a, i)
    <3>1. i \in Nat /\ 1 <= i /\ ~InBand(plan, i)
      BY <2>2, <2>5 DEF Stays
    <3>2. /\ After(plan, i) \in Nat
          /\ After(plan, i) <= After(plan, r) <=> i <= r
          /\ After(plan, r) <= After(plan, i) <=> r <= i
          /\ After(plan, i) <= After(plan, l) <=> i <= l
          /\ After(plan, l) <= After(plan, i) <=> l <= i
      BY <2>3, <3>1, AfterKeepsOrder
    <3>3. Spanned(new, a, After(plan, i)) <=> Low(l, r) <= i /\ i <= High(l, r)
      BY <2>1, <2>4, <3>1, <3>2 DEF Spanned, Low, High
    <3>4. Low(l, r) <= i /\ i <= High(l, r) => Spanned(ref, a, i)
      BY <2>2, <2>3, <3>1 DEF Spanned, Low, High
    <3>5. Spanned(ref, a, i) => Low(l, r) <= i /\ i <= High(l, r)
      BY <2>1, <2>5 DEF Clipped
    <3>6. QED
      BY <3>3, <3>4, <3>5
  <2>6. Matches(ref, new, plan)
    BY <1>2, <2>1, <2>4, <2>5 DEF Matches, Shrunk
  <2>7. Lasts(ref, plan)
    BY <2>1, <2>3 DEF Lasts, Stays, Clipped
  <2>8. QED
    BY <2>6, <2>7
<1>3. QED
  BY <1>1, <1>2

\* What is left of the ends lo and hi, lo <= hi, when a band is deleted.
LEMMA ClippedBand ==
  ASSUME NEW plan \in ShiftPlans, ~Inserts(plan), NEW ref \in References,
         plan.axis \in DOMAIN ref.lhs,
         NEW lo, lo = Low(ref.lhs[plan.axis], ref.rhs[plan.axis]),
         NEW hi, hi = High(ref.lhs[plan.axis], ref.rhs[plan.axis]),
         ~(BandLo(plan) <= lo /\ BandHi(plan) >= hi)
  PROVE  LET newLo == IF BandLo(plan) <= lo /\ lo <= BandHi(plan) THEN BandHi(plan) + 1 ELSE lo
             newHi == IF BandHi(plan) >= hi /\ BandLo(plan) <= hi THEN BandLo(plan) - 1 ELSE hi
         IN newLo \in Nat /\ newHi \in Nat
            /\ Clipped(ref, plan, newLo, newHi) /\ Clipped(ref, plan, newHi, newLo)
<1> DEFINE a == plan.axis
           newLo == IF BandLo(plan) <= lo /\ lo <= BandHi(plan) THEN BandHi(plan) + 1 ELSE lo
           newHi == IF BandHi(plan) >= hi /\ BandLo(plan) <= hi THEN BandLo(plan) - 1 ELSE hi
           bl == BandLo(plan)
           bh == BandHi(plan)
<1>1. /\ a \in Axes /\ MaxOf[a] \in Nat
      /\ ref.lhs[a] \in Nat /\ 1 <= ref.lhs[a] /\ ref.lhs[a] <= MaxOf[a]
      /\ ref.rhs[a] \in Nat /\ 1 <= ref.rhs[a] /\ ref.rhs[a] <= MaxOf[a]
  BY PlanNumbers, ReferenceEnds, Sizes
<1>2. /\ bl \in Nat /\ bh \in Nat /\ 1 <= bl /\ bl <= bh
      /\ \A i \in Int : InBand(plan, i) <=> bl <= i /\ i <= bh
  BY PlanNumbers
<1>3. /\ lo \in Nat /\ hi \in Nat /\ 1 <= lo /\ lo <= hi /\ hi <= MaxOf[a]
      /\ \A i \in Int : Spanned(ref, a, i) <=> lo <= i /\ i <= hi
  BY <1>1 DEF Spanned, Low, High
<1> HIDE DEF bl, bh
<1>4. /\ newLo \in Nat /\ newHi \in Nat /\ lo <= newLo /\ newLo <= hi
      /\ lo <= newHi /\ newHi <= hi
      /\ ~(bl <= newLo /\ newLo <= bh) /\ ~(bl <= newHi /\ newHi <= bh)
  BY <1>2, <1>3 DEF bl, bh
<1>5. \A i \in Int : lo <= i /\ i <= hi /\ ~(bl <= i /\ i <= bh) => newLo <= i /\ i <= newHi
  BY <1>2, <1>3 DEF bl, bh
<1> HIDE DEF newLo, newHi
<1>6. newLo \in 1..MaxOf[a] /\ newHi \in 1..MaxOf[a]
  BY <1>1, <1>3, <1>4
<1>7. /\ ~InBand(plan, newLo) /\ ~InBand(plan, newHi)
      /\ Spanned(ref, a, newLo) /\ Spanned(ref, a, newHi)
  BY <1>2, <1>3, <1>4
<1>8. \A i \in 1..MaxOf[a] : Spanned(ref, a, i) /\ Stays(plan, i) =>
        /\ Low(newLo, newHi) <= i /\ i <= High(newLo, newHi)
        /\ Low(newHi, newLo) <= i /\ i <= High(newHi, newLo)
  BY <1>1, <1>2, <1>3, <1>4, <1>5 DEF Stays, Low, High
<1>9. QED
  BY <1>4, <1>6, <1>7, <1>8 DEF Clipped, newLo, newHi

-----------------------------------------------------------------------------
(* The rewritings of one reference, as pairs of ends. *)

\* The pairs of ends that a rewriting makes follow the cells.
GoodPairs(ref, plan, pairs) ==
  /\ \A p \in pairs : Shrunk(ref, [lhs |-> p[1], rhs |-> p[2]], plan)
  /\ pairs = {} => PushedOff(ref, plan) \/ NothingLeft(ref, plan)

\* So does the reference that has them for its ends.
LEMMA GoodPairsNews ==
  ASSUME NEW plan \in ShiftPlans, NEW ref \in References, NEW pairs, GoodPairs(ref, plan, pairs)
  PROVE  GoodNews(ref, plan, Ends(ref, pairs))
<1>1. ref \in [kind : {"cell", "range", "span"}, sheet : {NoSheet, This, Other},
               lhs : Endpoints, rhs : Endpoints, pinned : SUBSET Axes]
  BY DEF References
<1>2. ASSUME NEW new \in Ends(ref, pairs)
      PROVE  Matches(ref, new, plan) /\ Lasts(ref, plan)
  <2>1. PICK p \in pairs : new = [ref EXCEPT !.lhs = p[1], !.rhs = p[2]]
    BY <1>2 DEF Ends
  <2> DEFINE ends == [lhs |-> p[1], rhs |-> p[2]]
  <2>2. Shrunk(ref, ends, plan)
    BY DEF GoodPairs
  <2>3. new.lhs = ends.lhs /\ new.rhs = ends.rhs
    BY <1>1, <2>1
  <2> HIDE DEF ends
  <2>4. Matches(ref, ends, plan) /\ Lasts(ref, plan)
    BY <2>2, ShrunkMatches
  <2>5. Matches(ref, new, plan)
    BY <2>3, <2>4 DEF Matches, Spanned
  <2>6. QED
    BY <2>4, <2>5
<1>3. Ends(ref, pairs) = {} => pairs = {}
  BY DEF Ends
<1>4. QED
  BY <1>2, <1>3 DEF GoodNews, GoodPairs

\* Ends that go where they belong: nothing of theirs is deleted.
EndsGo(ref, ends, plan) ==
  /\ DOMAIN ends.lhs = DOMAIN ref.lhs
  /\ \A b \in DOMAIN ref.lhs : b # plan.axis => ends.lhs[b] = ref.lhs[b] /\ ends.rhs[b] = ref.rhs[b]
  /\ plan.axis \in DOMAIN ref.lhs =>
       /\ ends.lhs[plan.axis] = After(plan, ref.lhs[plan.axis])
       /\ ends.rhs[plan.axis] = After(plan, ref.rhs[plan.axis])
       /\ Stays(plan, ref.lhs[plan.axis]) /\ Stays(plan, ref.rhs[plan.axis])

\* They are what is left of the reference.
LEMMA KeptEnds ==
  ASSUME NEW plan \in ShiftPlans, NEW ref \in References, NEW ends, EndsGo(ref, ends, plan)
  PROVE  Shrunk(ref, ends, plan)
<1> DEFINE a == plan.axis
<1>1. CASE a \notin DOMAIN ref.lhs
  BY <1>1 DEF EndsGo, Shrunk
<1>2. CASE a \in DOMAIN ref.lhs
  <2> DEFINE l == ref.lhs[a]
             r == ref.rhs[a]
  <2>1. l \in Nat /\ r \in Nat /\ l \in 1..MaxOf[a] /\ r \in 1..MaxOf[a]
    BY <1>2, ReferenceEnds, Sizes
  <2>2. /\ Spanned(ref, a, l) /\ Spanned(ref, a, r)
        /\ \A i \in Nat : Spanned(ref, a, i) => Low(l, r) <= i /\ i <= High(l, r)
    BY <2>1 DEF Spanned, Low, High
  <2>3. Stays(plan, l) /\ Stays(plan, r) /\ ends.lhs[a] = After(plan, l) /\ ends.rhs[a] = After(plan, r)
    BY <1>2 DEF EndsGo
  <2> HIDE DEF l, r
  <2>4. Clipped(ref, plan, l, r)
    BY <1>2, <2>1, <2>2, <2>3, Sizes, ReferenceEnds DEF Clipped, Stays
  <2>5. QED
    BY <2>1, <2>3, <2>4 DEF Shrunk, EndsGo, Stays
<1>3. QED
  BY <1>1, <1>2

\* An end on the sheet that does not stay is deleted or pushed off.
LEMMA Leaves ==
  ASSUME NEW plan \in ShiftPlans, NEW i \in 1..MaxOf[plan.axis], ~Stays(plan, i)
  PROVE  \/ InBand(plan, i)
         \/ Inserts(plan) /\ i + plan.n > MaxOf[plan.axis]
<1>1. MaxOf[plan.axis] \in Nat
  BY PlanNumbers, Sizes
<1>2. QED
  BY <1>1, PlanNumbers DEF Stays, After

\* A pair is lost with an end that is pushed off.
LEMMA EndPushedOff ==
  ASSUME NEW plan \in ShiftPlans, NEW ref \in References, plan.axis \in DOMAIN ref.lhs, Inserts(plan),
         ~Stays(plan, ref.lhs[plan.axis]) \/ ~Stays(plan, ref.rhs[plan.axis])
  PROVE  PushedOff(ref, plan)
<1> DEFINE a == plan.axis
           l == ref.lhs[a]
           r == ref.rhs[a]
<1>1. l \in 1..MaxOf[a] /\ r \in 1..MaxOf[a] /\ l \in Nat /\ r \in Nat /\ MaxOf[a] \in Nat
  BY ReferenceEnds, Sizes
<1>2. \A i \in 1..MaxOf[a] : ~InBand(plan, i)
  BY DEF InBand
<1>3. plan.n \in Int
  BY PlanNumbers
<1>4. ~Stays(plan, l) => l + plan.n > MaxOf[a]
  BY <1>1, <1>2, Leaves
<1>5. ~Stays(plan, r) => r + plan.n > MaxOf[a]
  BY <1>1, <1>2, Leaves
<1>6. l <= High(l, r) /\ r <= High(l, r) /\ High(l, r) \in Nat
  BY <1>1 DEF High
<1> HIDE DEF l, r
<1>7. High(l, r) + plan.n > MaxOf[a]
  BY <1>1, <1>3, <1>4, <1>5, <1>6 DEF l, r
<1>8. QED
  BY <1>7 DEF PushedOff, l, r

\* A reference to one cell: lost with the cell.
LEMMA CellPairs ==
  ASSUME NEW plan \in ShiftPlans, NEW ref \in References, ref.kind = "cell",
         NEW pairs,
         ~Stays(plan, ref.lhs[plan.axis]) => pairs = {},
         Stays(plan, ref.lhs[plan.axis]) =>
           \E c : /\ pairs = {<<c, c>>}
                  /\ c = [ref.lhs EXCEPT ![plan.axis] = After(plan, ref.lhs[plan.axis])]
  PROVE  GoodPairs(ref, plan, pairs)
<1> DEFINE a == plan.axis
           l == ref.lhs[a]
<1>1. ref.lhs \in Cells /\ ref.rhs = ref.lhs
  BY DEF References
<1>2. DOMAIN ref.lhs = Axes /\ a \in Axes /\ l \in 1..MaxOf[a] /\ l \in Nat
  BY <1>1, CellsFit, PlanNumbers, Sizes
<1>3. CASE ~Stays(plan, l)
  <2>1. CASE Inserts(plan)
    <3>1. PushedOff(ref, plan)
      BY <1>2, <1>3, <2>1, EndPushedOff
    <3>2. QED
      BY <1>3, <3>1 DEF GoodPairs
  <2>2. CASE ~Inserts(plan)
    <3>1. \A i \in 1..MaxOf[a] : Spanned(ref, a, i) => i = l
      BY <1>1, <1>2, Sizes DEF Spanned, Low, High
    <3>2. NothingLeft(ref, plan)
      BY <1>2, <1>3, <3>1 DEF NothingLeft
    <3>3. QED
      BY <1>3, <3>2 DEF GoodPairs
  <2>3. QED
    BY <2>1, <2>2
<1>4. CASE Stays(plan, l)
  <2>1. PICK c : pairs = {<<c, c>>} /\ c = [ref.lhs EXCEPT ![a] = After(plan, l)]
    BY <1>4
  <2> DEFINE ends == [lhs |-> c, rhs |-> c]
  <2>2. DOMAIN c = Axes /\ c[a] = After(plan, l) /\ \A b \in Axes : b # a => c[b] = ref.lhs[b]
    BY <1>2, <2>1
  <2>3. EndsGo(ref, ends, plan)
    BY <1>1, <1>2, <1>4, <2>2 DEF EndsGo
  <2> HIDE DEF ends
  <2>4. Shrunk(ref, ends, plan)
    BY <2>3, KeptEnds
  <2>5. \A p \in pairs : p[1] = c /\ p[2] = c
    BY <2>1
  <2>6. pairs # {}
    BY <2>1
  <2>7. QED
    BY <2>4, <2>5, <2>6 DEF GoodPairs, ends
<1>5. QED
  BY <1>3, <1>4

\* A reference whose ends both stay, or with no row or column of the plan.
LEMMA StayingPairs ==
  ASSUME NEW plan \in ShiftPlans, NEW ref \in References, NEW l, NEW r,
         EndsGo(ref, [lhs |-> l, rhs |-> r], plan)
  PROVE  GoodPairs(ref, plan, {<<l, r>>})
<1> DEFINE pairs == {<<l, r>>}
<1>1. Shrunk(ref, [lhs |-> l, rhs |-> r], plan)
  BY KeptEnds
<1>2. \A p \in pairs : p[1] = l /\ p[2] = r
  OBVIOUS
<1>3. pairs # {}
  OBVIOUS
<1> HIDE DEF pairs
<1>4. GoodPairs(ref, plan, pairs)
  BY <1>1, <1>2, <1>3 DEF GoodPairs
<1>5. QED
  BY <1>4 DEF pairs

\* The pair of ends that a deletion clips.
LEMMA ClippedPair ==
  ASSUME NEW plan \in ShiftPlans, NEW ref \in References, plan.axis \in DOMAIN ref.lhs, ~Inserts(plan),
         NEW l \in Nat, NEW r \in Nat, Clipped(ref, plan, l, r), NEW p,
         p = <<[ref.lhs EXCEPT ![plan.axis] = After(plan, l)],
               [ref.rhs EXCEPT ![plan.axis] = After(plan, r)]>>
  PROVE  GoodPairs(ref, plan, {p})
<1> DEFINE a == plan.axis
           pairs == {p}
           ends == [lhs |-> p[1], rhs |-> p[2]]
<1>1. DOMAIN ref.rhs = DOMAIN ref.lhs /\ MaxOf[a] \in Nat
  BY ReferenceEnds, Sizes
<1>2. /\ DOMAIN ends.lhs = DOMAIN ref.lhs
      /\ ends.lhs[a] = After(plan, l) /\ ends.rhs[a] = After(plan, r)
      /\ \A b \in DOMAIN ref.lhs : b # a => ends.lhs[b] = ref.lhs[b] /\ ends.rhs[b] = ref.rhs[b]
  BY <1>1
<1> HIDE DEF ends
<1>3. 1 <= l /\ l <= MaxOf[a] /\ ~InBand(plan, l) /\ 1 <= r /\ r <= MaxOf[a] /\ ~InBand(plan, r)
  BY <1>1 DEF Clipped
<1>4. After(plan, l) <= l /\ After(plan, r) <= r /\ After(plan, l) \in Nat /\ After(plan, r) \in Nat
  BY <1>3, AfterKeepsOrder
<1>5. Shrunk(ref, ends, plan)
  BY <1>1, <1>2, <1>3, <1>4 DEF Shrunk
<1>6. \A q \in pairs : q = p
  OBVIOUS
<1>7. pairs # {}
  OBVIOUS
<1> HIDE DEF pairs
<1>8. GoodPairs(ref, plan, pairs)
  BY <1>5, <1>6, <1>7 DEF GoodPairs, ends
<1>9. QED
  BY <1>8 DEF pairs

\* A deletion that takes the whole of a reference leaves nothing of it.
LEMMA BandTakesAll ==
  ASSUME NEW plan \in ShiftPlans, NEW ref \in References, plan.axis \in DOMAIN ref.lhs, ~Inserts(plan),
         BandLo(plan) <= Low(ref.lhs[plan.axis], ref.rhs[plan.axis]),
         BandHi(plan) >= High(ref.lhs[plan.axis], ref.rhs[plan.axis])
  PROVE  NothingLeft(ref, plan)
<1> DEFINE a == plan.axis
<1>1. ref.lhs[a] \in Nat /\ ref.rhs[a] \in Nat /\ MaxOf[a] \in Nat
  BY ReferenceEnds, Sizes
<1>2. ASSUME NEW i \in 1..MaxOf[a], Spanned(ref, a, i) PROVE InBand(plan, i)
  BY <1>1, <1>2, PlanNumbers DEF Spanned, Low, High
<1>3. QED
  BY <1>2 DEF NothingLeft, Stays

\* shift_anchors, on a range or whole rows or columns.
LEMMA AnchorRangePairs ==
  ASSUME NEW plan \in ShiftPlans, NEW ref \in References
  PROVE  GoodPairs(ref, plan, AnchorRange(ref.lhs, ref.rhs, plan))
<1> DEFINE a == plan.axis
           D == DOMAIN ref.lhs
           lo == Low(ref.lhs[a], ref.rhs[a])
           hi == High(ref.lhs[a], ref.rhs[a])
           pairs == AnchorRange(ref.lhs, ref.rhs, plan)
           Ended(l, r) == <<[ref.lhs EXCEPT ![a] = l], [ref.rhs EXCEPT ![a] = r]>>
           MovedOn(i) == IF i >= plan.idx THEN i + plan.n ELSE i
<1>1. CASE a \notin D
  <2>1. pairs = {<<ref.lhs, ref.rhs>>}
    BY <1>1 DEF AnchorRange
  <2>2. EndsGo(ref, [lhs |-> ref.lhs, rhs |-> ref.rhs], plan)
    BY <1>1 DEF EndsGo
  <2>3. GoodPairs(ref, plan, {<<ref.lhs, ref.rhs>>})
    BY <2>2, StayingPairs
  <2>4. QED
    BY <2>1, <2>3
<1>2. CASE a \in D /\ Inserts(plan)
  <2>1. pairs = {Ended(MovedOn(ref.lhs[a]), MovedOn(ref.rhs[a])) :
                   x \in {i \in {hi} : MovedOn(i) <= MaxOf[a]}}
    BY <1>2 DEF AnchorRange
  <2>2. /\ ref.lhs[a] \in Nat /\ ref.rhs[a] \in Nat /\ MaxOf[a] \in Nat
        /\ ref.lhs[a] <= MaxOf[a] /\ ref.rhs[a] <= MaxOf[a]
        /\ DOMAIN ref.rhs = D /\ plan.n \in Nat /\ plan.idx \in Nat
    BY <1>2, ReferenceEnds, Sizes, PlanNumbers
  <2>3. \A i \in Nat : MovedOn(i) = After(plan, i)
    BY <1>2, PlanNumbers DEF After
  <2>4. \A i : ~InBand(plan, i)
    BY <1>2 DEF InBand
  <2>5. CASE MovedOn(hi) <= MaxOf[a]
    <3> DEFINE l == [ref.lhs EXCEPT ![a] = After(plan, ref.lhs[a])]
               r == [ref.rhs EXCEPT ![a] = After(plan, ref.rhs[a])]
    <3>1. pairs = {<<l, r>>}
      <4> DEFINE one == Ended(MovedOn(ref.lhs[a]), MovedOn(ref.rhs[a]))
      <4>1. one = <<l, r>>
        BY <2>2, <2>3
      <4>2. {i \in {hi} : MovedOn(i) <= MaxOf[a]} = {hi}
        BY <2>5
      <4> HIDE DEF one
      <4>3. pairs = {one}
        BY <2>1, <4>2 DEF one
      <4>4. QED
        BY <4>1, <4>3
    <3>2. MovedOn(ref.lhs[a]) <= MaxOf[a] /\ MovedOn(ref.rhs[a]) <= MaxOf[a]
      BY <2>2, <2>5 DEF High
    <3>3. EndsGo(ref, [lhs |-> l, rhs |-> r], plan)
      BY <2>2, <2>3, <2>4, <3>2 DEF EndsGo, Stays
    <3> HIDE DEF l, r
    <3>4. GoodPairs(ref, plan, {<<l, r>>})
      BY <3>3, StayingPairs
    <3>5. QED
      BY <3>1, <3>4
  <2>6. CASE ~(MovedOn(hi) <= MaxOf[a])
    <3>1. pairs = {}
      BY <2>1, <2>6
    <3>2. hi + plan.n > MaxOf[a]
      BY <2>2, <2>6 DEF High
    <3>3. PushedOff(ref, plan)
      BY <1>2, <3>2 DEF PushedOff
    <3>4. QED
      BY <3>1, <3>3 DEF GoodPairs
  <2>7. QED
    BY <2>5, <2>6
<1>3. CASE a \in D /\ ~Inserts(plan)
  <2>1. /\ ref.lhs[a] \in Nat /\ ref.rhs[a] \in Nat /\ MaxOf[a] \in Nat
        /\ 1 <= ref.lhs[a] /\ 1 <= ref.rhs[a]
        /\ ref.lhs[a] <= MaxOf[a] /\ ref.rhs[a] <= MaxOf[a]
        /\ DOMAIN ref.rhs = D
    BY <1>3, ReferenceEnds, Sizes
  <2>2. /\ plan.n \in Int /\ plan.n < 0 /\ BandLo(plan) \in Nat /\ BandHi(plan) \in Nat
        /\ 1 <= BandLo(plan) /\ BandLo(plan) <= BandHi(plan) /\ From(plan) = BandHi(plan) + 1
    BY <1>3, PlanNumbers
  <2>3. \A i \in Int : InBand(plan, i) <=> BandLo(plan) <= i /\ i <= BandHi(plan)
    BY <1>3, PlanNumbers
  <2>4. CASE BandLo(plan) <= lo /\ BandHi(plan) >= hi
    <3>1. pairs = {}
      BY <1>3, <2>1, <2>2, <2>4 DEF AnchorRange, Low, High
    <3>2. NothingLeft(ref, plan)
      BY <1>3, <2>4, BandTakesAll
    <3>3. QED
      BY <3>1, <3>2 DEF GoodPairs
  <2>5. CASE ~(BandLo(plan) <= lo /\ BandHi(plan) >= hi)
    <3> DEFINE newLo == IF BandLo(plan) <= lo /\ lo <= BandHi(plan) THEN BandHi(plan) + 1 ELSE lo
               newHi == IF BandHi(plan) >= hi /\ BandLo(plan) <= hi THEN BandLo(plan) - 1 ELSE hi
               up == ref.lhs[a] <= ref.rhs[a]
               l == IF up THEN newLo ELSE newHi
               r == IF up THEN newHi ELSE newLo
               p == <<[ref.lhs EXCEPT ![a] = After(plan, l)], [ref.rhs EXCEPT ![a] = After(plan, r)]>>
    <3>1. /\ newLo \in Nat /\ newHi \in Nat
          /\ Clipped(ref, plan, newLo, newHi) /\ Clipped(ref, plan, newHi, newLo)
      BY <1>3, <2>5, ClippedBand
    <3>2. l \in Nat /\ r \in Nat /\ Clipped(ref, plan, l, r)
      BY <3>1
    <3>3. GoodPairs(ref, plan, {p})
      BY <1>3, <3>2, ClippedPair
    <3>4. pairs = {p}
      <4>1. CASE BandHi(plan) < lo
        <5>1. pairs = {Ended(ref.lhs[a] + plan.n, ref.rhs[a] + plan.n)}
          BY <1>3, <4>1 DEF AnchorRange
        <5>2. l = ref.lhs[a] /\ r = ref.rhs[a]
          BY <2>1, <2>2, <4>1 DEF Low, High
        <5>3. After(plan, l) = ref.lhs[a] + plan.n /\ After(plan, r) = ref.rhs[a] + plan.n
          BY <2>1, <2>2, <4>1, <5>2 DEF After, Low
        <5>4. QED
          BY <5>1, <5>3
      <4>2. CASE ~(BandHi(plan) < lo) /\ BandLo(plan) > hi
        <5>1. pairs = {<<ref.lhs, ref.rhs>>}
          BY <1>3, <4>2 DEF AnchorRange
        <5>2. l = ref.lhs[a] /\ r = ref.rhs[a]
          BY <2>1, <2>2, <4>2 DEF Low, High
        <5>3. After(plan, l) = ref.lhs[a] /\ After(plan, r) = ref.rhs[a]
          BY <2>1, <2>2, <4>2, <5>2 DEF After, High
        <5>4. ref.lhs \in [D -> Nat] /\ ref.rhs \in [D -> Nat]
          BY ReferenceEnds
        <5>5. p = <<ref.lhs, ref.rhs>>
          BY <1>3, <5>3, <5>4
        <5>6. QED
          BY <5>1, <5>5
      <4>3. CASE ~(BandHi(plan) < lo) /\ ~(BandLo(plan) > hi)
        <5>1. pairs = {Ended(Snapped(plan, up, ref.lhs[a]), Snapped(plan, ~up, ref.rhs[a]))}
          BY <1>3, <2>5, <4>3 DEF AnchorRange
        <5>2. Snapped(plan, up, ref.lhs[a]) = After(plan, l)
          BY <2>1, <2>2, <2>3, <2>5, <4>3 DEF Snapped, After, Low, High
        <5>3. Snapped(plan, ~up, ref.rhs[a]) = After(plan, r)
          BY <2>1, <2>2, <2>3, <2>5, <4>3 DEF Snapped, After, Low, High
        <5>4. QED
          BY <5>1, <5>2, <5>3
      <4>4. QED
        BY <4>1, <4>2, <4>3
    <3> HIDE DEF pairs, p
    <3>5. QED
      BY <3>3, <3>4 DEF pairs
  <2>6. QED
    BY <2>4, <2>5
<1>4. QED
  BY <1>1, <1>2, <1>3

\* shift_anchors, on any reference.
LEMMA ShiftAnchorNews ==
  ASSUME NEW plan \in ShiftPlans, NEW ref \in References
  PROVE  GoodNews(ref, plan, ShiftAnchor(ref, plan))
<1>1. CASE ref.kind = "cell"
  <2> DEFINE pairs == {<<c, c>> : c \in AnchorCell(ref.lhs, plan)}
             new == [ref.lhs EXCEPT ![plan.axis] = After(plan, ref.lhs[plan.axis])]
  <2>1. ref.lhs \in Cells
    BY <1>1 DEF References
  <2>2. AnchorCell(ref.lhs, plan) = IF Stays(plan, ref.lhs[plan.axis]) THEN {new} ELSE {}
    BY <2>1, AnchorCellIs
  <2>3. ~Stays(plan, ref.lhs[plan.axis]) => pairs = {}
    BY <2>2
  <2>4. Stays(plan, ref.lhs[plan.axis]) => pairs = {<<new, new>>}
    BY <2>2
  <2>5. Stays(plan, ref.lhs[plan.axis]) => \E c : pairs = {<<c, c>>} /\ c = new
    BY <2>4
  <2>6. ShiftAnchor(ref, plan) = Ends(ref, pairs)
    BY <1>1 DEF ShiftAnchor
  <2> HIDE DEF pairs
  <2>7. GoodPairs(ref, plan, pairs)
    BY <1>1, <2>3, <2>5, CellPairs
  <2>8. QED
    BY <2>6, <2>7, GoodPairsNews
<1>2. CASE ref.kind # "cell"
  <2> DEFINE pairs == AnchorRange(ref.lhs, ref.rhs, plan)
  <2>1. GoodPairs(ref, plan, pairs)
    BY AnchorRangePairs
  <2>2. ShiftAnchor(ref, plan) = Ends(ref, pairs)
    BY <1>2 DEF ShiftAnchor
  <2> HIDE DEF pairs
  <2>3. QED
    BY <2>1, <2>2, GoodPairsNews
<1>3. QED
  BY <1>1, <1>2

-----------------------------------------------------------------------------
(* The translator of references, when it is asked for a shift. *)

\* What a shift asks of it: nothing moves, one axis shifts, and a deletion
\* takes one band, everywhere or on the sheet that is shifted.
LEMMA DeltaIs ==
  ASSUME NEW plan \in ShiftPlans, NEW sheet
  PROVE  LET d == Delta(plan, sheet)
         IN /\ d.move = {}
            /\ d.by[plan.axis] = plan.n /\ d.by[plan.axis] # 0
            /\ d.anchor[plan.axis] = From(plan) /\ d.anchor[plan.axis] > 0
            /\ \A a \in Axes \ {plan.axis} : d.by[a] = 0
            /\ Inserts(plan) => d.band = {} /\ d.bandSheet = NoSheet
            /\ ~Inserts(plan) =>
                 /\ d.band = {[axis |-> plan.axis, lo |-> BandLo(plan), hi |-> BandHi(plan)]}
                 /\ d.bandSheet = sheet
            /\ d.formulaSheet = sheet
<1>1. plan.axis \in Axes
  BY PlanNumbers
<1>2. From(plan) > 0 /\ plan.n # 0
  BY PlanNumbers
<1>3. QED
  BY <1>1, <1>2 DEF Delta, From

\* A reference to the sheet that is shifted is hit by the band.
LEMMA DeltaHits ==
  ASSUME NEW plan \in ShiftPlans, NEW sheet, NEW of, of \in {NoSheet, sheet}
  PROVE  Hit(of, Delta(plan, sheet))
<1> DEFINE d == Delta(plan, sheet)
<1>1. d.bandSheet \in {NoSheet, sheet} /\ d.formulaSheet = sheet
  BY DeltaIs
<1> HIDE DEF d
<1>2. Hit(of, d)
  BY <1>1 DEF Hit, Target
<1>3. QED
  BY <1>2 DEF d

\* An end that stays is shifted as its cells are; one that is pushed off is lost.
LEMMA CarriedIs ==
  ASSUME NEW plan \in ShiftPlans, NEW sheet, NEW D \in SUBSET Axes, NEW cell \in [D -> Nat],
         \A a \in D : 1 <= cell[a] /\ cell[a] <= MaxOf[a]
  PROVE  /\ plan.axis \notin D => Carried(cell, Delta(plan, sheet)) = {cell}
         /\ plan.axis \in D =>
              /\ Stays(plan, cell[plan.axis]) =>
                   Carried(cell, Delta(plan, sheet)) =
                     {[cell EXCEPT ![plan.axis] = After(plan, cell[plan.axis])]}
              /\ ~Stays(plan, cell[plan.axis]) /\ ~InBand(plan, cell[plan.axis]) =>
                   Carried(cell, Delta(plan, sheet)) = {}
<1> DEFINE a == plan.axis
           d == Delta(plan, sheet)
           new == Shifted(cell, d)
<1>1. /\ d.by[a] # 0 /\ d.by[a] = plan.n /\ d.anchor[a] = From(plan) /\ d.anchor[a] > 0
      /\ \A b \in Axes \ {a} : d.by[b] = 0
  BY DeltaIs
<1> HIDE DEF d
<1>2. DOMAIN new = D /\ DOMAIN cell = D
  BY DEF Shifted
<1>3. \A b \in D : b # a => new[b] = cell[b]
  BY <1>1 DEF Shifted
<1>4. a \in D => new[a] = After(plan, cell[a])
  BY <1>1 DEF Shifted, After
<1>5. \A b \in Axes : MaxOf[b] \in Nat
  BY Sizes
<1>6. Fits(cell)
  BY <1>2, <1>5 DEF Fits
<1>7. Carried(cell, d) = {c \in {new} : Fits(c)}
  BY <1>6 DEF Carried
<1>8. CASE a \notin D
  <2>1. new = cell
    BY <1>2, <1>3, <1>8 DEF Shifted
  <2> HIDE DEF new
  <2>2. Carried(cell, d) = {cell}
    BY <1>6, <1>7, <2>1
  <2>3. QED
    BY <1>8, <2>2 DEF d
<1>9. CASE a \in D /\ Stays(plan, cell[a])
  <2>1. After(plan, cell[a]) \in Nat /\ After(plan, cell[a]) >= 1
    BY <1>9, AfterKeepsOrder DEF Stays
  <2>2. Fits(new)
    <3>1. ASSUME NEW b \in D PROVE new[b] \in 1..MaxOf[b]
      <4>1. CASE b = a
        BY <1>4, <1>5, <1>9, <2>1, <4>1 DEF Stays
      <4>2. CASE b # a
        BY <1>3, <1>5, <4>2
      <4>3. QED
        BY <4>1, <4>2
    <3>2. QED
      BY <1>2, <3>1 DEF Fits
  <2>3. new = [cell EXCEPT ![a] = After(plan, cell[a])]
    BY <1>2, <1>3, <1>4 DEF Shifted
  <2> HIDE DEF new
  <2>4. Carried(cell, d) = {new}
    BY <1>7, <2>2
  <2>5. QED
    BY <1>9, <2>3, <2>4 DEF d
<1>10. CASE a \in D /\ ~Stays(plan, cell[a]) /\ ~InBand(plan, cell[a])
  <2>1. ~(new[a] \in 1..MaxOf[a])
    BY <1>4, <1>5, <1>10 DEF Stays
  <2>2. ~Fits(new)
    BY <1>2, <1>10, <2>1 DEF Fits
  <2> HIDE DEF new
  <2>3. Carried(cell, d) = {}
    BY <1>7, <2>2
  <2>4. QED
    BY <1>10, <2>3 DEF d
<1>11. CASE a \in D /\ ~Stays(plan, cell[a]) /\ InBand(plan, cell[a])
  BY <1>11
<1>12. QED
  BY <1>8, <1>9, <1>10, <1>11

\* translate, on a cell of the sheet that is shifted.
LEMMA TranslateCellIs ==
  ASSUME NEW plan \in ShiftPlans, NEW sheet, NEW of, of \in {NoSheet, sheet}, NEW cell \in Cells
  PROVE  TranslateCell(of, cell, Delta(plan, sheet)) =
           IF Stays(plan, cell[plan.axis])
           THEN {[cell EXCEPT ![plan.axis] = After(plan, cell[plan.axis])]} ELSE {}
<1> DEFINE a == plan.axis
           d == Delta(plan, sheet)
<1>1. /\ a \in Axes /\ DOMAIN cell = Axes /\ cell \in [Axes -> Nat]
      /\ \A b \in Axes : 1 <= cell[b] /\ cell[b] <= MaxOf[b]
  BY PlanNumbers, CellsFit
<1>2. /\ d.move = {}
      /\ Inserts(plan) => d.band = {}
      /\ ~Inserts(plan) => d.band = {[axis |-> a, lo |-> BandLo(plan), hi |-> BandHi(plan)]}
  BY DeltaIs
<1>3. Hit(of, d)
  BY DeltaHits
<1>4. Stays(plan, cell[a]) => Carried(cell, d) = {[cell EXCEPT ![a] = After(plan, cell[a])]}
  BY <1>1, CarriedIs
<1>5. ~Stays(plan, cell[a]) /\ ~InBand(plan, cell[a]) => Carried(cell, d) = {}
  BY <1>1, CarriedIs
<1> HIDE DEF d
<1>6. Moved(of, cell, d) = cell
  <2>1. {m \in d.move :
                 /\ d.formulaSheet \in {NoSheet, Target(of, d)}
                 /\ \A b \in Axes : cell[b] \in m.lo[b]..m.hi[b]} = {}
    BY <1>2
  <2>2. Moved(of, cell, d) = [b \in Axes |-> cell[b]]
    BY <2>1 DEF Moved
  <2>3. QED
    BY <1>1, <2>2
<1>7. Deleted(cell, d) <=> InBand(plan, cell[a])
  <2>1. CASE Inserts(plan)
    BY <1>2, <2>1 DEF Deleted, InBand
  <2>2. CASE ~Inserts(plan)
    <3> DEFINE b == [axis |-> a, lo |-> BandLo(plan), hi |-> BandHi(plan)]
    <3>1. d.band = {b}
      BY <1>2, <2>2
    <3>2. b.axis = a /\ b.lo = BandLo(plan) /\ b.hi = BandHi(plan)
      OBVIOUS
    <3> HIDE DEF b
    <3>3. Deleted(cell, d) <=> cell[b.axis] \in b.lo..b.hi
      BY <3>1 DEF Deleted
    <3>4. QED
      BY <2>2, <3>2, <3>3 DEF InBand
  <2>3. QED
    BY <2>1, <2>2
<1>8. CASE InBand(plan, cell[a])
  BY <1>3, <1>7, <1>8 DEF TranslateCell, Stays, d
<1>9. CASE ~InBand(plan, cell[a])
  <2>1. TranslateCell(of, cell, d) = Carried(cell, d)
    BY <1>3, <1>6, <1>7, <1>9 DEF TranslateCell
  <2>2. QED
    BY <1>4, <1>5, <1>9, <2>1 DEF d
<1>10. QED
  BY <1>8, <1>9

\* A pair of two ends.
LEMMA PairIs ==
  ASSUME NEW l, NEW r
  PROVE  Pair({l}, {r}) = {<<l, r>>}
BY DEF Pair

\* There is none when one of them is lost.
LEMMA NoPair ==
  ASSUME NEW ls, NEW rs, ls = {} \/ rs = {}
  PROVE  Pair(ls, rs) = {}
BY DEF Pair

\* Two ends that are carried one by one, none of them deleted.
LEMMA CarriedPairs ==
  ASSUME NEW plan \in ShiftPlans, NEW ref \in References, NEW ls, NEW rs,
         plan.axis \notin DOMAIN ref.lhs => ls = {ref.lhs} /\ rs = {ref.rhs},
         plan.axis \in DOMAIN ref.lhs =>
           /\ Stays(plan, ref.lhs[plan.axis]) =>
                ls = {[ref.lhs EXCEPT ![plan.axis] = After(plan, ref.lhs[plan.axis])]}
           /\ Stays(plan, ref.rhs[plan.axis]) =>
                rs = {[ref.rhs EXCEPT ![plan.axis] = After(plan, ref.rhs[plan.axis])]}
           /\ ~Stays(plan, ref.lhs[plan.axis]) => ls = {}
           /\ ~Stays(plan, ref.rhs[plan.axis]) => rs = {}
           /\ ~InBand(plan, ref.lhs[plan.axis]) /\ ~InBand(plan, ref.rhs[plan.axis])
  PROVE  GoodPairs(ref, plan, Pair(ls, rs))
<1> DEFINE a == plan.axis
           D == DOMAIN ref.lhs
<1>0. DOMAIN ref.rhs = D
  BY ReferenceEnds
<1>1. CASE a \notin D
  <2>1. EndsGo(ref, [lhs |-> ref.lhs, rhs |-> ref.rhs], plan)
    BY <1>1 DEF EndsGo
  <2>2. GoodPairs(ref, plan, {<<ref.lhs, ref.rhs>>})
    BY <2>1, StayingPairs
  <2>3. Pair(ls, rs) = {<<ref.lhs, ref.rhs>>}
    BY <1>1, PairIs
  <2>4. QED
    BY <2>2, <2>3
<1>2. CASE a \in D /\ Stays(plan, ref.lhs[a]) /\ Stays(plan, ref.rhs[a])
  <2> DEFINE l == [ref.lhs EXCEPT ![a] = After(plan, ref.lhs[a])]
             r == [ref.rhs EXCEPT ![a] = After(plan, ref.rhs[a])]
  <2>1. EndsGo(ref, [lhs |-> l, rhs |-> r], plan)
    BY <1>0, <1>2 DEF EndsGo
  <2>2. ls = {l} /\ rs = {r}
    BY <1>2
  <2> HIDE DEF l, r
  <2>3. GoodPairs(ref, plan, {<<l, r>>})
    BY <2>1, StayingPairs
  <2>4. Pair(ls, rs) = {<<l, r>>}
    BY <2>2, PairIs
  <2>5. QED
    BY <2>3, <2>4
<1>3. CASE a \in D /\ (~Stays(plan, ref.lhs[a]) \/ ~Stays(plan, ref.rhs[a]))
  <2>1. ls = {} \/ rs = {}
    BY <1>3
  <2>2. Pair(ls, rs) = {}
    BY <2>1, NoPair
  <2>3. ref.lhs[a] \in 1..MaxOf[a] /\ ref.rhs[a] \in 1..MaxOf[a]
    BY <1>3, ReferenceEnds, Sizes
  <2>4. Inserts(plan)
    BY <1>3, <2>3, Leaves
  <2>5. PushedOff(ref, plan)
    BY <1>3, <2>4, EndPushedOff
  <2>6. QED
    BY <2>2, <2>5 DEF GoodPairs
<1>4. QED
  BY <1>1, <1>2, <1>3

\* translate, on a range that is not the whole sheet.
LEMMA TranslateRangePairs ==
  ASSUME NEW plan \in ShiftPlans, NEW sheet, NEW ref \in References, ref.kind = "range",
         ref.sheet \in {NoSheet, sheet}, ~Whole(ref.lhs, ref.rhs)
  PROVE  GoodPairs(ref, plan, TranslateRange(ref.sheet, ref.lhs, ref.rhs, Delta(plan, sheet)))
<1> DEFINE a == plan.axis
           D == DOMAIN ref.lhs
           d == Delta(plan, sheet)
           pairs == TranslateRange(ref.sheet, ref.lhs, ref.rhs, d)
<1>1. ref.lhs \in Cells /\ ref.rhs \in Cells
  BY DEF References
<1>2. a \in Axes /\ D = Axes /\ DOMAIN ref.rhs = Axes
  BY <1>1, PlanNumbers, CellsFit
<1>3. /\ Inserts(plan) => d.band = {}
      /\ ~Inserts(plan) => d.band = {[axis |-> a, lo |-> BandLo(plan), hi |-> BandHi(plan)]}
  BY DeltaIs
<1>4. Hit(ref.sheet, d)
  BY DeltaHits
<1>5. CASE Inserts(plan)
  <2> DEFINE ls == TranslateCell(ref.sheet, ref.lhs, d)
             rs == TranslateCell(NoSheet, ref.rhs, d)
  <2>1. ls = IF Stays(plan, ref.lhs[a])
             THEN {[ref.lhs EXCEPT ![a] = After(plan, ref.lhs[a])]} ELSE {}
    BY <1>1, TranslateCellIs
  <2>2. rs = IF Stays(plan, ref.rhs[a])
             THEN {[ref.rhs EXCEPT ![a] = After(plan, ref.rhs[a])]} ELSE {}
    BY <1>1, TranslateCellIs
  <2>3. ~InBand(plan, ref.lhs[a]) /\ ~InBand(plan, ref.rhs[a])
    BY <1>5 DEF InBand
  <2>4. pairs = Pair(ls, rs)
    BY <1>3, <1>5 DEF TranslateRange
  <2> HIDE DEF ls, rs, pairs
  <2>5. GoodPairs(ref, plan, Pair(ls, rs))
    <3>1. Stays(plan, ref.lhs[a]) => ls = {[ref.lhs EXCEPT ![a] = After(plan, ref.lhs[a])]}
      BY <2>1
    <3>2. Stays(plan, ref.rhs[a]) => rs = {[ref.rhs EXCEPT ![a] = After(plan, ref.rhs[a])]}
      BY <2>2
    <3>3. (~Stays(plan, ref.lhs[a]) => ls = {}) /\ (~Stays(plan, ref.rhs[a]) => rs = {})
      BY <2>1, <2>2
    <3>4. QED
      BY <1>2, <2>3, <3>1, <3>2, <3>3, CarriedPairs
  <2>6. QED
    BY <2>4, <2>5 DEF pairs
<1>6. CASE ~Inserts(plan)
  <2> DEFINE b == [axis |-> a, lo |-> BandLo(plan), hi |-> BandHi(plan)]
             lo == Low(ref.lhs[a], ref.rhs[a])
             hi == High(ref.lhs[a], ref.rhs[a])
             clips == ClipRange(ref.lhs, ref.rhs, b)
  <2>1. d.band = {b} /\ d.band # {}
    BY <1>3, <1>6
  <2>2. pairs = UNION {Pair(Carried(c[1], d), Carried(c[2], d)) :
                  c \in UNION {ClipRange(ref.lhs, ref.rhs, x) : x \in d.band}}
    BY <1>4, <2>1 DEF TranslateRange
  <2>3. UNION {ClipRange(ref.lhs, ref.rhs, x) : x \in d.band} = clips
    BY <2>1
  <2>4. pairs = UNION {Pair(Carried(c[1], d), Carried(c[2], d)) : c \in clips}
    BY <2>2, <2>3
  <2>5. /\ ref.lhs \in [Axes -> Nat] /\ ref.rhs \in [Axes -> Nat]
        /\ \A x \in Axes : /\ 1 <= ref.lhs[x] /\ ref.lhs[x] <= MaxOf[x]
                           /\ 1 <= ref.rhs[x] /\ ref.rhs[x] <= MaxOf[x] /\ MaxOf[x] \in Nat
    BY <1>1, CellsFit, Sizes
  <2>6. /\ BandLo(plan) \in Nat /\ BandHi(plan) \in Nat
        /\ 1 <= BandLo(plan) /\ BandLo(plan) <= BandHi(plan)
        /\ b.axis = a /\ b.lo = BandLo(plan) /\ b.hi = BandHi(plan)
    BY <1>6, PlanNumbers
  <2> HIDE DEF b, pairs, d
  <2>7. CASE BandLo(plan) <= lo /\ BandHi(plan) >= hi
    <3>1. ~(b.hi < lo \/ b.lo > hi)
      BY <1>2, <2>5, <2>6, <2>7 DEF Low, High
    <3>2. clips = {}
      BY <2>6, <2>7, <3>1 DEF ClipRange
    <3>3. pairs = {}
      BY <2>4, <3>2
    <3>4. NothingLeft(ref, plan)
      BY <1>2, <1>6, <2>7, BandTakesAll
    <3>5. QED
      BY <3>3, <3>4 DEF GoodPairs, pairs, d
  <2>8. CASE ~(BandLo(plan) <= lo /\ BandHi(plan) >= hi)
    <3> DEFINE newLo == IF BandLo(plan) <= lo /\ lo <= BandHi(plan) THEN BandHi(plan) + 1 ELSE lo
               newHi == IF BandHi(plan) >= hi /\ BandLo(plan) <= hi THEN BandLo(plan) - 1 ELSE hi
               up == ref.lhs[a] <= ref.rhs[a]
               l == IF up THEN newLo ELSE newHi
               r == IF up THEN newHi ELSE newLo
               cl == [ref.lhs EXCEPT ![a] = l]
               cr == [ref.rhs EXCEPT ![a] = r]
               p == <<[ref.lhs EXCEPT ![a] = After(plan, l)], [ref.rhs EXCEPT ![a] = After(plan, r)]>>
    <3>1. /\ newLo \in Nat /\ newHi \in Nat
          /\ Clipped(ref, plan, newLo, newHi) /\ Clipped(ref, plan, newHi, newLo)
      BY <1>2, <1>6, <2>8, ClippedBand
    <3>2. l \in Nat /\ r \in Nat /\ Clipped(ref, plan, l, r)
      BY <3>1
    <3>3. GoodPairs(ref, plan, {p})
      BY <1>2, <1>6, <3>2, ClippedPair
    <3>4. clips = {<<cl, cr>>}
      <4>1. CASE b.hi < lo \/ b.lo > hi
        <5>1. clips = {<<ref.lhs, ref.rhs>>}
          BY <2>6, <4>1 DEF ClipRange
        <5>2. l = ref.lhs[a] /\ r = ref.rhs[a]
          BY <1>2, <2>5, <2>6, <4>1 DEF Low, High
        <5>3. cl = ref.lhs /\ cr = ref.rhs
          BY <1>2, <2>5, <5>2
        <5>4. QED
          BY <5>1, <5>3
      <4>2. CASE ~(b.hi < lo \/ b.lo > hi)
        <5> DEFINE low == IF b.lo <= lo THEN b.hi + 1 ELSE lo
                   high == IF b.hi >= hi THEN b.lo - 1 ELSE hi
        <5>1. clips = {<<[ref.lhs EXCEPT ![a] = IF up THEN low ELSE high],
                         [ref.rhs EXCEPT ![a] = IF up THEN high ELSE low]>>}
          BY <2>6, <2>8, <4>2 DEF ClipRange
        <5>2. low = newLo /\ high = newHi
          BY <1>2, <2>5, <2>6, <4>2 DEF Low, High
        <5>3. QED
          BY <5>1, <5>2
      <4>3. QED
        BY <4>1, <4>2
    <3> HIDE DEF clips
    <3>5. /\ cl \in [Axes -> Nat] /\ cr \in [Axes -> Nat]
          /\ \A x \in Axes : 1 <= cl[x] /\ cl[x] <= MaxOf[x] /\ 1 <= cr[x] /\ cr[x] <= MaxOf[x]
          /\ cl[a] = l /\ cr[a] = r
      <4>1. l \in 1..MaxOf[a] /\ r \in 1..MaxOf[a]
        BY <3>2 DEF Clipped
      <4> HIDE DEF l, r
      <4>2. QED
        BY <1>2, <2>5, <4>1
    <3>6. Stays(plan, l) /\ Stays(plan, r)
      <4>1. ~InBand(plan, l) /\ ~InBand(plan, r) /\ l \in 1..MaxOf[a] /\ r \in 1..MaxOf[a]
        BY <3>2 DEF Clipped
      <4> HIDE DEF l, r
      <4>2. QED
        BY <1>6, <4>1, Leaves
    <3> DEFINE ll == [cl EXCEPT ![a] = After(plan, cl[a])]
               rr == [cr EXCEPT ![a] = After(plan, cr[a])]
    <3>7. Carried(cl, d) = {ll}
      <4> HIDE DEF cl
      <4>1. Stays(plan, cl[a])
        BY <3>5, <3>6
      <4>2. Carried(cl, Delta(plan, sheet)) = {ll}
        BY <1>2, <3>5, <4>1, CarriedIs
      <4>3. QED
        BY <4>2 DEF d
    <3>8. Carried(cr, d) = {rr}
      <4> HIDE DEF cr
      <4>1. Stays(plan, cr[a])
        BY <3>5, <3>6
      <4>2. Carried(cr, Delta(plan, sheet)) = {rr}
        BY <1>2, <3>5, <4>1, CarriedIs
      <4>3. QED
        BY <4>2 DEF d
    <3>9. <<ll, rr>> = p
      <4> HIDE DEF l, r
      <4>1. QED
        BY <1>2, <2>5, <3>5
    <3> HIDE DEF p, ll, rr, cl, cr
    <3>10. Pair(Carried(cl, d), Carried(cr, d)) = {<<ll, rr>>}
      BY <3>7, <3>8, PairIs
    <3>11. \A c \in clips : c[1] = cl /\ c[2] = cr
      BY <3>4
    <3>12. pairs = {p}
      <4> DEFINE one == Pair(Carried(cl, d), Carried(cr, d))
      <4>1. \A c \in clips : Pair(Carried(c[1], d), Carried(c[2], d)) = one
        BY <3>11
      <4>2. clips # {}
        BY <3>4
      <4>3. one = {p}
        BY <3>9, <3>10
      <4> HIDE DEF one
      <4>4. pairs = one
        BY <2>4, <4>1, <4>2
      <4>5. QED
        BY <4>3, <4>4
    <3>13. QED
      BY <3>3, <3>12 DEF pairs, d
  <2>9. QED
    BY <2>7, <2>8
<1>7. QED
  BY <1>5, <1>6

\* translate, on whole rows or columns that are not the whole sheet and of
\* which none is deleted.
LEMMA TranslateSpanPairs ==
  ASSUME NEW plan \in ShiftPlans, NEW sheet, NEW ref \in References, ref.kind = "span",
         ~PartOfSpan(ref, plan), ~Whole(ref.lhs, ref.rhs)
  PROVE  GoodPairs(ref, plan, TranslateSpan(ref.lhs, ref.rhs, Delta(plan, sheet)))
<1> DEFINE a == plan.axis
           D == DOMAIN ref.lhs
           d == Delta(plan, sheet)
           pairs == TranslateSpan(ref.lhs, ref.rhs, d)
           axis == CHOOSE x \in Axes : x \in D
           here == {b \in d.band : b.axis = axis}
           ls == Carried(ref.lhs, d)
           rs == Carried(ref.rhs, d)
<1>1. /\ D \subseteq Axes /\ DOMAIN ref.rhs = D
      /\ ref.lhs \in [D -> Nat] /\ ref.rhs \in [D -> Nat]
      /\ \A x \in D : /\ ref.lhs[x] \in Nat /\ 1 <= ref.lhs[x] /\ ref.lhs[x] <= MaxOf[x]
                      /\ ref.rhs[x] \in Nat /\ 1 <= ref.rhs[x] /\ ref.rhs[x] <= MaxOf[x]
  BY ReferenceEnds
<1>2. PICK x \in Axes : D = {x}
  BY ReferenceEnds
<1>3. axis = x
  BY <1>2
<1>4. a \in Axes
  BY PlanNumbers
<1>5. \A b \in d.band : ~Inserts(plan) /\ b.axis = a /\ b.lo = BandLo(plan) /\ b.hi = BandHi(plan)
  BY DeltaIs
<1> HIDE DEF axis
<1>6. a \in D => \A i \in 1..MaxOf[a] : Spanned(ref, a, i) => ~InBand(plan, i)
  <2> SUFFICES ASSUME a \in D, NEW i \in 1..MaxOf[a], Spanned(ref, a, i) PROVE ~InBand(plan, i)
    OBVIOUS
  <2> DEFINE cell == [y \in Axes |-> i]
  <2>1. ~InBand(plan, i) \/ ~Covers(ref, cell)
    BY DEF PartOfSpan, InBand
  <2>2. MaxOf[a] \in Nat /\ cell[a] = i
    BY <1>4, Sizes
  <2> HIDE DEF cell
  <2>3. D = {a}
    BY <1>2
  <2>4. Covers(ref, cell)
    BY <1>1, <2>2, <2>3 DEF Covers, Spanned, Low, High
  <2>5. QED
    BY <2>1, <2>4
<1>7. a \in D => ~InBand(plan, ref.lhs[a]) /\ ~InBand(plan, ref.rhs[a])
  <2> SUFFICES ASSUME a \in D PROVE ~InBand(plan, ref.lhs[a]) /\ ~InBand(plan, ref.rhs[a])
    OBVIOUS
  <2>1. ref.lhs[a] \in 1..MaxOf[a] /\ ref.rhs[a] \in 1..MaxOf[a]
    BY <1>1, <1>4, Sizes
  <2>2. Spanned(ref, a, ref.lhs[a]) /\ Spanned(ref, a, ref.rhs[a])
    BY <1>1 DEF Spanned, Low, High
  <2>3. QED
    BY <1>6, <2>1, <2>2
<1>8. pairs = Pair(ls, rs)
  <2>1. ~\E b \in here : /\ b.lo <= Low(ref.lhs[axis], ref.rhs[axis])
                         /\ b.hi >= High(ref.lhs[axis], ref.rhs[axis])
    <3> SUFFICES ASSUME NEW b \in here,
                        b.lo <= Low(ref.lhs[axis], ref.rhs[axis]),
                        b.hi >= High(ref.lhs[axis], ref.rhs[axis])
                 PROVE FALSE
      OBVIOUS
    <3>1. b.axis = axis /\ b \in d.band
      OBVIOUS
    <3>2. a \in D /\ axis = a /\ ~Inserts(plan) /\ b.lo = BandLo(plan) /\ b.hi = BandHi(plan)
      BY <1>2, <1>3, <1>5, <3>1
    <3>3. InBand(plan, ref.lhs[a])
      BY <1>1, <3>2, PlanNumbers DEF InBand, Low, High
    <3>4. QED
      BY <1>7, <3>2, <3>3
  <2> HIDE DEF d
  <2>2. QED
    BY <2>1 DEF TranslateSpan, axis
<1>9. GoodPairs(ref, plan, Pair(ls, rs))
  <2>1. a \notin D => ls = {ref.lhs} /\ rs = {ref.rhs}
    BY <1>1, CarriedIs
  <2>2. a \in D /\ Stays(plan, ref.lhs[a]) => ls = {[ref.lhs EXCEPT ![a] = After(plan, ref.lhs[a])]}
    BY <1>1, CarriedIs
  <2>3. a \in D /\ Stays(plan, ref.rhs[a]) => rs = {[ref.rhs EXCEPT ![a] = After(plan, ref.rhs[a])]}
    BY <1>1, CarriedIs
  <2>4. a \in D /\ ~Stays(plan, ref.lhs[a]) => ls = {}
    BY <1>1, <1>7, CarriedIs
  <2>5. a \in D /\ ~Stays(plan, ref.rhs[a]) => rs = {}
    BY <1>1, <1>7, CarriedIs
  <2> HIDE DEF ls, rs
  <2>6. QED
    BY <1>7, <2>1, <2>2, <2>3, <2>4, <2>5, CarriedPairs
<1> HIDE DEF pairs, ls, rs
<1>10. GoodPairs(ref, plan, pairs)
  BY <1>8, <1>9
<1>11. QED
  BY <1>10 DEF pairs

\* translate, on the whole sheet or all its rows or columns.
LEMMA WholeStays ==
  ASSUME NEW plan \in ShiftPlans, NEW sheet, NEW ref \in References, Whole(ref.lhs, ref.rhs)
  PROVE  /\ ref.kind # "cell"
         /\ ref.kind = "range" =>
              TranslateRange(ref.sheet, ref.lhs, ref.rhs, Delta(plan, sheet)) = {<<ref.lhs, ref.rhs>>}
         /\ ref.kind = "span" =>
              TranslateSpan(ref.lhs, ref.rhs, Delta(plan, sheet)) = {<<ref.lhs, ref.rhs>>}
<1> DEFINE a == plan.axis
           D == DOMAIN ref.lhs
           d == Delta(plan, sheet)
<1>1. a \in Axes
  BY PlanNumbers
<1>2. d.by[a] # 0 /\ d.anchor[a] > 0 /\ \A x \in Axes \ {a} : d.by[x] = 0
  BY DeltaIs
<1>3. \A b \in d.band : b.axis = a
  BY DeltaIs
<1>4. ref.kind # "cell"
  <2> SUFFICES ASSUME ref.kind = "cell" PROVE FALSE
    OBVIOUS
  <2>1. ref.lhs \in Cells /\ ref.rhs = ref.lhs
    BY DEF References
  <2>2. DOMAIN ref.lhs = Axes /\ ref.lhs[a] \in Nat /\ MaxOf[a] \in Nat /\ MaxOf[a] > 1
    BY <1>1, <2>1, CellsFit, Sizes
  <2>3. QED
    BY <1>1, <2>1, <2>2 DEF Whole, Low, High
<1> HIDE DEF d
<1>5. TranslateRange(ref.sheet, ref.lhs, ref.rhs, d) = {<<ref.lhs, ref.rhs>>}
  <2>1. Acts(d, Axes)
    BY <1>1, <1>2 DEF Acts
  <2>2. QED
    BY <2>1 DEF TranslateRange
<1>6. ref.kind = "span" => TranslateSpan(ref.lhs, ref.rhs, d) = {<<ref.lhs, ref.rhs>>}
  <2> SUFFICES ASSUME ref.kind = "span"
               PROVE  TranslateSpan(ref.lhs, ref.rhs, d) = {<<ref.lhs, ref.rhs>>}
    OBVIOUS
  <2> DEFINE axis == CHOOSE x \in Axes : x \in D
             here == {b \in d.band : b.axis = axis}
  <2>1. PICK x \in Axes : D = {x}
    BY ReferenceEnds
  <2>2. axis = x
    BY <2>1
  <2>3. CASE x = a
    <3>1. d.by[axis] # 0 /\ d.anchor[axis] > 0
      BY <1>2, <2>2, <2>3
    <3> HIDE DEF axis
    <3>2. QED
      BY <3>1 DEF TranslateSpan, axis
  <2>4. CASE x # a
    <3>1. here = {}
      BY <1>3, <2>2, <2>4
    <3>2. d.by[axis] = 0
      BY <1>2, <2>2, <2>4
    <3>3. TranslateSpan(ref.lhs, ref.rhs, d) = Pair(Carried(ref.lhs, d), Carried(ref.rhs, d))
      <4> HIDE DEF axis
      <4>1. QED
        BY <3>1, <3>2 DEF TranslateSpan, axis
    <3>4. /\ D \subseteq Axes /\ a \notin D /\ DOMAIN ref.rhs = D
          /\ ref.lhs \in [D -> Nat] /\ ref.rhs \in [D -> Nat]
          /\ \A y \in D : /\ 1 <= ref.lhs[y] /\ ref.lhs[y] <= MaxOf[y]
                          /\ 1 <= ref.rhs[y] /\ ref.rhs[y] <= MaxOf[y]
      BY <2>1, <2>4, ReferenceEnds
    <3>5. Carried(ref.lhs, d) = {ref.lhs}
      <4>1. Carried(ref.lhs, Delta(plan, sheet)) = {ref.lhs}
        BY <3>4, CarriedIs
      <4>2. QED
        BY <4>1 DEF d
    <3>6. Carried(ref.rhs, d) = {ref.rhs}
      <4>1. Carried(ref.rhs, Delta(plan, sheet)) = {ref.rhs}
        BY <3>4, CarriedIs
      <4>2. QED
        BY <4>1 DEF d
    <3>7. QED
      BY <3>3, <3>5, <3>6, PairIs
  <2>5. QED
    BY <2>3, <2>4
<1>7. QED
  BY <1>4, <1>5, <1>6 DEF d

\* The ends of a reference put back make the reference.
LEMMA SameEnds ==
  ASSUME NEW ref \in References
  PROVE  Ends(ref, {<<ref.lhs, ref.rhs>>}) = {ref}
<1>1. ref \in [kind : {"cell", "range", "span"}, sheet : {NoSheet, This, Other},
               lhs : Endpoints, rhs : Endpoints, pinned : SUBSET Axes]
  BY DEF References
<1>2. [ref EXCEPT !.lhs = ref.lhs, !.rhs = ref.rhs] = ref
  BY <1>1
<1> DEFINE p == <<ref.lhs, ref.rhs>>
<1>3. Ends(ref, {p}) = {[ref EXCEPT !.lhs = p[1], !.rhs = p[2]]}
  BY DEF Ends
<1>4. QED
  BY <1>2, <1>3

\* translate, on any reference to the sheet that is shifted.
LEMMA TranslateRefFollows ==
  ASSUME NEW plan \in ShiftPlans, NEW sheet, NEW ref \in References,
         ref.sheet \in {NoSheet, sheet}
  PROVE  /\ Whole(ref.lhs, ref.rhs) => TranslateRef(ref, Delta(plan, sheet)) = {ref}
         /\ ~Whole(ref.lhs, ref.rhs) =>
              PartOfSpan(ref, plan) \/ Follows(ref, plan, TranslateRef(ref, Delta(plan, sheet)))
<1> DEFINE d == Delta(plan, sheet)
           news == TranslateRef(ref, d)
           cellPairs == {<<c, c>> : c \in TranslateCell(ref.sheet, ref.lhs, d)}
<1>0. ref.kind \in {"cell", "range", "span"}
  BY DEF References
<1> HIDE DEF d
<1>1. ref.kind = "cell" => news = Ends(ref, cellPairs)
  BY DEF TranslateRef
<1>2. ref.kind = "range" => news = Ends(ref, TranslateRange(ref.sheet, ref.lhs, ref.rhs, d))
  BY DEF TranslateRef
<1>3. ref.kind = "span" => news = Ends(ref, TranslateSpan(ref.lhs, ref.rhs, d))
  BY DEF TranslateRef
<1>4. CASE Whole(ref.lhs, ref.rhs)
  <2> HIDE DEF news
  <2>1. Ends(ref, {<<ref.lhs, ref.rhs>>}) = {ref}
    BY SameEnds
  <2>2. ref.kind # "cell"
    BY <1>4, WholeStays
  <2>3. ref.kind = "range" => TranslateRange(ref.sheet, ref.lhs, ref.rhs, d) = {<<ref.lhs, ref.rhs>>}
    BY <1>4, WholeStays DEF d
  <2>4. ref.kind = "span" => TranslateSpan(ref.lhs, ref.rhs, d) = {<<ref.lhs, ref.rhs>>}
    BY <1>4, WholeStays DEF d
  <2>5. news = {ref}
    BY <1>0, <1>2, <1>3, <2>1, <2>2, <2>3, <2>4
  <2>6. QED
    BY <1>4, <2>5 DEF news, d
<1>5. CASE ~Whole(ref.lhs, ref.rhs) /\ ~PartOfSpan(ref, plan)
  <2>1. CASE ref.kind = "cell"
    <3> DEFINE new == [ref.lhs EXCEPT ![plan.axis] = After(plan, ref.lhs[plan.axis])]
               s == ref.sheet
    <3>1. ref.lhs \in Cells
      BY <2>1 DEF References
    <3>2. TranslateCell(s, ref.lhs, d) = IF Stays(plan, ref.lhs[plan.axis]) THEN {new} ELSE {}
      <4>1. s \in {NoSheet, sheet}
        OBVIOUS
      <4> HIDE DEF s, new
      <4>2. TranslateCell(s, ref.lhs, Delta(plan, sheet)) =
              IF Stays(plan, ref.lhs[plan.axis]) THEN {new} ELSE {}
        BY <3>1, <4>1, TranslateCellIs DEF new
      <4>3. QED
        BY <4>2 DEF d
    <3>3. ~Stays(plan, ref.lhs[plan.axis]) => cellPairs = {}
      BY <3>2
    <3>4. Stays(plan, ref.lhs[plan.axis]) => cellPairs = {<<new, new>>}
      BY <3>2
    <3>5. Stays(plan, ref.lhs[plan.axis]) => \E c : cellPairs = {<<c, c>>} /\ c = new
      BY <3>4
    <3> HIDE DEF cellPairs, news
    <3>6. GoodPairs(ref, plan, cellPairs)
      BY <2>1, <3>3, <3>5, CellPairs
    <3>7. GoodNews(ref, plan, Ends(ref, cellPairs))
      BY <3>6, GoodPairsNews
    <3>8. Follows(ref, plan, news)
      BY <1>1, <2>1, <3>7, GoodNewsFollow
    <3>9. QED
      BY <1>5, <3>8 DEF news, d
  <2>2. CASE ref.kind = "range"
    <3> DEFINE pairs == TranslateRange(ref.sheet, ref.lhs, ref.rhs, d)
    <3>1. GoodPairs(ref, plan, pairs)
      BY <1>5, <2>2, TranslateRangePairs DEF d
    <3> HIDE DEF pairs, news
    <3>2. GoodNews(ref, plan, Ends(ref, pairs))
      BY <3>1, GoodPairsNews
    <3>3. Follows(ref, plan, news)
      BY <1>2, <2>2, <3>2, GoodNewsFollow DEF pairs
    <3>4. QED
      BY <1>5, <3>3 DEF news, d
  <2>3. CASE ref.kind = "span"
    <3> DEFINE pairs == TranslateSpan(ref.lhs, ref.rhs, d)
    <3>1. GoodPairs(ref, plan, pairs)
      BY <1>5, <2>3, TranslateSpanPairs DEF d
    <3> HIDE DEF pairs, news
    <3>2. GoodNews(ref, plan, Ends(ref, pairs))
      BY <3>1, GoodPairsNews
    <3>3. Follows(ref, plan, news)
      BY <1>3, <2>3, <3>2, GoodNewsFollow DEF pairs
    <3>4. QED
      BY <1>5, <3>3 DEF news, d
  <2>4. QED
    BY <1>0, <2>1, <2>2, <2>3
<1>6. CASE ~Whole(ref.lhs, ref.rhs) /\ PartOfSpan(ref, plan)
  BY <1>6
<1>7. QED
  BY <1>4, <1>5, <1>6

-----------------------------------------------------------------------------
(* The calls: what was asked is what one action did. *)

\* The action by what it was given.
LEMMA Asked ==
  ASSUME Next
  PROVE  /\ given'.what = "formula" => ShiftAFormula
         /\ given'.what = "name" => ShiftAName
         /\ given'.what = "anchor" => ShiftAnAnchor
         /\ given'.what = "cell" => ShiftACell
         /\ given'.what = "columns" => ShiftTheColumns
         /\ given'.what = "note" => ShiftANote
         /\ given'.what = "table" => ShiftATable
         /\ given'.what = "move" => MoveCells
         /\ given'.what = "moved_anchor" => MoveAnAnchor
         /\ given'.what = "patch" => PatchASheet
<1>1. ShiftAFormula => given'.what = "formula"
  BY DEF ShiftAFormula
<1>2. ShiftAName => given'.what = "name"
  BY DEF ShiftAName
<1>3. ShiftAnAnchor => given'.what = "anchor"
  BY DEF ShiftAnAnchor
<1>4. ShiftACell => given'.what = "cell"
  BY DEF ShiftACell
<1>5. ShiftTheColumns => given'.what = "columns"
  BY DEF ShiftTheColumns
<1>6. ShiftANote => given'.what = "note"
  BY DEF ShiftANote
<1>7. ShiftATable => given'.what = "table"
  BY DEF ShiftATable
<1>8. MoveCells => given'.what = "move"
  BY DEF MoveCells
<1>9. MoveAnAnchor => given'.what = "moved_anchor"
  BY DEF MoveAnAnchor
<1>10. PatchASheet => given'.what = "patch"
  BY DEF PatchASheet
<1>11. CopySomeSheets => given'.what = "copy"
  BY DEF CopySomeSheets
<1>12. QED
  BY <1>1, <1>2, <1>3, <1>4, <1>5, <1>6, <1>7, <1>8, <1>9, <1>10, <1>11 DEF Next

\* A plan of the model is one of the plans of the proofs.
LEMMA PlansAreShifts == Plans \subseteq ShiftPlans
BY PlansAssumption DEF ShiftPlans

\* A reference is one whatever sheet it names.
LEMMA NamedReference ==
  ASSUME NEW ref \in References, NEW sheet \in {NoSheet, This, Other}
  PROVE  /\ [ref EXCEPT !.sheet = sheet] \in References
         /\ [ref EXCEPT !.sheet = sheet].sheet = sheet
<1>1. ref \in [kind : {"cell", "range", "span"}, sheet : {NoSheet, This, Other},
               lhs : Endpoints, rhs : Endpoints, pinned : SUBSET Axes]
  BY DEF References
<1> DEFINE new == [ref EXCEPT !.sheet = sheet]
<1>2. /\ new \in [kind : {"cell", "range", "span"}, sheet : {NoSheet, This, Other},
                  lhs : Endpoints, rhs : Endpoints, pinned : SUBSET Axes]
      /\ new.kind = ref.kind /\ new.lhs = ref.lhs /\ new.rhs = ref.rhs /\ new.sheet = sheet
  BY <1>1
<1> HIDE DEF new
<1>3. new \in References
  BY <1>2 DEF References
<1>4. QED
  BY <1>2, <1>3 DEF new

\* What the law of references says of one call.
RefFollows(ref, plan, news) ==
  IF Whole(ref.lhs, ref.rhs) THEN news = {ref} ELSE PartOfSpan(ref, plan) \/ Follows(ref, plan, news)

\* A formula that names no sheet.
LEMMA FormulaFollows ==
  ASSUME NEW ref \in References, NEW plan \in ShiftPlans, ref.sheet = NoSheet
  PROVE  RefFollows(ref, plan, ShiftFormula(ref, plan))
<1> DEFINE s == NoSheet
           news == TranslateRef(ref, Delta(plan, s))
<1>1. ref.sheet \in {NoSheet, s}
  OBVIOUS
<1> HIDE DEF s
<1>2. /\ Whole(ref.lhs, ref.rhs) => news = {ref}
      /\ ~Whole(ref.lhs, ref.rhs) => PartOfSpan(ref, plan) \/ Follows(ref, plan, news)
  BY <1>1, TranslateRefFollows
<1> HIDE DEF news
<1>3. RefFollows(ref, plan, news)
  BY <1>2 DEF RefFollows
<1>4. QED
  BY <1>3 DEF news, s, ShiftFormula

\* A name of the workbook that refers to the sheet.
LEMMA NameFollows ==
  ASSUME NEW ref \in References, NEW plan \in ShiftPlans, ref.sheet = This
  PROVE  RefFollows(ref, plan, ShiftFormulaOnSheet(ref, plan, This))
<1> DEFINE s == This
           news == TranslateRef(ref, Delta(plan, s))
<1>1. ref.sheet \in {NoSheet, s}
  OBVIOUS
<1> HIDE DEF s
<1>2. /\ Whole(ref.lhs, ref.rhs) => news = {ref}
      /\ ~Whole(ref.lhs, ref.rhs) => PartOfSpan(ref, plan) \/ Follows(ref, plan, news)
  BY <1>1, TranslateRefFollows
<1> HIDE DEF news
<1>3. RefFollows(ref, plan, news)
  BY <1>2 DEF RefFollows
<1>4. QED
  BY <1>3 DEF news, s, ShiftFormulaOnSheet

\* Formulas and names that refer to the sheet that is shifted cover the cells
\* that they covered, where they are now (shift_sheet_cells,
\* shift_defined_names), in sheets of every size and for every plan.
THEOREM FormulasFollowCells == Spec => []RefsFollowCells
<1>1. Init => RefsFollowCells
  BY DEF Init, RefsFollowCells
<1>2. RefsFollowCells /\ [Next]_vars => RefsFollowCells'
  <2> SUFFICES ASSUME RefsFollowCells, [Next]_vars PROVE RefsFollowCells'
    OBVIOUS
  <2>1. CASE UNCHANGED vars
    BY <2>1 DEF vars, RefsFollowCells, Follows, PartOfSpan, Covers, Whole
  <2>2. CASE Next /\ given'.what = "formula"
    <3>1. ShiftAFormula
      BY <2>2, Asked
    <3>2. PICK ref \in Refs, sheet \in {NoSheet, Other}, plan \in Plans :
            LET r == [ref EXCEPT !.sheet = sheet]
            IN /\ given' = [what |-> "formula", ref |-> r, plan |-> plan]
               /\ result' = ShiftFormula(r, plan)
      BY <3>1 DEF ShiftAFormula
    <3> DEFINE r == [ref EXCEPT !.sheet = sheet]
    <3>3. r \in References /\ r.sheet = sheet /\ plan \in ShiftPlans
      BY RefsAssumption, NamedReference, PlansAreShifts
    <3> HIDE DEF r
    <3>4. given'.ref = r /\ given'.plan = plan /\ result' = ShiftFormula(r, plan)
      BY <3>2 DEF r
    <3>5. r.sheet # Other => RefFollows(r, plan, ShiftFormula(r, plan))
      BY <3>3, FormulaFollows
    <3>6. QED
      BY <3>4, <3>5 DEF RefsFollowCells, RefFollows
  <2>3. CASE Next /\ given'.what = "name"
    <3>1. ShiftAName
      BY <2>3, Asked
    <3>2. PICK ref \in Refs, sheet \in {This, Other}, scope \in {NoSheet, Other}, plan \in Plans :
            LET r == [ref EXCEPT !.sheet = sheet]
            IN /\ given' = [what |-> "name", ref |-> r, scope |-> scope, plan |-> plan]
               /\ result' = ShiftName([ref |-> r, scope |-> scope], plan, This)
      BY <3>1 DEF ShiftAName
    <3> DEFINE r == [ref EXCEPT !.sheet = sheet]
    <3>3. r \in References /\ r.sheet = sheet /\ plan \in ShiftPlans
      BY RefsAssumption, NamedReference, PlansAreShifts
    <3> HIDE DEF r
    <3>4. /\ given'.ref = r /\ given'.plan = plan /\ given'.scope = scope
          /\ result' = ShiftName([ref |-> r, scope |-> scope], plan, This)
      BY <3>2 DEF r
    <3>5. scope = NoSheet => result' = ShiftFormulaOnSheet(r, plan, This)
      BY <3>4 DEF ShiftName
    <3>6. r.sheet # Other => RefFollows(r, plan, ShiftFormulaOnSheet(r, plan, This))
      BY <3>3, NameFollows
    <3>7. r.sheet # Other /\ scope # Other => RefFollows(r, plan, result')
      BY <3>5, <3>6
    <3>8. QED
      BY <2>3, <3>4, <3>7 DEF RefsFollowCells, RefFollows
  <2>4. CASE Next /\ given'.what \notin {"formula", "name"}
    BY <2>4 DEF RefsFollowCells
  <2>5. QED
    BY <2>1, <2>2, <2>3, <2>4
<1>3. QED
  BY <1>1, <1>2, PTL DEF Spec

-----------------------------------------------------------------------------
(* Spans of columns (cols): what a span is split into. *)

IsSeq(q) == q \in Seq(ToSet(q))

\* A function on the numbers up to its length is a sequence of its values.
LEMMA SequencesAre ==
  ASSUME NEW q, IsSeq(q)
  PROVE  Len(q) \in Nat /\ DOMAIN q = 1..Len(q)
BY DEF IsSeq

\* Short sequences.
LEMMA ShortSequences ==
  ASSUME NEW x, NEW y
  PROVE  /\ IsSeq(<<>>) /\ DOMAIN <<>> = {}
         /\ IsSeq(<<x>>) /\ DOMAIN <<x>> = {1} /\ <<x>>[1] = x
         /\ IsSeq(<<x, y>>) /\ DOMAIN <<x, y>> = {1, 2} /\ <<x, y>>[1] = x /\ <<x, y>>[2] = y
<1>1. IsSeq(<<>>) /\ DOMAIN <<>> = {}
  BY DEF IsSeq
<1>2. DOMAIN <<x>> = {1} /\ <<x>>[1] = x
  OBVIOUS
<1>3. ToSet(<<x>>) = {x}
  BY <1>2 DEF ToSet
<1>4. IsSeq(<<x>>)
  BY <1>3 DEF IsSeq
<1>5. DOMAIN <<x, y>> = {1, 2} /\ <<x, y>>[1] = x /\ <<x, y>>[2] = y
  OBVIOUS
<1>6. ToSet(<<x, y>>) = {x, y}
  BY <1>5 DEF ToSet
<1>7. IsSeq(<<x, y>>)
  BY <1>6 DEF IsSeq
<1>8. QED
  BY <1>1, <1>2, <1>4, <1>5, <1>7

\* One sequence after another.
LEMMA Joined ==
  ASSUME NEW p, NEW q, IsSeq(p), IsSeq(q)
  PROVE  /\ IsSeq(p \o q) /\ Len(p \o q) = Len(p) + Len(q)
         /\ \A i \in 1..Len(p) : (p \o q)[i] = p[i]
         /\ \A i \in 1..Len(q) : (p \o q)[Len(p) + i] = q[i]
         /\ \A i \in DOMAIN (p \o q) : i \in 1..Len(p) \/ \E j \in 1..Len(q) : i = Len(p) + j
<1> DEFINE D == ToSet(p) \cup ToSet(q)
           r == p \o q
<1>1. p \in Seq(D) /\ q \in Seq(D)
  BY DEF IsSeq
<1> HIDE DEF D
<1>2. /\ r \in Seq(D) /\ Len(r) = Len(p) + Len(q) /\ Len(p) \in Nat /\ Len(q) \in Nat
      /\ DOMAIN r = 1..Len(r)
      /\ \A i \in 1..Len(p) : r[i] = p[i]
      /\ \A i \in 1..Len(q) : r[Len(p) + i] = q[i]
  BY <1>1
<1> HIDE DEF r
<1>3. \A i \in DOMAIN r : r[i] \in ToSet(r)
  BY DEF ToSet
<1>4. r = [i \in 1..Len(r) |-> r[i]]
  BY <1>2
<1>5. IsSeq(r)
  <2>1. Len(r) \in Nat /\ r \in [1..Len(r) -> ToSet(r)]
    BY <1>2, <1>3, <1>4
  <2>2. r \in Seq(ToSet(r))
    BY <2>1, FunctionIsSeq
  <2>3. QED
    BY <2>2 DEF IsSeq
<1>6. \A i \in DOMAIN r : i \in 1..Len(p) \/ \E j \in 1..Len(q) : i = Len(p) + j
  <2> SUFFICES ASSUME NEW i \in DOMAIN r, i \notin 1..Len(p)
               PROVE  \E j \in 1..Len(q) : i = Len(p) + j
    OBVIOUS
  <2>1. i - Len(p) \in 1..Len(q) /\ i = Len(p) + (i - Len(p))
    BY <1>2
  <2>2. QED
    BY <2>1
<1>7. QED
  BY <1>2, <1>5, <1>6 DEF r

\* A column of a span that is left, and one of a span of the result.
Left(plan, s, b) == s.min <= b /\ b <= s.max /\ ~InBand(plan, b)
Within(x, c) == x.min <= c /\ c <= x.max

\* A piece is what the columns from l to h become.
Piece(plan, s, x, l, h) ==
  /\ s.min <= l /\ l <= h /\ h <= s.max
  /\ \A b \in l..h : ~InBand(plan, b) /\ After(plan, b) - After(plan, l) = b - l
  /\ x.min = After(plan, l) /\ x.max = After(plan, h) /\ x.attrs = s.attrs

\* The pieces of a span are in order and cover its columns where they are now.
Pieces(plan, s, q) ==
  /\ IsSeq(q)
  /\ \A i \in DOMAIN q :
       /\ q[i].min \in Nat /\ q[i].max \in Nat /\ q[i].min <= q[i].max /\ q[i].attrs = s.attrs
       /\ \E b \in Nat : Left(plan, s, b) /\ q[i].min = After(plan, b)
       /\ \E b \in Nat : Left(plan, s, b) /\ q[i].max = After(plan, b)
       /\ \A c \in Int : Within(q[i], c) => \E b \in Nat : Left(plan, s, b) /\ After(plan, b) = c
  /\ \A i, j \in DOMAIN q : i < j => q[i].max < q[j].min
  /\ \A b \in Nat : Left(plan, s, b) => \E i \in DOMAIN q : Within(q[i], After(plan, b))

IsSpan(s) == s.min \in Nat /\ s.max \in Nat /\ 1 <= s.min /\ s.min <= s.max

\* What a piece of a span is like.
LEMMA PieceIs ==
  ASSUME NEW plan \in ShiftPlans, NEW s, IsSpan(s), NEW l \in Nat, NEW h \in Nat, NEW x,
         Piece(plan, s, x, l, h)
  PROVE  /\ x.min \in Nat /\ x.max \in Nat /\ x.min <= x.max /\ x.attrs = s.attrs
         /\ Left(plan, s, l) /\ x.min = After(plan, l)
         /\ Left(plan, s, h) /\ x.max = After(plan, h)
         /\ \A c \in Int : Within(x, c) => \E b \in Nat : Left(plan, s, b) /\ After(plan, b) = c
         /\ \A b \in Nat : l <= b /\ b <= h => Within(x, After(plan, b))
<1>1. 1 <= l /\ l <= h /\ s.min <= l /\ h <= s.max /\ s.min \in Nat /\ s.max \in Nat
  BY DEF Piece, IsSpan
<1>2. \A b \in l..h : ~InBand(plan, b) /\ After(plan, b) - After(plan, l) = b - l
  BY DEF Piece
<1>3. l \in l..h /\ h \in l..h
  BY <1>1
<1>4. \A b \in l..h : Left(plan, s, b)
  BY <1>1, <1>2 DEF Left
<1>5. \A b \in l..h : b \in Nat /\ After(plan, b) \in Nat
  <2> SUFFICES ASSUME NEW b \in l..h PROVE b \in Nat /\ After(plan, b) \in Nat
    OBVIOUS
  <2>1. b \in Nat /\ 1 <= b /\ ~InBand(plan, b)
    BY <1>1, <1>2
  <2>2. QED
    BY <2>1, AfterKeepsOrder
<1>6. x.min = After(plan, l) /\ x.max = After(plan, h) /\ x.attrs = s.attrs
  BY DEF Piece
<1>7. x.min \in Nat /\ x.max \in Nat /\ x.max - x.min = h - l
  BY <1>2, <1>3, <1>5, <1>6
<1>8. x.min <= x.max
  BY <1>1, <1>7
<1>9. ASSUME NEW c \in Int, Within(x, c) PROVE \E b \in Nat : Left(plan, s, b) /\ After(plan, b) = c
  <2> DEFINE b == l + (c - x.min)
  <2>1. b \in l..h
    BY <1>1, <1>7, <1>9 DEF Within
  <2>2. b - l = c - x.min
    BY <1>7
  <2> HIDE DEF b
  <2>3. After(plan, b) - After(plan, l) = c - x.min /\ After(plan, b) \in Nat /\ b \in Nat
    BY <1>2, <1>5, <2>1, <2>2
  <2>4. After(plan, b) = c
    BY <1>6, <1>7, <2>3
  <2>5. QED
    BY <1>4, <2>1, <2>3, <2>4
<1>10. ASSUME NEW b \in Nat, l <= b, b <= h PROVE Within(x, After(plan, b))
  <2>1. b \in l..h
    BY <1>10
  <2>2. After(plan, b) - After(plan, l) = b - l /\ After(plan, b) \in Nat
    BY <1>2, <1>5, <2>1
  <2>3. QED
    BY <1>6, <1>7, <1>10, <2>2 DEF Within
<1>11. QED
  BY <1>3, <1>4, <1>6, <1>7, <1>8, <1>9, <1>10

\* None of the columns is left.
LEMMA NoPiece ==
  ASSUME NEW plan \in ShiftPlans, NEW s, \A b \in Nat : ~Left(plan, s, b)
  PROVE  Pieces(plan, s, <<>>)
<1>1. IsSeq(<<>>) /\ DOMAIN <<>> = {}
  BY ShortSequences
<1> DEFINE q == <<>>
<1> HIDE DEF q
<1>2. IsSeq(q) /\ DOMAIN q = {}
  BY <1>1 DEF q
<1>3. Pieces(plan, s, q)
  BY <1>2 DEF Pieces
<1>4. QED
  BY <1>3 DEF q

\* The columns that are left stay together.
LEMMA OnePiece ==
  ASSUME NEW plan \in ShiftPlans, NEW s, IsSpan(s), NEW l \in Nat, NEW h \in Nat, NEW x,
         Piece(plan, s, x, l, h), \A b \in Nat : Left(plan, s, b) => l <= b /\ b <= h
  PROVE  Pieces(plan, s, <<x>>)
<1> DEFINE q == <<x>>
<1>1. IsSeq(q) /\ DOMAIN q = {1} /\ q[1] = x
  BY ShortSequences
<1> HIDE DEF q
<1>2. /\ x.min \in Nat /\ x.max \in Nat /\ x.min <= x.max /\ x.attrs = s.attrs
      /\ Left(plan, s, l) /\ x.min = After(plan, l)
      /\ Left(plan, s, h) /\ x.max = After(plan, h)
      /\ \A c \in Int : Within(x, c) => \E b \in Nat : Left(plan, s, b) /\ After(plan, b) = c
      /\ \A b \in Nat : l <= b /\ b <= h => Within(x, After(plan, b))
  BY PieceIs
<1>3. \A i, j \in DOMAIN q : i < j => q[i].max < q[j].min
  BY <1>1
<1>4. \A b \in Nat : Left(plan, s, b) => \E i \in DOMAIN q : Within(q[i], After(plan, b))
  BY <1>1, <1>2
<1>5. Pieces(plan, s, q)
  BY <1>1, <1>2, <1>3, <1>4 DEF Pieces
<1>6. QED
  BY <1>5 DEF q

\* They come apart: the columns up to h, and those from m on.
LEMMA TwoPieces ==
  ASSUME NEW plan \in ShiftPlans, NEW s, IsSpan(s), NEW l \in Nat, NEW h \in Nat, NEW x,
         NEW m \in Nat, NEW n \in Nat, NEW y,
         Piece(plan, s, x, l, h), Piece(plan, s, y, m, n), h < m,
         \A b \in Nat : Left(plan, s, b) => (l <= b /\ b <= h) \/ (m <= b /\ b <= n)
  PROVE  Pieces(plan, s, <<x, y>>)
<1> DEFINE q == <<x, y>>
<1>1. IsSeq(q) /\ DOMAIN q = {1, 2} /\ q[1] = x /\ q[2] = y
  BY ShortSequences
<1> HIDE DEF q
<1>2. /\ x.min \in Nat /\ x.max \in Nat /\ x.min <= x.max /\ x.attrs = s.attrs
      /\ Left(plan, s, l) /\ x.min = After(plan, l)
      /\ Left(plan, s, h) /\ x.max = After(plan, h)
      /\ \A c \in Int : Within(x, c) => \E b \in Nat : Left(plan, s, b) /\ After(plan, b) = c
      /\ \A b \in Nat : l <= b /\ b <= h => Within(x, After(plan, b))
  BY PieceIs
<1>3. /\ y.min \in Nat /\ y.max \in Nat /\ y.min <= y.max /\ y.attrs = s.attrs
      /\ Left(plan, s, m) /\ y.min = After(plan, m)
      /\ Left(plan, s, n) /\ y.max = After(plan, n)
      /\ \A c \in Int : Within(y, c) => \E b \in Nat : Left(plan, s, b) /\ After(plan, b) = c
      /\ \A b \in Nat : m <= b /\ b <= n => Within(y, After(plan, b))
  BY PieceIs
<1>4. x.max < y.min
  <2>1. 1 <= h /\ 1 <= m /\ ~InBand(plan, h) /\ ~InBand(plan, m)
    BY <1>2, <1>3 DEF Left, IsSpan
  <2>2. After(plan, m) <= After(plan, h) <=> m <= h
    BY <2>1, AfterKeepsOrder
  <2>3. QED
    BY <1>2, <1>3, <2>2
<1>5. \A i, j \in DOMAIN q : i < j => q[i].max < q[j].min
  BY <1>1, <1>4
<1>6. \A b \in Nat : Left(plan, s, b) => \E i \in DOMAIN q : Within(q[i], After(plan, b))
  BY <1>1, <1>2, <1>3
<1>7. \A i \in DOMAIN q :
       /\ q[i].min \in Nat /\ q[i].max \in Nat /\ q[i].min <= q[i].max /\ q[i].attrs = s.attrs
       /\ \E b \in Nat : Left(plan, s, b) /\ q[i].min = After(plan, b)
       /\ \E b \in Nat : Left(plan, s, b) /\ q[i].max = After(plan, b)
       /\ \A c \in Int : Within(q[i], c) => \E b \in Nat : Left(plan, s, b) /\ After(plan, b) = c
  BY <1>1, <1>2, <1>3
<1>8. Pieces(plan, s, q)
  BY <1>1, <1>5, <1>6, <1>7 DEF Pieces
<1>9. QED
  BY <1>8 DEF q

\* One piece, or two, and an empty sequence before or after.
LEMMA JoinedPieces ==
  ASSUME NEW x, NEW y
  PROVE  /\ <<>> \o <<x>> = <<x>> /\ <<x>> \o <<>> = <<x>>
         /\ <<x>> \o <<y>> = <<x, y>> /\ <<>> \o <<>> = <<>>
<1>1. <<x>> \in Seq({x, y}) /\ <<>> \in Seq({x, y})
  OBVIOUS
<1>2. <<>> \o <<x>> = <<x>> /\ <<x>> \o <<>> = <<x>> /\ <<>> \o <<>> = <<>>
  BY <1>1, ConcatEmptySeq
<1>3. <<x>> \o <<y>> = <<x, y>>
  <2> DEFINE p == <<x>>
             q == <<y>>
             r == <<x, y>>
  <2>1. /\ p \in Seq({x, y}) /\ q \in Seq({x, y}) /\ r \in Seq({x, y})
        /\ Len(p) = 1 /\ Len(q) = 1 /\ Len(r) = 2
        /\ p[1] = x /\ q[1] = y /\ r[1] = x /\ r[2] = y
    OBVIOUS
  <2> HIDE DEF p, q, r
  <2>2. /\ p \o q \in Seq({x, y}) /\ Len(p \o q) = 2
        /\ (p \o q)[1] = x /\ (p \o q)[2] = y
    <3>1. /\ p \o q \in Seq({x, y}) /\ Len(p \o q) = Len(p) + Len(q)
          /\ \A i \in 1..Len(p) + Len(q) :
               (p \o q)[i] = IF i <= Len(p) THEN p[i] ELSE q[i - Len(p)]
      BY <2>1, ConcatProperties
    <3>2. 1 \in 1..Len(p) + Len(q) /\ 2 \in 1..Len(p) + Len(q)
      BY <2>1
    <3>3. QED
      BY <2>1, <3>1, <3>2
  <2> DEFINE both == p \o q
  <2> HIDE DEF both
  <2>3. both \in Seq({x, y}) /\ Len(both) = Len(r) /\ \A i \in 1..Len(both) : both[i] = r[i]
    BY <2>1, <2>2 DEF both
  <2>4. both = r
    BY <2>1, <2>3, SameSequence
  <2>5. QED
    BY <2>4 DEF both, p, q, r
<1>4. QED
  BY <1>2, <1>3

\* split_col_spans, on one span.
LEMMA SplitSpanPieces ==
  ASSUME NEW plan \in ShiftPlans, NEW s, IsSpan(s)
  PROVE  Pieces(plan, s, SplitSpan(s, plan))
<1> DEFINE idx == plan.idx
           low == Span(s.min, idx - 1, s.attrs)
           lower == IF s.min < idx THEN <<low>> ELSE <<>>
<1>1. /\ s.min \in Nat /\ s.max \in Nat /\ 1 <= s.min /\ s.min <= s.max
      /\ idx \in Nat /\ 1 <= idx /\ plan.n \in Int
  BY PlanNumbers DEF IsSpan
<1>2. \A b \in Int : InBand(plan, b) <=> plan.n < 0 /\ idx <= b /\ b <= idx - plan.n - 1
  BY PlanNumbers
<1>3. /\ Inserts(plan) => plan.n > 0 /\ From(plan) = idx
      /\ ~Inserts(plan) => plan.n < 0 /\ From(plan) = idx - plan.n /\ BandHi(plan) = idx - plan.n - 1
  BY PlanNumbers
<1>4. \A b \in Int : /\ b < idx => After(plan, b) = b /\ ~InBand(plan, b)
                     /\ Inserts(plan) /\ b >= idx => After(plan, b) = b + plan.n /\ ~InBand(plan, b)
                     /\ ~Inserts(plan) /\ b > BandHi(plan) => After(plan, b) = b + plan.n /\ ~InBand(plan, b)
                     /\ ~Inserts(plan) /\ idx <= b /\ b <= BandHi(plan) => InBand(plan, b)
  BY <1>1, <1>2, <1>3 DEF After
<1>5. \A lo, hi, t : /\ Span(lo, hi, t).min = lo /\ Span(lo, hi, t).max = hi
                     /\ Span(lo, hi, t).attrs = t
  BY DEF Span
<1>6. idx - 1 \in Nat
  BY <1>1
<1>7. \A b \in Nat : Left(plan, s, b) <=> s.min <= b /\ b <= s.max /\ ~InBand(plan, b)
  BY DEF Left
<1>8. CASE s.max < idx
  <2>1. Piece(plan, s, s, s.min, s.max)
    <3>1. \A b \in s.min..s.max : ~InBand(plan, b) /\ After(plan, b) - After(plan, s.min) = b - s.min
      BY <1>1, <1>4, <1>8
    <3>2. s.min = After(plan, s.min) /\ s.max = After(plan, s.max)
      BY <1>1, <1>4, <1>8
    <3>3. QED
      BY <1>1, <3>1, <3>2 DEF Piece
  <2>2. \A b \in Nat : Left(plan, s, b) => s.min <= b /\ b <= s.max
    BY <1>7
  <2>3. Pieces(plan, s, <<s>>)
    BY <1>1, <2>1, <2>2, OnePiece
  <2>4. SplitSpan(s, plan) = <<s>>
    BY <1>8 DEF SplitSpan
  <2>5. QED
    BY <2>3, <2>4
<1>9. ASSUME s.max >= idx, s.min < idx PROVE Piece(plan, s, low, s.min, idx - 1)
  <2>1. \A b \in s.min..(idx - 1) : ~InBand(plan, b) /\ After(plan, b) - After(plan, s.min) = b - s.min
    BY <1>1, <1>4, <1>9
  <2>2. low.min = After(plan, s.min) /\ low.max = After(plan, idx - 1) /\ low.attrs = s.attrs
    BY <1>1, <1>4, <1>5, <1>6, <1>9
  <2> HIDE DEF low
  <2>3. QED
    BY <1>1, <1>9, <2>1, <2>2 DEF Piece
<1>10. CASE s.max >= idx /\ Inserts(plan)
  <2> DEFINE m == High(s.min, idx)
             up == Span(m + plan.n, s.max + plan.n, s.attrs)
  <2>1. SplitSpan(s, plan) = lower \o <<up>>
    BY <1>1, <1>10 DEF SplitSpan
  <2>2. m \in Nat /\ idx <= m /\ s.min <= m /\ m <= s.max /\ (m = s.min \/ m = idx)
    BY <1>1, <1>10 DEF High
  <2>3. up.min = m + plan.n /\ up.max = s.max + plan.n /\ up.attrs = s.attrs
    BY <1>5
  <2> HIDE DEF m, up
  <2>4. Piece(plan, s, up, m, s.max)
    <3>1. \A b \in m..s.max : ~InBand(plan, b) /\ After(plan, b) - After(plan, m) = b - m
      BY <1>1, <1>4, <1>10, <2>2
    <3>2. up.min = After(plan, m) /\ up.max = After(plan, s.max)
      BY <1>1, <1>4, <1>10, <2>2, <2>3
    <3>3. QED
      BY <1>1, <2>2, <2>3, <3>1, <3>2 DEF Piece
  <2>5. CASE s.min < idx
    <3>1. Piece(plan, s, low, s.min, idx - 1) /\ m = idx /\ idx - 1 < m
      BY <1>1, <1>9, <1>10, <2>2, <2>5
    <3>2. \A b \in Nat : Left(plan, s, b) => (s.min <= b /\ b <= idx - 1) \/ (m <= b /\ b <= s.max)
      BY <1>1, <1>7, <3>1
    <3> HIDE DEF low
    <3>3. Pieces(plan, s, <<low, up>>)
      BY <1>1, <1>6, <2>2, <2>4, <3>1, <3>2, TwoPieces
    <3>4. lower \o <<up>> = <<low, up>>
      BY <2>5, JoinedPieces
    <3>5. QED
      BY <2>1, <3>3, <3>4
  <2>6. CASE ~(s.min < idx)
    <3>1. m = s.min
      BY <1>1, <2>2, <2>6
    <3>2. \A b \in Nat : Left(plan, s, b) => m <= b /\ b <= s.max
      BY <1>7, <3>1
    <3>3. Pieces(plan, s, <<up>>)
      BY <1>1, <2>2, <2>4, <3>2, OnePiece
    <3>4. lower \o <<up>> = <<up>>
      BY <2>6, JoinedPieces
    <3>5. QED
      BY <2>1, <3>3, <3>4
  <2>7. QED
    BY <2>5, <2>6
<1>11. CASE s.max >= idx /\ ~Inserts(plan) /\ s.min > BandHi(plan)
  <2> DEFINE x == Span(s.min + plan.n, s.max + plan.n, s.attrs)
  <2>1. SplitSpan(s, plan) = <<x>>
    BY <1>1, <1>11 DEF SplitSpan
  <2>2. x.min = s.min + plan.n /\ x.max = s.max + plan.n /\ x.attrs = s.attrs
    BY <1>5
  <2> HIDE DEF x
  <2>3. BandHi(plan) \in Int
    BY <1>1, <1>3, <1>11
  <2>4. Piece(plan, s, x, s.min, s.max)
    <3>1. \A b \in s.min..s.max : ~InBand(plan, b) /\ After(plan, b) - After(plan, s.min) = b - s.min
      BY <1>1, <1>4, <1>11, <2>3
    <3>2. x.min = After(plan, s.min) /\ x.max = After(plan, s.max)
      BY <1>1, <1>4, <1>11, <2>2, <2>3
    <3>3. QED
      BY <1>1, <2>2, <3>1, <3>2 DEF Piece
  <2>5. \A b \in Nat : Left(plan, s, b) => s.min <= b /\ b <= s.max
    BY <1>7
  <2>6. Pieces(plan, s, <<x>>)
    BY <1>1, <2>4, <2>5, OnePiece
  <2>7. QED
    BY <2>1, <2>6
<1>12. CASE s.max >= idx /\ ~Inserts(plan) /\ ~(s.min > BandHi(plan))
  <2> DEFINE m == BandHi(plan) + 1
             up == Span(m + plan.n, s.max + plan.n, s.attrs)
             upper == IF s.max > BandHi(plan) THEN <<up>> ELSE <<>>
  <2>1. SplitSpan(s, plan) = lower \o upper
    BY <1>1, <1>12 DEF SplitSpan
  <2>2. BandHi(plan) \in Nat /\ m \in Nat /\ idx < m /\ s.min < m
    BY <1>1, <1>3, <1>12
  <2>3. up.min = m + plan.n /\ up.max = s.max + plan.n /\ up.attrs = s.attrs
    BY <1>5
  <2> HIDE DEF up
  <2>4. s.max > BandHi(plan) => Piece(plan, s, up, m, s.max)
    <3> SUFFICES ASSUME s.max > BandHi(plan) PROVE Piece(plan, s, up, m, s.max)
      OBVIOUS
    <3>1. \A b \in m..s.max : ~InBand(plan, b) /\ After(plan, b) - After(plan, m) = b - m
      BY <1>1, <1>4, <1>12, <2>2
    <3>2. up.min = After(plan, m) /\ up.max = After(plan, s.max)
      BY <1>1, <1>4, <1>12, <2>2, <2>3
    <3>3. QED
      BY <1>1, <2>2, <2>3, <3>1, <3>2 DEF Piece
  <2>5. \A b \in Nat : Left(plan, s, b) => (s.min <= b /\ b <= idx - 1) \/ (m <= b /\ b <= s.max)
    BY <1>1, <1>4, <1>7, <1>12, <2>2
  <2>6. CASE s.min < idx /\ s.max > BandHi(plan)
    <3>1. Piece(plan, s, low, s.min, idx - 1) /\ idx - 1 < m
      BY <1>1, <1>9, <1>12, <2>2, <2>6
    <3> HIDE DEF low, m
    <3>2. Pieces(plan, s, <<low, up>>)
      BY <1>1, <1>6, <2>2, <2>4, <2>5, <2>6, <3>1, TwoPieces
    <3>3. lower \o upper = <<low, up>>
      BY <2>6, JoinedPieces
    <3>4. QED
      BY <2>1, <3>2, <3>3
  <2>7. CASE s.min < idx /\ ~(s.max > BandHi(plan))
    <3>1. Piece(plan, s, low, s.min, idx - 1)
      BY <1>9, <1>12, <2>7
    <3>2. \A b \in Nat : Left(plan, s, b) => s.min <= b /\ b <= idx - 1
      BY <1>1, <2>2, <2>5, <2>7
    <3> HIDE DEF low
    <3>3. Pieces(plan, s, <<low>>)
      BY <1>1, <1>6, <3>1, <3>2, OnePiece
    <3>4. lower \o upper = <<low>>
      BY <2>7, JoinedPieces
    <3>5. QED
      BY <2>1, <3>3, <3>4
  <2>8. CASE ~(s.min < idx) /\ s.max > BandHi(plan)
    <3>1. \A b \in Nat : Left(plan, s, b) => m <= b /\ b <= s.max
      BY <1>1, <2>2, <2>5, <2>8
    <3> HIDE DEF m
    <3>2. Pieces(plan, s, <<up>>)
      BY <1>1, <2>2, <2>4, <2>8, <3>1, OnePiece
    <3>3. lower \o upper = <<up>>
      BY <2>8, JoinedPieces
    <3>4. QED
      BY <2>1, <3>2, <3>3
  <2>9. CASE ~(s.min < idx) /\ ~(s.max > BandHi(plan))
    <3>1. \A b \in Nat : ~Left(plan, s, b)
      BY <1>1, <2>2, <2>5, <2>9
    <3>2. Pieces(plan, s, <<>>)
      BY <3>1, NoPiece
    <3>3. lower \o upper = <<>>
      BY <2>9, JoinedPieces
    <3>4. QED
      BY <2>1, <3>2, <3>3
  <2>10. QED
    BY <2>6, <2>7, <2>8, <2>9
<1>13. s.max < idx \/ s.max >= idx
  BY <1>1
<1>14. QED
  BY <1>8, <1>10, <1>11, <1>12, <1>13

-----------------------------------------------------------------------------
(* The columns of a sheet, span by span. *)

SpanStep(plan, done, s) == done \o SplitSpan(s, plan)
Splits == INSTANCE FoldInduction WITH Op <- SpanStep, Good <- LAMBDA c, done : TRUE

\* Spans of the sheet, in order and apart.
SheetSpans(spans) ==
  /\ IsSeq(spans) /\ Apart(spans)
  /\ \A i \in DOMAIN spans : {spans[i].min, spans[i].max} \subseteq 1..MaxOf["col"]

\* What the first k spans are split into.
Split(plan, spans, k, done) ==
  /\ IsSeq(done)
  /\ \A i \in DOMAIN done :
       /\ done[i].min \in Nat /\ done[i].max \in Nat /\ done[i].min <= done[i].max
       /\ \E j \in 1..k : /\ done[i].attrs = spans[j].attrs
                          /\ \E b \in Nat : Left(plan, spans[j], b) /\ done[i].max = After(plan, b)
                          /\ \A c \in Int : Within(done[i], c) =>
                               \E b \in Nat : Left(plan, spans[j], b) /\ After(plan, b) = c
  /\ \A i, j \in DOMAIN done : i < j => done[i].max < done[j].min
  /\ \A j \in 1..k : \A b \in Nat : Left(plan, spans[j], b) =>
       \E i \in DOMAIN done : Within(done[i], After(plan, b)) /\ done[i].attrs = spans[j].attrs

\* Any two spans are apart, not only neighbours.
LEMMA SpansAreApart ==
  ASSUME NEW spans, SheetSpans(spans)
  PROVE  /\ Len(spans) \in Nat /\ DOMAIN spans = 1..Len(spans)
         /\ \A i \in DOMAIN spans : IsSpan(spans[i]) /\ spans[i].max <= MaxOf["col"]
         /\ \A i, j \in DOMAIN spans : i < j => spans[i].max < spans[j].min
<1>1. Len(spans) \in Nat /\ DOMAIN spans = 1..Len(spans)
  BY SequencesAre DEF SheetSpans
<1>2. MaxOf["col"] \in Nat
  BY Sizes DEF Axes
<1>3. ASSUME NEW i \in DOMAIN spans PROVE IsSpan(spans[i]) /\ spans[i].max <= MaxOf["col"]
  <2>1. {spans[i].min, spans[i].max} \subseteq 1..MaxOf["col"] /\ spans[i].min <= spans[i].max
    BY DEF SheetSpans, Apart
  <2>2. QED
    BY <1>2, <2>1 DEF IsSpan
<1>4. \A i \in DOMAIN spans \ {1} : spans[i - 1].max < spans[i].min
  BY DEF SheetSpans, Apart
<1> DEFINE T == {n \in Nat : \A j \in DOMAIN spans : \A i \in DOMAIN spans :
                   i < j /\ j <= n => spans[i].max < spans[j].min}
<1>5. 0 \in T
  BY <1>1
<1>6. \A n \in T : n + 1 \in T
  <2> SUFFICES ASSUME NEW n \in T, NEW j \in DOMAIN spans, NEW i \in DOMAIN spans,
                      i < j, j <= n + 1
               PROVE  spans[i].max < spans[j].min
    OBVIOUS
  <2>1. n \in Nat /\ i \in Nat /\ j \in Nat /\ 1 <= i /\ j <= Len(spans)
    BY <1>1
  <2>2. j - 1 \in DOMAIN spans /\ j # 1 /\ i <= j - 1
    BY <1>1, <2>1
  <2>3. spans[j - 1].max < spans[j].min
    BY <1>4, <2>2
  <2>4. i < j - 1 => spans[i].max < spans[j - 1].min
    BY <2>1, <2>2
  <2>5. IsSpan(spans[i]) /\ IsSpan(spans[j]) /\ IsSpan(spans[j - 1])
    BY <1>3, <2>2
  <2>6. QED
    BY <2>1, <2>2, <2>3, <2>4, <2>5 DEF IsSpan
<1>7. T = Nat
  <2>1. T \in SUBSET Nat
    OBVIOUS
  <2> HIDE DEF T
  <2>2. QED
    BY <1>5, <1>6, <2>1, AllNaturals
<1>8. \A i, j \in DOMAIN spans : i < j => spans[i].max < spans[j].min
  <2> SUFFICES ASSUME NEW i \in DOMAIN spans, NEW j \in DOMAIN spans, i < j
               PROVE  spans[i].max < spans[j].min
    OBVIOUS
  <2>1. Len(spans) \in T /\ j <= Len(spans)
    BY <1>1, <1>7
  <2>2. QED
    BY <2>1
<1>9. QED
  BY <1>1, <1>3, <1>8

\* One span more.
LEMMA SplitStep ==
  ASSUME NEW plan \in ShiftPlans, NEW spans, SheetSpans(spans), NEW k \in 0..(Len(spans) - 1),
         NEW done, Split(plan, spans, k, done)
  PROVE  Split(plan, spans, k + 1, done \o SplitSpan(spans[k + 1], plan))
<1> DEFINE s == spans[k + 1]
           q == SplitSpan(s, plan)
           all == done \o q
           d == Len(done)
<1>1. /\ Len(spans) \in Nat /\ DOMAIN spans = 1..Len(spans)
      /\ \A i \in DOMAIN spans : IsSpan(spans[i])
      /\ \A i, j \in DOMAIN spans : i < j => spans[i].max < spans[j].min
  BY SpansAreApart
<1>2. k \in Nat /\ k + 1 \in DOMAIN spans /\ \A j \in 1..k : j \in DOMAIN spans /\ j < k + 1 /\ j \in 1..(k + 1)
  BY <1>1
<1>3. Pieces(plan, s, q)
  BY <1>1, <1>2, SplitSpanPieces
<1> HIDE DEF q
<1>4. IsSeq(q) /\ IsSeq(done) /\ Len(q) \in Nat /\ d \in Nat
      /\ DOMAIN q = 1..Len(q) /\ DOMAIN done = 1..d
  BY <1>3, SequencesAre DEF Pieces, Split
<1>5. /\ IsSeq(all) /\ Len(all) = d + Len(q)
      /\ \A i \in 1..d : all[i] = done[i]
      /\ \A i \in 1..Len(q) : all[d + i] = q[i]
      /\ \A i \in DOMAIN all : i \in 1..d \/ \E j \in 1..Len(q) : i = d + j
  BY <1>4, Joined
<1>6. DOMAIN all = 1..(d + Len(q)) /\ \A i \in 1..d : i \in DOMAIN all
  <2>1. DOMAIN all = 1..Len(all)
    BY <1>5, SequencesAre
  <2>2. QED
    BY <1>4, <1>5, <2>1
<1>7. \A i \in 1..Len(q) : d + i \in DOMAIN all
  BY <1>4, <1>6
<1> HIDE DEF all, d
<1>8. ASSUME NEW i \in DOMAIN all
      PROVE  /\ all[i].min \in Nat /\ all[i].max \in Nat /\ all[i].min <= all[i].max
             /\ \E j \in 1..(k + 1) :
                  /\ all[i].attrs = spans[j].attrs
                  /\ \E b \in Nat : Left(plan, spans[j], b) /\ all[i].max = After(plan, b)
                  /\ \A c \in Int : Within(all[i], c) =>
                       \E b \in Nat : Left(plan, spans[j], b) /\ After(plan, b) = c
  <2>1. CASE i \in 1..d
    <3>1. all[i] = done[i] /\ i \in DOMAIN done
      BY <1>4, <1>5, <2>1
    <3>2. /\ done[i].min \in Nat /\ done[i].max \in Nat /\ done[i].min <= done[i].max
          /\ \E j \in 1..k : /\ done[i].attrs = spans[j].attrs
                             /\ \E b \in Nat : Left(plan, spans[j], b) /\ done[i].max = After(plan, b)
                             /\ \A c \in Int : Within(done[i], c) =>
                                  \E b \in Nat : Left(plan, spans[j], b) /\ After(plan, b) = c
      BY <3>1 DEF Split
    <3>3. QED
      BY <1>2, <3>1, <3>2
  <2>2. CASE \E j \in 1..Len(q) : i = d + j
    <3>1. PICK m \in 1..Len(q) : i = d + m
      BY <2>2
    <3>2. all[i] = q[m] /\ m \in DOMAIN q
      BY <1>4, <1>5, <3>1
    <3>3. /\ q[m].min \in Nat /\ q[m].max \in Nat /\ q[m].min <= q[m].max /\ q[m].attrs = s.attrs
          /\ \E b \in Nat : Left(plan, s, b) /\ q[m].max = After(plan, b)
          /\ \A c \in Int : Within(q[m], c) => \E b \in Nat : Left(plan, s, b) /\ After(plan, b) = c
      BY <1>3, <3>2 DEF Pieces
    <3>4. k + 1 \in 1..(k + 1)
      BY <1>2
    <3>5. QED
      BY <3>2, <3>3, <3>4
  <2>3. QED
    BY <1>5, <2>1, <2>2
<1>9. ASSUME NEW i \in 1..d, NEW m \in 1..Len(q) PROVE done[i].max < q[m].min
  <2>1. i \in DOMAIN done /\ m \in DOMAIN q
    BY <1>4
  <2>2. PICK j \in 1..k, b \in Nat : Left(plan, spans[j], b) /\ done[i].max = After(plan, b)
    BY <2>1 DEF Split
  <2>3. PICK e \in Nat : Left(plan, s, e) /\ q[m].min = After(plan, e)
    BY <1>3, <2>1 DEF Pieces
  <2>4. spans[j].max < s.min /\ IsSpan(spans[j]) /\ IsSpan(s)
    BY <1>1, <1>2
  <2>5. /\ 1 <= b /\ ~InBand(plan, b) /\ b <= spans[j].max
        /\ 1 <= e /\ ~InBand(plan, e) /\ s.min <= e
    BY <2>2, <2>3, <2>4 DEF Left, IsSpan
  <2>6. /\ After(plan, e) <= After(plan, b) <=> e <= b
        /\ After(plan, e) \in Nat /\ After(plan, b) \in Nat
    BY <2>5, AfterKeepsOrder
  <2>7. ~(e <= b)
    BY <2>4, <2>5 DEF IsSpan
  <2>8. QED
    BY <2>2, <2>3, <2>6, <2>7
<1>10. ASSUME NEW i \in DOMAIN all, NEW j \in DOMAIN all, i < j PROVE all[i].max < all[j].min
  <2>1. CASE i \in 1..d /\ j \in 1..d
    <3>1. i \in DOMAIN done /\ j \in DOMAIN done /\ all[i] = done[i] /\ all[j] = done[j]
      BY <1>4, <1>5, <2>1
    <3>2. QED
      BY <1>10, <3>1 DEF Split
  <2>2. CASE i \in 1..d /\ \E m \in 1..Len(q) : j = d + m
    BY <1>5, <1>9, <2>2
  <2>3. CASE (\E m \in 1..Len(q) : i = d + m) /\ (\E m \in 1..Len(q) : j = d + m)
    <3>1. PICK m \in 1..Len(q) : i = d + m
      BY <2>3
    <3>2. PICK n \in 1..Len(q) : j = d + n
      BY <2>3
    <3>3. m \in DOMAIN q /\ n \in DOMAIN q /\ m < n /\ all[i] = q[m] /\ all[j] = q[n]
      BY <1>4, <1>5, <1>10, <3>1, <3>2
    <3>4. QED
      BY <1>3, <3>3 DEF Pieces
  <2>4. CASE (\E m \in 1..Len(q) : i = d + m) /\ j \in 1..d
    BY <1>4, <1>10, <2>4
  <2>5. QED
    BY <1>5, <2>1, <2>2, <2>3, <2>4
<1>11. ASSUME NEW j \in 1..(k + 1), NEW b \in Nat, Left(plan, spans[j], b)
       PROVE  \E i \in DOMAIN all : Within(all[i], After(plan, b)) /\ all[i].attrs = spans[j].attrs
  <2>1. CASE j \in 1..k
    <3>1. PICK i \in DOMAIN done : Within(done[i], After(plan, b)) /\ done[i].attrs = spans[j].attrs
      BY <1>11, <2>1 DEF Split
    <3>2. i \in DOMAIN all /\ all[i] = done[i]
      BY <1>4, <1>5, <1>6
    <3>3. QED
      BY <3>1, <3>2
  <2>2. CASE j = k + 1
    <3>1. PICK i \in DOMAIN q : Within(q[i], After(plan, b))
      BY <1>3, <1>11, <2>2 DEF Pieces
    <3>2. d + i \in DOMAIN all /\ all[d + i] = q[i] /\ q[i].attrs = s.attrs
      BY <1>3, <1>4, <1>5, <1>7, <3>1 DEF Pieces
    <3>3. QED
      BY <2>2, <3>1, <3>2
  <2>3. QED
    BY <1>2, <2>1, <2>2
<1>12. Split(plan, spans, k + 1, all)
  BY <1>5, <1>8, <1>10, <1>11 DEF Split
<1>13. QED
  BY <1>12 DEF all, q

\* split_col_spans, on all spans.
LEMMA SplitColSpansAre ==
  ASSUME NEW plan \in ShiftPlans, NEW spans, SheetSpans(spans), plan.axis = "col"
  PROVE  Split(plan, spans, Len(spans), SplitColSpans(spans, plan))
<1> DEFINE n == Len(spans)
<1>1. SplitColSpans(spans, plan) = Splits!Folded(plan, <<>>, spans)
  <2>1. FoldLeft(LAMBDA done, s : done \o SplitSpan(s, plan), <<>>, spans)
          = Splits!Folded(plan, <<>>, spans)
    BY DEF FoldLeft, MapThenFoldSet, Max, SpanStep, Splits!Folded, Splits!IsFold, Splits!Top
  <2>2. QED
    BY <2>1 DEF SplitColSpans
<1>2. spans \in Seq(ToSet(spans)) /\ n \in Nat
  BY SpansAreApart DEF SheetSpans, IsSeq
<1>3. PICK f : Splits!PrefixFolds(plan, <<>>, spans, f)
  BY <1>2, Splits!PrefixesFold
<1>4. /\ f[1..0] = <<>>
      /\ \A k \in 0..(n - 1) : f[1..(k + 1)] = f[1..k] \o SplitSpan(spans[k + 1], plan)
      /\ SplitColSpans(spans, plan) = f[1..n]
  BY <1>1, <1>3 DEF Splits!PrefixFolds, SpanStep
<1> DEFINE T == {k \in Nat : k <= n => Split(plan, spans, k, f[1..k])}
<1>5. 0 \in T
  <2> DEFINE q == <<>>
  <2>1. IsSeq(q) /\ DOMAIN q = {}
    BY ShortSequences
  <2> HIDE DEF q
  <2>2. \A j \in 1..0 : FALSE
    OBVIOUS
  <2>3. Split(plan, spans, 0, q)
    BY <2>1, <2>2 DEF Split
  <2>4. QED
    BY <1>4, <2>3 DEF q
<1>6. \A k \in T : k + 1 \in T
  <2> SUFFICES ASSUME NEW k \in T, k + 1 <= n PROVE Split(plan, spans, k + 1, f[1..(k + 1)])
    OBVIOUS
  <2>1. k \in 0..(n - 1) /\ Split(plan, spans, k, f[1..k])
    BY <1>2
  <2> DEFINE done == f[1..k]
             next == f[1..(k + 1)]
  <2>2. next = done \o SplitSpan(spans[k + 1], plan)
    BY <1>4, <2>1
  <2> HIDE DEF done, next
  <2>3. Split(plan, spans, k + 1, done \o SplitSpan(spans[k + 1], plan))
    BY <2>1, SplitStep DEF done
  <2>4. Split(plan, spans, k + 1, next)
    BY <2>2, <2>3
  <2>5. QED
    BY <2>4 DEF next
<1>7. T = Nat
  <2>1. T \in SUBSET Nat
    OBVIOUS
  <2> HIDE DEF T
  <2>2. QED
    BY <1>5, <1>6, <2>1, AllNaturals
<1>8. n \in T
  BY <1>2, <1>7
<1>9. QED
  BY <1>2, <1>4, <1>8

\* A column of the sheet gets the widths of the columns that are there now.
LEMMA ColumnsKeepWidths ==
  ASSUME NEW plan \in ShiftPlans, plan.axis = "col", NEW spans, SheetSpans(spans),
         NEW done, Split(plan, spans, Len(spans), done), NEW c \in 1..MaxOf["col"],
         NEW from, from = {b \in 1..MaxOf["col"] :
                             \E x \in AnchorCell([a \in Axes |-> b], plan) : x["col"] = c}
  PROVE  AttrsAt(done, c) = UNION {AttrsAt(spans, b) : b \in from}
<1>1. /\ Len(spans) \in Nat /\ DOMAIN spans = 1..Len(spans)
      /\ \A i \in DOMAIN spans : IsSpan(spans[i]) /\ spans[i].max <= MaxOf["col"]
  BY SpansAreApart
<1>2. MaxOf["col"] \in Nat /\ c \in Nat /\ 1 <= c /\ c <= MaxOf["col"]
  BY Sizes DEF Axes
<1>3. \A b \in 1..MaxOf["col"] : b \in from <=> ~InBand(plan, b) /\ After(plan, b) = c
  <2> SUFFICES ASSUME NEW b \in 1..MaxOf["col"]
               PROVE  (\E x \in AnchorCell([a \in Axes |-> b], plan) : x["col"] = c)
                        <=> ~InBand(plan, b) /\ After(plan, b) = c
    OBVIOUS
  <2> DEFINE cell == [a \in Axes |-> b]
             new == [cell EXCEPT !["col"] = After(plan, b)]
  <2>1. DOMAIN cell = Axes /\ "col" \in Axes /\ cell["col"] = b
    BY DEF Axes
  <2> HIDE DEF cell
  <2>2. new["col"] = After(plan, b)
    BY <2>1
  <2> HIDE DEF new
  <2>3. InBand(plan, b) => AnchorCell(cell, plan) = {}
    BY <2>1 DEF AnchorCell
  <2>4. ~InBand(plan, b) => AnchorCell(cell, plan) = {x \in {new} : x["col"] \in 1..MaxOf["col"]}
    BY <2>1 DEF AnchorCell, After, From, new
  <2>5. (\E x \in AnchorCell(cell, plan) : x["col"] = c) <=> ~InBand(plan, b) /\ After(plan, b) = c
    <3>1. CASE InBand(plan, b)
      BY <2>3, <3>1
    <3>2. CASE ~InBand(plan, b)
      <4>1. (\E x \in AnchorCell(cell, plan) : x["col"] = c) => new["col"] = c
        BY <2>4, <3>2
      <4>2. new["col"] = c => new \in AnchorCell(cell, plan)
        BY <2>4, <3>2
      <4>3. QED
        BY <2>2, <3>2, <4>1, <4>2
    <3>3. QED
      BY <3>1, <3>2
  <2>6. QED
    BY <2>5 DEF cell
<1>4. \A i \in DOMAIN done : done[i].min \in Nat /\ done[i].max \in Nat
  BY DEF Split
<1>5. ASSUME NEW t \in AttrsAt(done, c) PROVE \E b \in from : t \in AttrsAt(spans, b)
  <2>1. PICK i \in DOMAIN done : c \in done[i].min..done[i].max /\ t = done[i].attrs
    BY DEF AttrsAt
  <2>2. Within(done[i], c) /\ c \in Int
    BY <1>2, <1>4, <2>1 DEF Within
  <2>3. PICK j \in 1..Len(spans) : /\ done[i].attrs = spans[j].attrs
                                   /\ \A e \in Int : Within(done[i], e) =>
                                        \E b \in Nat : Left(plan, spans[j], b) /\ After(plan, b) = e
    BY DEF Split
  <2>4. PICK b \in Nat : Left(plan, spans[j], b) /\ After(plan, b) = c
    BY <2>2, <2>3
  <2>5. IsSpan(spans[j]) /\ spans[j].max <= MaxOf["col"] /\ j \in DOMAIN spans
    BY <1>1
  <2>6. b \in 1..MaxOf["col"] /\ b \in spans[j].min..spans[j].max /\ ~InBand(plan, b)
    BY <1>2, <2>4, <2>5 DEF Left, IsSpan
  <2>7. b \in from
    BY <1>3, <2>4, <2>6
  <2>8. t \in AttrsAt(spans, b)
    BY <2>1, <2>3, <2>5, <2>6 DEF AttrsAt
  <2>9. QED
    BY <2>7, <2>8
<1>6. ASSUME NEW b \in from, NEW t \in AttrsAt(spans, b) PROVE t \in AttrsAt(done, c)
  <2>1. b \in 1..MaxOf["col"] /\ b \in Nat
    BY <1>2
  <2>2. ~InBand(plan, b) /\ After(plan, b) = c
    BY <1>3, <2>1
  <2>3. PICK j \in DOMAIN spans : b \in spans[j].min..spans[j].max /\ t = spans[j].attrs
    BY <1>6 DEF AttrsAt
  <2>4. Left(plan, spans[j], b) /\ j \in 1..Len(spans)
    BY <1>1, <2>1, <2>2, <2>3 DEF Left, IsSpan
  <2>5. PICK i \in DOMAIN done : Within(done[i], c) /\ done[i].attrs = spans[j].attrs
    BY <2>1, <2>2, <2>4 DEF Split
  <2>6. c \in done[i].min..done[i].max
    BY <1>2, <1>4, <2>5 DEF Within
  <2>7. QED
    BY <2>3, <2>5, <2>6 DEF AttrsAt
<1>7. QED
  BY <1>5, <1>6

\* Spans stay apart.
LEMMA SplitIsApart ==
  ASSUME NEW plan, NEW spans, NEW k, NEW done, Split(plan, spans, k, done)
  PROVE  Apart(done)
<1>1. Len(done) \in Nat /\ DOMAIN done = 1..Len(done)
  BY SequencesAre DEF Split
<1>2. \A i \in DOMAIN done : done[i].min <= done[i].max
  BY DEF Split
<1>3. ASSUME NEW i \in DOMAIN done \ {1} PROVE done[i - 1].max < done[i].min
  <2>1. i - 1 \in DOMAIN done /\ i - 1 < i
    BY <1>1
  <2>2. QED
    BY <2>1 DEF Split
<1>4. QED
  BY <1>2, <1>3 DEF Apart

\* The ranges of merges, hyperlinks, validations and formats follow their cells
\* (shift_anchors), a row element and its cells agree (shift_cells), and columns
\* keep their widths (split_col_spans), in sheets of every size, for every plan
\* and for any number of spans.
THEOREM AnchorsFollowTheirCells == Spec => []AnchorsFollowCells
<1>1. Init => AnchorsFollowCells
  BY DEF Init, AnchorsFollowCells
<1>2. AnchorsFollowCells /\ [Next]_vars => AnchorsFollowCells'
  <2> SUFFICES ASSUME AnchorsFollowCells, [Next]_vars PROVE AnchorsFollowCells'
    OBVIOUS
  <2>1. CASE UNCHANGED vars
    BY <2>1 DEF vars, AnchorsFollowCells
  <2>2. CASE Next /\ given'.what = "anchor"
    <3>1. ShiftAnAnchor
      BY <2>2, Asked
    <3>2. PICK ref \in Refs, plan \in Plans :
            /\ given' = [what |-> "anchor", ref |-> ref, plan |-> plan]
            /\ result' = ShiftAnchor(ref, plan)
      BY <3>1 DEF ShiftAnAnchor
    <3>3. ref \in References /\ plan \in ShiftPlans
      BY RefsAssumption, PlansAreShifts
    <3> DEFINE news == ShiftAnchor(ref, plan)
    <3>4. GoodNews(ref, plan, news)
      BY <3>3, ShiftAnchorNews
    <3> HIDE DEF news
    <3>5. Follows(ref, plan, news)
      BY <3>3, <3>4, GoodNewsFollow
    <3>6. given'.ref = ref /\ given'.plan = plan /\ result' = news
      BY <3>2 DEF news
    <3>7. QED
      BY <2>2, <3>5, <3>6 DEF AnchorsFollowCells
  <2>3. CASE Next /\ given'.what = "cell"
    <3>1. ShiftACell
      BY <2>3, Asked
    <3>2. PICK cell \in Cells, plan \in Plans :
            /\ given' = [what |-> "cell", cell |-> cell, plan |-> plan]
            /\ result' = [row |-> ShiftedRow(cell["row"], plan), cell |-> AnchorCell(cell, plan)]
      BY <3>1 DEF ShiftACell
    <3> DEFINE a == plan.axis
               rows == ShiftedRow(cell["row"], plan)
               news == AnchorCell(cell, plan)
               new == [cell EXCEPT ![a] = After(plan, cell[a])]
    <3>3. plan \in ShiftPlans /\ a \in Axes /\ DOMAIN cell = Axes /\ "row" \in Axes
      BY PlansAreShifts, PlanNumbers, CellsFit DEF Axes
    <3>4. /\ news = IF Stays(plan, cell[a]) THEN {new} ELSE {}
          /\ a # "row" => rows = {cell["row"]}
          /\ a = "row" => rows = IF Stays(plan, cell["row"]) THEN {After(plan, cell["row"])} ELSE {}
      BY <3>3, AnchorCellIs
    <3>5. (a = "row" => new["row"] = After(plan, cell["row"])) /\ (a # "row" => new["row"] = cell["row"])
      BY <3>3
    <3> HIDE DEF rows, news, new
    <3>6. /\ \A c \in news : rows = {c["row"]}
          /\ a = "row" /\ news = {} => rows = {}
      <4>1. CASE a = "row"
        BY <3>4, <3>5, <4>1
      <4>2. CASE a # "row"
        BY <3>4, <3>5, <4>2
      <4>3. QED
        BY <4>1, <4>2
    <3>7. given'.plan = plan /\ result'.row = rows /\ result'.cell = news
      BY <3>2 DEF rows, news
    <3>8. QED
      BY <2>3, <3>6, <3>7 DEF AnchorsFollowCells
  <2>4. CASE Next /\ given'.what = "columns"
    <3>1. ShiftTheColumns
      BY <2>4, Asked
    <3>2. PICK spans \in ColSpans, plan \in Plans :
            /\ given' = [what |-> "columns", spans |-> spans, plan |-> plan]
            /\ result' = SplitColSpans(spans, plan)
      BY <3>1 DEF ShiftTheColumns
    <3> DEFINE done == SplitColSpans(spans, plan)
    <3>3. plan \in ShiftPlans /\ SheetSpans(spans)
      BY PlansAreShifts, ColSpansAssumption DEF SheetSpans, IsSeq
    <3>4. plan.axis = "col" => Split(plan, spans, Len(spans), done)
      BY <3>3, SplitColSpansAre
    <3> HIDE DEF done
    <3>5. given'.plan = plan /\ given'.spans = spans /\ result' = done
      BY <3>2 DEF done
    <3>6. plan.axis = "col" => Apart(done)
      BY <3>4, SplitIsApart
    <3>7. ASSUME plan.axis = "col", NEW c \in 1..MaxOf["col"]
          PROVE  AttrsAt(done, c) =
                   UNION {AttrsAt(spans, b) :
                            b \in {b \in 1..MaxOf["col"] :
                                     \E x \in AnchorCell([a \in Axes |-> b], plan) : x["col"] = c}}
      <4> DEFINE from == {b \in 1..MaxOf["col"] :
                            \E x \in AnchorCell([a \in Axes |-> b], plan) : x["col"] = c}
      <4>1. from = {b \in 1..MaxOf["col"] :
                     \E x \in AnchorCell([a \in Axes |-> b], plan) : x["col"] = c}
        OBVIOUS
      <4> HIDE DEF from
      <4>2. Split(plan, spans, Len(spans), done)
        BY <3>4, <3>7
      <4>3. AttrsAt(done, c) = UNION {AttrsAt(spans, b) : b \in from}
        BY <3>3, <3>7, <4>1, <4>2, ColumnsKeepWidths
      <4>4. QED
        BY <4>3 DEF from
    <3>8. QED
      BY <2>4, <3>5, <3>6, <3>7 DEF AnchorsFollowCells
  <2>5. CASE Next /\ given'.what \notin {"anchor", "cell", "columns"}
    BY <2>5 DEF AnchorsFollowCells
  <2>6. QED
    BY <2>1, <2>2, <2>3, <2>4, <2>5
<1>3. QED
  BY <1>1, <1>2, PTL DEF Spec

-----------------------------------------------------------------------------
(* The moves of a rectangle. *)

IsMove(plan) ==
  /\ plan.lo \in Cells /\ plan.hi \in Cells /\ plan.by \in [Axes -> Int]
  /\ \A a \in Axes : plan.lo[a] <= plan.hi[a]
  /\ Relocated(plan.lo, plan) \in Cells /\ Relocated(plan.hi, plan) \in Cells

\* A move of the model is one.
LEMMA MovesAre == \A plan \in Moves : IsMove(plan)
<1> SUFFICES ASSUME NEW plan \in Moves PROVE IsMove(plan)
  OBVIOUS
<1>1. plan \in [lo : Cells, hi : Cells, by : [Axes -> Int], translate : BOOLEAN]
  BY MovesAssumption
<1>2. plan.lo \in Cells /\ plan.hi \in Cells /\ plan.by \in [Axes -> Int]
  BY <1>1
<1>3. /\ \A a \in Axes : plan.lo[a] <= plan.hi[a]
      /\ {Relocated(plan.lo, plan), Relocated(plan.hi, plan)} \subseteq Cells
  BY MovesAssumption
<1>4. Relocated(plan.lo, plan) \in Cells /\ Relocated(plan.hi, plan) \in Cells
  BY <1>3
<1>5. QED
  BY <1>2, <1>3, <1>4 DEF IsMove

\* The rectangle, in numbers.
LEMMA ContainsIs ==
  ASSUME NEW plan, NEW cell \in Cells
  PROVE  ContainsCell(plan, cell) <=> \A a \in Axes : plan.lo[a] <= cell[a] /\ cell[a] <= plan.hi[a]
<1>1. \A a \in Axes : Low(cell[a], cell[a]) = cell[a] /\ High(cell[a], cell[a]) = cell[a]
  BY DEF Low, High
<1>2. \A a \in Axes : cell[a] \in Nat
  BY CellsFit
<1>3. ContainsCell(plan, cell) <=> \A a \in Axes : cell[a] >= plan.lo[a] /\ cell[a] <= plan.hi[a]
  BY <1>1 DEF ContainsCell, ContainsRect
<1>4. QED
  BY <1>3

\* A cell of the rectangle is moved to a cell of the sheet.
LEMMA RelocatedIsCell ==
  ASSUME NEW plan, IsMove(plan), NEW cell \in Cells, ContainsCell(plan, cell)
  PROVE  /\ Relocated(cell, plan) \in Cells
         /\ \A a \in Axes : Relocated(cell, plan)[a] = cell[a] + plan.by[a]
<1>1. /\ plan.lo \in Cells /\ plan.hi \in Cells /\ plan.by \in [Axes -> Int]
      /\ Relocated(plan.lo, plan) \in Cells /\ Relocated(plan.hi, plan) \in Cells
  BY DEF IsMove
<1> DEFINE lo == Relocated(plan.lo, plan)
           hi == Relocated(plan.hi, plan)
           new == Relocated(cell, plan)
<1>2. \A a \in Axes : /\ lo[a] = plan.lo[a] + plan.by[a] /\ hi[a] = plan.hi[a] + plan.by[a]
                      /\ new[a] = cell[a] + plan.by[a]
  BY DEF Relocated
<1>3. DOMAIN new = Axes /\ new = [a \in Axes |-> new[a]]
  BY DEF Relocated
<1> HIDE DEF lo, hi, new
<1>4. \A a \in Axes : /\ 1 <= lo[a] /\ hi[a] <= MaxOf[a] /\ MaxOf[a] \in Nat /\ lo[a] \in Nat /\ hi[a] \in Nat
                      /\ plan.lo[a] \in Nat /\ plan.hi[a] \in Nat /\ cell[a] \in Nat
                      /\ plan.by[a] \in Int
  BY <1>1, CellsFit, Sizes DEF lo, hi
<1>5. \A a \in Axes : plan.lo[a] <= cell[a] /\ cell[a] <= plan.hi[a]
  BY ContainsIs
<1>6. \A a \in Axes : new[a] \in Nat /\ 1 <= new[a] /\ new[a] <= MaxOf[a]
  BY <1>2, <1>4, <1>5
<1>7. new \in [Axes -> Nat]
  BY <1>3, <1>6
<1>8. new \in Cells
  BY <1>6, <1>7, FittingIsCell
<1>9. QED
  BY <1>2, <1>8 DEF new

\* Cells stay apart.
LEMMA RelocatedApart ==
  ASSUME NEW plan, IsMove(plan), NEW c \in Cells, NEW d \in Cells,
         Relocated(c, plan) = Relocated(d, plan)
  PROVE  c = d
<1>1. \A a \in Axes : /\ Relocated(c, plan)[a] = c[a] + plan.by[a]
                      /\ Relocated(d, plan)[a] = d[a] + plan.by[a]
  BY DEF Relocated
<1>2. \A a \in Axes : plan.by[a] \in Int
  BY DEF IsMove
<1>3. c \in [Axes -> Nat] /\ d \in [Axes -> Nat]
  BY CellsFit
<1>4. \A a \in Axes : c[a] = d[a]
  BY <1>1, <1>2, <1>3
<1>5. QED
  BY <1>3, <1>4

\* A reference of a formula to one cell goes with the cell (move_range).
LEMMA MovedReference ==
  ASSUME NEW plan, IsMove(plan), NEW r \in References, r.kind = "cell", r.sheet = NoSheet
  PROVE  TranslateRef(r, MoveDelta(plan)) =
           {[r EXCEPT !.lhs = NowAt(plan, r.lhs), !.rhs = NowAt(plan, r.lhs)]}
<1> DEFINE d == MoveDelta(plan)
           m == [lo |-> plan.lo, hi |-> plan.hi, dst |-> Relocated(plan.lo, plan)]
           cell == r.lhs
           new == NowAt(plan, cell)
           s == r.sheet
           into == {x \in d.move : /\ d.formulaSheet \in {NoSheet, Target(s, d)}
                                   /\ \A a \in Axes : cell[a] \in x.lo[a]..x.hi[a]}
<1>1. cell \in Cells
  BY DEF References
<1>2. /\ d.move = {m} /\ d.band = {} /\ d.formulaSheet = NoSheet
      /\ \A a \in Axes : d.by[a] = 0
  BY DEF MoveDelta
<1>3. m.lo = plan.lo /\ m.hi = plan.hi /\ m.dst = Relocated(plan.lo, plan)
  OBVIOUS
<1>4. /\ DOMAIN cell = Axes /\ cell \in [Axes -> Nat]
      /\ \A a \in Axes : plan.lo[a] \in Nat /\ plan.hi[a] \in Nat /\ plan.by[a] \in Int /\ cell[a] \in Nat
  BY <1>1, CellsFit DEF IsMove
<1> HIDE DEF d, m
<1>5. ContainsCell(plan, cell) <=> \A a \in Axes : cell[a] \in m.lo[a]..m.hi[a]
  <2>1. ContainsCell(plan, cell) <=> \A a \in Axes : plan.lo[a] <= cell[a] /\ cell[a] <= plan.hi[a]
    BY <1>1, ContainsIs
  <2> HIDE DEF cell
  <2>2. QED
    BY <1>3, <1>4, <2>1
<1>6. new \in Cells
  BY <1>1, RelocatedIsCell DEF NowAt
<1>7. Moved(s, cell, d) = new
  <2>1. CASE ContainsCell(plan, cell)
    <3>1. into = {m}
      BY <1>2, <1>5, <2>1
    <3>2. (CHOOSE x \in into : TRUE) = m
      BY <3>1
    <3>3. Moved(s, cell, d) = [a \in Axes |-> cell[a] + m.dst[a] - m.lo[a]]
      <4> HIDE DEF cell
      <4>1. Moved(s, cell, d) = [a \in Axes |-> IF into = {} THEN cell[a]
                     ELSE LET x == CHOOSE x \in into : TRUE
                          IN cell[a] + x.dst[a] - x.lo[a]]
        BY DEF Moved
      <4>2. into # {}
        BY <3>1
      <4> HIDE DEF into
      <4>3. QED
        BY <3>2, <4>1, <4>2
    <3>4. \A a \in Axes : m.dst[a] = plan.lo[a] + plan.by[a] /\ m.lo[a] = plan.lo[a]
      BY <1>3 DEF Relocated
    <3>5. \A a \in Axes : cell[a] + m.dst[a] - m.lo[a] = cell[a] + plan.by[a]
      <4> HIDE DEF cell
      <4>1. QED
        BY <1>4, <3>4
    <3>6. new = [a \in Axes |-> cell[a] + plan.by[a]]
      BY <2>1 DEF NowAt, Relocated
    <3> HIDE DEF new, cell
    <3>7. QED
      BY <3>3, <3>5, <3>6
  <2>2. CASE ~ContainsCell(plan, cell)
    <3>1. into = {}
      BY <1>2, <1>5, <2>2
    <3>2. Moved(s, cell, d) = [a \in Axes |-> cell[a]]
      <4> HIDE DEF cell
      <4>1. Moved(s, cell, d) = [a \in Axes |-> IF into = {} THEN cell[a]
                     ELSE LET x == CHOOSE x \in into : TRUE
                          IN cell[a] + x.dst[a] - x.lo[a]]
        BY DEF Moved
      <4> HIDE DEF into
      <4>2. QED
        BY <3>1, <4>1
    <3>3. new = cell
      BY <2>2 DEF NowAt
    <3> HIDE DEF cell, new
    <3>4. QED
      BY <1>4, <3>2, <3>3
  <2>3. QED
    BY <2>1, <2>2
<1>8. ~Deleted(cell, d)
  BY <1>2 DEF Deleted
<1>9. Shifted(new, d) = new
  <2>1. DOMAIN new = Axes /\ new \in [Axes -> Nat]
    BY <1>6, CellsFit
  <2> HIDE DEF new
  <2>2. QED
    BY <1>2, <2>1 DEF Shifted
<1>10. Fits(new)
  BY <1>6 DEF Cells
<1> HIDE DEF new
<1>11. Carried(new, d) = {new}
  BY <1>9, <1>10 DEF Carried
<1> HIDE DEF cell
<1>12. TranslateCell(s, cell, d) = {new}
  BY <1>7, <1>8, <1>11 DEF TranslateCell
<1>13. TranslateRef(r, d) = Ends(r, {<<c, c>> : c \in TranslateCell(s, cell, d)})
  BY DEF TranslateRef, cell
<1>14. {<<c, c>> : c \in {new}} = {<<new, new>>}
  OBVIOUS
<1> DEFINE p == <<new, new>>
<1>15. Ends(r, {p}) = {[r EXCEPT !.lhs = p[1], !.rhs = p[2]]}
  BY DEF Ends
<1>16. p[1] = new /\ p[2] = new
  OBVIOUS
<1>17. TranslateRef(r, d) = {[r EXCEPT !.lhs = new, !.rhs = new]}
  BY <1>12, <1>13, <1>14, <1>15, <1>16
<1>18. QED
  BY <1>17 DEF new, d, cell

\* The cells of a sheet, one at a place, each with at most one reference.
IsGrid(cells) ==
  /\ \A c \in cells : c.at \in Cells /\ c = [at |-> c.at, label |-> c.label, refs |-> c.refs]
  /\ \A c, d \in cells : c.at = d.at => c = d
  /\ \A c \in cells :
       /\ \A r, q \in c.refs : r = q
       /\ \A r \in c.refs : r \in References /\ r.kind = "cell" /\ r.sheet = NoSheet

Reads(plan, c) == IF Inside(plan, c) \/ plan.translate THEN TranslateText(c.refs, plan) ELSE c.refs
AfterMove(plan, c) == [at |-> NowAt(plan, c.at), label |-> c.label, refs |-> Reads(plan, c)]

\* apply_range_move: the cells that are not overwritten, where they are now.
LEMMA MovedSheet ==
  ASSUME NEW plan, NEW grid, IsGrid(grid.cells)
  PROVE  RewriteSheetData(grid, plan).cells =
           {AfterMove(plan, c) : c \in {c \in grid.cells : ~Overwritten(plan, grid.cells, c)}}
<1> DEFINE old == grid.cells
           moved == MovedCells(old, plan)
           kept == {c \in ExternalCells(old, plan) : \A m \in moved : m.at # c.at}
           left == {c \in old : ~Overwritten(plan, old, c)}
           In(c) == [c EXCEPT !.at = Relocated(c.at, plan), !.refs = TranslateText(c.refs, plan)]
           Out(c) == [c EXCEPT !.refs = IF plan.translate THEN TranslateText(c.refs, plan) ELSE c.refs]
<1>1. RewriteSheetData(grid, plan).cells = moved \cup kept
  <2> DEFINE both == moved \cup kept
             rows == {c.at["row"] : c \in both}
             attrs == [r \in rows |-> IF InverseRow(r, plan) \in DOMAIN grid.attrs
                                     THEN grid.attrs[InverseRow(r, plan)] ELSE ""]
  <2>1. RewriteSheetData(grid, plan) = [cells |-> both, attrs |-> attrs]
    BY Zenon DEF RewriteSheetData
  <2> HIDE DEF both, attrs
  <2>2. RewriteSheetData(grid, plan).cells = both
    BY <2>1
  <2>3. QED
    BY <2>2 DEF both
<1>2. ASSUME NEW c \in old, Inside(plan, c)
      PROVE  In(c) = AfterMove(plan, c) /\ c \in left
  <2>1. c = [at |-> c.at, label |-> c.label, refs |-> c.refs]
    BY DEF IsGrid
  <2> DEFINE at == Relocated(c.at, plan)
             refs == TranslateText(c.refs, plan)
             x == c.at
             y == c.label
             z == c.refs
  <2>7. c = [at |-> x, label |-> y, refs |-> z]
    BY <2>1
  <2> HIDE DEF at, refs, x, y, z
  <2>5. [c EXCEPT !.at = at, !.refs = refs] = [at |-> at, label |-> y, refs |-> refs]
    <3> DEFINE e == [c EXCEPT !.at = at, !.refs = refs]
               g == [at |-> at, label |-> y, refs |-> refs]
    <3>1. c \in [at : {x}, label : {y}, refs : {z}]
      BY <2>7
    <3>2. e \in [at : {at}, label : {y}, refs : {refs}]
      BY <3>1
    <3>3. g \in [at : {at}, label : {y}, refs : {refs}]
      OBVIOUS
    <3>4. e.at = g.at /\ e.label = g.label /\ e.refs = g.refs
      BY <3>1
    <3> HIDE DEF e, g
    <3>5. QED
      BY <3>2, <3>3, <3>4 DEF e, g
  <2>2. In(c) = [at |-> Relocated(c.at, plan), label |-> c.label, refs |-> TranslateText(c.refs, plan)]
    BY <2>5 DEF at, refs, y
  <2>3. AfterMove(plan, c) = [at |-> Relocated(c.at, plan), label |-> c.label, refs |-> TranslateText(c.refs, plan)]
    BY <1>2 DEF AfterMove, NowAt, Reads, Inside
  <2>4. c \in left
    BY <1>2 DEF Overwritten
  <2>6. QED
    BY <2>2, <2>3, <2>4
<1>3. ASSUME NEW c \in old, ~Inside(plan, c)
      PROVE  Out(c) = AfterMove(plan, c) /\ Out(c).at = c.at
  <2>1. c = [at |-> c.at, label |-> c.label, refs |-> c.refs]
    BY DEF IsGrid
  <2> DEFINE new == IF plan.translate THEN TranslateText(c.refs, plan) ELSE c.refs
  <2>2. AfterMove(plan, c) = [at |-> c.at, label |-> c.label, refs |-> new]
    BY <1>3 DEF AfterMove, NowAt, Reads, Inside
  <2> HIDE DEF new
  <2> DEFINE x == c.at
             y == c.label
             z == c.refs
  <2>7. c = [at |-> x, label |-> y, refs |-> z]
    BY <2>1
  <2> HIDE DEF x, y, z
  <2>8. [c EXCEPT !.refs = new] = [at |-> x, label |-> y, refs |-> new]
    <3> DEFINE e == [c EXCEPT !.refs = new]
               g == [at |-> x, label |-> y, refs |-> new]
    <3>1. c \in [at : {x}, label : {y}, refs : {z}]
      BY <2>7
    <3>2. e \in [at : {x}, label : {y}, refs : {new}]
      BY <3>1
    <3>3. g \in [at : {x}, label : {y}, refs : {new}]
      OBVIOUS
    <3>4. e.at = g.at /\ e.label = g.label /\ e.refs = g.refs
      BY <3>1
    <3> HIDE DEF e, g
    <3>5. QED
      BY <3>2, <3>3, <3>4 DEF e, g
  <2>3. [c EXCEPT !.refs = new] = [at |-> c.at, label |-> c.label, refs |-> new]
    BY <2>8 DEF x, y
  <2>4. Out(c) = [at |-> c.at, label |-> c.label, refs |-> new]
    BY <2>3 DEF new
  <2>5. Out(c).at = c.at
    BY <2>4
  <2>6. QED
    BY <2>2, <2>4, <2>5
<1>4. moved = {In(c) : c \in {x \in old : Inside(plan, x)}}
  BY DEF MovedCells, Inside
<1>5. ExternalCells(old, plan) = {Out(c) : c \in {x \in old : ~Inside(plan, x)}}
  BY DEF ExternalCells, Inside
<1>6. \A c \in old : Inside(plan, c) => In(c).at = Relocated(c.at, plan)
  <2> SUFFICES ASSUME NEW c \in old, Inside(plan, c) PROVE In(c).at = Relocated(c.at, plan)
    OBVIOUS
  <2>1. AfterMove(plan, c).at = Relocated(c.at, plan)
    BY DEF AfterMove, NowAt, Inside
  <2>2. QED
    BY <1>2, <2>1
<1> HIDE DEF moved, kept, In, Out
<1>7. ASSUME NEW x \in moved \cup kept PROVE \E c \in left : x = AfterMove(plan, c)
  <2>1. CASE x \in moved
    BY <1>2, <1>4, <2>1
  <2>2. CASE x \in kept
    <3>1. x \in ExternalCells(old, plan) /\ \A m \in moved : m.at # x.at
      BY <2>2 DEF kept
    <3>2. PICK c \in old : ~Inside(plan, c) /\ x = Out(c)
      BY <1>5, <3>1
    <3>3. x = AfterMove(plan, c) /\ x.at = c.at
      BY <1>3, <3>2
    <3>4. ~Overwritten(plan, old, c)
      <4> SUFFICES ASSUME NEW m \in old, Inside(plan, m), Relocated(m.at, plan) = c.at PROVE FALSE
        BY DEF Overwritten
      <4>1. In(m) \in moved /\ In(m).at = c.at
        BY <1>4, <1>6
      <4>2. QED
        BY <3>1, <3>3, <4>1
    <3>5. QED
      BY <3>3, <3>4
  <2>3. QED
    BY <2>1, <2>2
<1>8. ASSUME NEW c \in left PROVE AfterMove(plan, c) \in moved \cup kept
  <2>1. c \in old /\ ~Overwritten(plan, old, c)
    OBVIOUS
  <2>2. CASE Inside(plan, c)
    BY <1>2, <1>4, <2>1, <2>2
  <2>3. CASE ~Inside(plan, c)
    <3>1. Out(c) \in ExternalCells(old, plan) /\ Out(c) = AfterMove(plan, c) /\ Out(c).at = c.at
      BY <1>3, <1>5, <2>1, <2>3
    <3>2. \A m \in moved : m.at # c.at
      <4> SUFFICES ASSUME NEW m \in moved, m.at = c.at PROVE FALSE
        OBVIOUS
      <4>1. PICK x \in old : Inside(plan, x) /\ m = In(x)
        BY <1>4
      <4>2. Relocated(x.at, plan) = c.at
        BY <1>6, <4>1
      <4>3. QED
        BY <2>1, <2>3, <4>1, <4>2 DEF Overwritten
    <3>3. QED
      BY <3>1, <3>2 DEF kept
  <2>4. QED
    BY <2>2, <2>3
<1> HIDE DEF left
<1>9. moved \cup kept = {AfterMove(plan, c) : c \in left}
  BY <1>7, <1>8
<1>10. QED
  BY <1>1, <1>9 DEF left

\* No two cells come to lie at one place.
LEMMA MovedApart ==
  ASSUME NEW plan, IsMove(plan), NEW old, IsGrid(old), NEW c \in old, NEW d \in old,
         ~Overwritten(plan, old, c), ~Overwritten(plan, old, d), NowAt(plan, c.at) = NowAt(plan, d.at)
  PROVE  c = d
<1>1. c.at \in Cells /\ d.at \in Cells /\ (c.at = d.at => c = d)
  BY DEF IsGrid
<1>2. CASE Inside(plan, c) /\ Inside(plan, d)
  <2>1. Relocated(c.at, plan) = Relocated(d.at, plan)
    BY <1>2 DEF NowAt, Inside
  <2>2. c.at = d.at
    BY <1>1, <2>1, RelocatedApart
  <2>3. QED
    BY <1>1, <2>2
<1>3. CASE Inside(plan, c) /\ ~Inside(plan, d)
  BY <1>3 DEF NowAt, Inside, Overwritten
<1>4. CASE ~Inside(plan, c) /\ Inside(plan, d)
  BY <1>4 DEF NowAt, Inside, Overwritten
<1>5. CASE ~Inside(plan, c) /\ ~Inside(plan, d)
  BY <1>1, <1>5 DEF NowAt, Inside
<1>6. QED
  BY <1>2, <1>3, <1>4, <1>5

\* A formula that is moved or translated reads the cell that it read.
LEMMA MovedFormula ==
  ASSUME NEW plan, IsMove(plan), NEW old, IsGrid(old), NEW c \in old, NEW r \in c.refs,
         Inside(plan, c) \/ plan.translate
  PROVE  /\ Reads(plan, c) # {}
         /\ \A q \in Reads(plan, c) : q.lhs = NowAt(plan, r.lhs)
<1>1. c.refs = {r} /\ r \in References /\ r.kind = "cell" /\ r.sheet = NoSheet
  BY DEF IsGrid
<1> DEFINE new == NowAt(plan, r.lhs)
           q == [r EXCEPT !.lhs = new, !.rhs = new]
<1>2. TranslateRef(r, MoveDelta(plan)) = {q}
  BY <1>1, MovedReference
<1>3. q.lhs = new
  <2>1. r \in [kind : {"cell", "range", "span"}, sheet : {NoSheet, This, Other},
               lhs : Endpoints, rhs : Endpoints, pinned : SUBSET Axes]
    BY <1>1 DEF References
  <2> HIDE DEF new
  <2>2. QED
    BY <2>1
<1> HIDE DEF q, new
<1>4. TranslateText(c.refs, plan) = {q}
  BY <1>1, <1>2 DEF TranslateText
<1>5. Reads(plan, c) = {q}
  BY <1>4 DEF Reads
<1>6. QED
  BY <1>3, <1>5 DEF new

\* A move carries the cells and the references of their formulas.
LEMMA MoveCarriesCells ==
  ASSUME NEW plan, IsMove(plan), NEW grid, IsGrid(grid.cells)
  PROVE  CellsAreCarried(plan, grid.cells, RewriteSheetData(grid, plan).cells)
<1> DEFINE old == grid.cells
           left == {c \in old : ~Overwritten(plan, old, c)}
           new == RewriteSheetData(grid, plan).cells
<1>1. new = {AfterMove(plan, c) : c \in left}
  BY MovedSheet
<1>2. IsGrid(old)
  OBVIOUS
<1>3. \A c : /\ AfterMove(plan, c).at = NowAt(plan, c.at)
             /\ AfterMove(plan, c).label = c.label
             /\ AfterMove(plan, c).refs = Reads(plan, c)
  BY DEF AfterMove
<1>4. \A c \in left : c \in old /\ ~Overwritten(plan, old, c)
  OBVIOUS
<1> HIDE DEF new, left, old
<1>5. {<<c.at, c.label>> : c \in new} = {<<NowAt(plan, c.at), c.label>> : c \in left}
  BY <1>1, <1>3
<1>6. ASSUME NEW c \in left, NEW target \in left, Inside(plan, c) \/ plan.translate,
             NEW r \in c.refs, r.lhs = target.at
      PROVE  \E d \in new : /\ d.at = NowAt(plan, c.at)
                            /\ \A q \in d.refs : Labels(new, q.lhs) = {target.label}
                            /\ d.refs # {}
  <2> DEFINE d == AfterMove(plan, c)
             goes == NowAt(plan, target.at)
  <2>1. d \in new /\ d.at = NowAt(plan, c.at) /\ d.refs = Reads(plan, c)
    BY <1>1, <1>3
  <2>2. Reads(plan, c) # {} /\ \A q \in Reads(plan, c) : q.lhs = goes
    BY <1>2, <1>4, <1>6, MovedFormula
  <2>3. \A x \in left : NowAt(plan, x.at) = goes => x = target
    BY <1>2, <1>4, MovedApart
  <2>4. {x \in new : x.at = goes} = {AfterMove(plan, target)}
    <3> HIDE DEF goes
    <3>1. NowAt(plan, target.at) = goes
      BY DEF goes
    <3>2. QED
      BY <1>1, <1>3, <2>3, <3>1
  <2>5. Labels(new, goes) = {target.label}
    BY <1>3, <2>4 DEF Labels
  <2> HIDE DEF d, goes
  <2>6. QED
    BY <2>1, <2>2, <2>5
<1>7. QED
  BY <1>5, <1>6 DEF CellsAreCarried, left, new, old

\* Whether a range covers a cell, in numbers.
LEMMA CoversIs ==
  ASSUME NEW lhs, NEW rhs, NEW ref, ref.lhs = lhs, ref.rhs = rhs, NEW c,
         DOMAIN lhs = Axes, \A a \in Axes : lhs[a] \in Int /\ rhs[a] \in Int /\ c[a] \in Int
  PROVE  Covers(ref, c) <=> \A a \in Axes : Low(lhs[a], rhs[a]) <= c[a] /\ c[a] <= High(lhs[a], rhs[a])
<1>1. \A a \in Axes : Low(lhs[a], rhs[a]) \in Int /\ High(lhs[a], rhs[a]) \in Int
  BY DEF Low, High
<1>2. \A a \in Axes : c[a] \in Low(lhs[a], rhs[a])..High(lhs[a], rhs[a])
                        <=> Low(lhs[a], rhs[a]) <= c[a] /\ c[a] <= High(lhs[a], rhs[a])
  BY <1>1
<1>3. Covers(ref, c) <=> \A a \in Axes : c[a] \in Low(lhs[a], rhs[a])..High(lhs[a], rhs[a])
  BY DEF Covers
<1>4. QED
  BY <1>2, <1>3

\* A range lies in the rectangle if its corners do.
LEMMA RangeInside ==
  ASSUME NEW plan, IsMove(plan), NEW ref \in References, ref.kind # "span"
  PROVE  ContainsRect(plan, ref.lhs, ref.rhs)
           <=> \A c \in Cells : Covers(ref, c) => ContainsCell(plan, c)
<1> DEFINE lhs == ref.lhs
           rhs == ref.rhs
<1>1. lhs \in Cells /\ rhs \in Cells
  BY ReferenceEnds
<1>2. /\ DOMAIN lhs = Axes
      /\ \A a \in Axes : lhs[a] \in Nat /\ rhs[a] \in Nat /\ plan.lo[a] \in Nat /\ plan.hi[a] \in Nat
      /\ \A c \in Cells, a \in Axes : c[a] \in Nat
  BY <1>1, CellsFit DEF IsMove
<1>3. ref.lhs = lhs /\ ref.rhs = rhs
  OBVIOUS
<1> HIDE DEF lhs, rhs
<1>4. \A c \in Cells : Covers(ref, c) <=>
        \A a \in Axes : Low(lhs[a], rhs[a]) <= c[a] /\ c[a] <= High(lhs[a], rhs[a])
  <2> TAKE c \in Cells
  <2>1. \A a \in Axes : lhs[a] \in Int /\ rhs[a] \in Int /\ c[a] \in Int
    BY <1>2
  <2>2. QED
    BY <1>2, <1>3, <2>1, CoversIs
<1>5. ContainsRect(plan, lhs, rhs) <=>
        \A a \in Axes : Low(lhs[a], rhs[a]) >= plan.lo[a] /\ High(lhs[a], rhs[a]) <= plan.hi[a]
  BY DEF ContainsRect
<1>6. ASSUME ContainsRect(plan, lhs, rhs), NEW c \in Cells, Covers(ref, c) PROVE ContainsCell(plan, c)
  <2>1. \A a \in Axes : plan.lo[a] <= c[a] /\ c[a] <= plan.hi[a]
    BY <1>2, <1>4, <1>5, <1>6 DEF Low, High
  <2>2. QED
    BY <2>1, ContainsIs
<1>7. ASSUME \A c \in Cells : Covers(ref, c) => ContainsCell(plan, c)
      PROVE  ContainsRect(plan, lhs, rhs)
  <2>1. Covers(ref, lhs) /\ Covers(ref, rhs)
    BY <1>1, <1>2, <1>4 DEF Low, High
  <2>2. ContainsCell(plan, lhs) /\ ContainsCell(plan, rhs)
    BY <1>1, <1>7, <2>1
  <2>3. \A a \in Axes : /\ plan.lo[a] <= lhs[a] /\ lhs[a] <= plan.hi[a]
                        /\ plan.lo[a] <= rhs[a] /\ rhs[a] <= plan.hi[a]
    BY <1>1, <2>2, ContainsIs
  <2>4. QED
    BY <1>2, <1>5, <2>3 DEF Low, High
<1>8. QED
  BY <1>3, <1>6, <1>7

\* An anchor goes with its cells or stays, whole.
LEMMA MoveCarriesAnchors ==
  ASSUME NEW plan, IsMove(plan), NEW ref \in References
  PROVE  AnchorIsCarried(plan, ref, MoveOneAnchor(ref, plan))
<1> DEFINE inside == /\ ref.kind # "span"
                     /\ \A c \in Cells : Covers(ref, c) => ContainsCell(plan, c)
           goes == ref.kind # "span" /\ ContainsRect(plan, ref.lhs, ref.rhs)
<1>1. inside <=> goes
  BY RangeInside
<1>2. CASE ~goes
  <2>1. MoveOneAnchor(ref, plan) = ref
    BY <1>2 DEF MoveOneAnchor
  <2> HIDE DEF goes
  <2>2. QED
    BY <1>1, <1>2, <2>1 DEF AnchorIsCarried
<1>3. CASE goes
  <2> DEFINE lhs == Relocated(ref.lhs, plan)
             rhs == Relocated(ref.rhs, plan)
             new == [ref EXCEPT !.lhs = lhs, !.rhs = rhs]
             l == ref.lhs
             r == ref.rhs
  <2>1. MoveOneAnchor(ref, plan) = new
    BY <1>3 DEF MoveOneAnchor
  <2>2. /\ ref.lhs \in Cells /\ ref.rhs \in Cells
        /\ ref \in [kind : {"cell", "range", "span"}, sheet : {NoSheet, This, Other},
                    lhs : Endpoints, rhs : Endpoints, pinned : SUBSET Axes]
    BY <1>3, ReferenceEnds DEF References
  <2>3. new.lhs = lhs /\ new.rhs = rhs
    <3> HIDE DEF lhs, rhs
    <3>1. QED
      BY <2>2
  <2>4. /\ DOMAIN lhs = Axes /\ DOMAIN l = Axes
        /\ \A a \in Axes : lhs[a] = l[a] + plan.by[a] /\ rhs[a] = r[a] + plan.by[a]
    BY <2>2, CellsFit DEF Relocated
  <2>5. /\ \A a \in Axes : l[a] \in Nat /\ r[a] \in Nat /\ plan.by[a] \in Int
        /\ \A c \in Cells, a \in Axes : c[a] \in Nat
    BY <2>2, CellsFit DEF IsMove
  <2>6. ref.lhs = l /\ ref.rhs = r
    OBVIOUS
  <2>7. \A c \in Cells, a \in Axes : Relocated(c, plan)[a] = c[a] + plan.by[a]
    BY DEF Relocated
  <2> HIDE DEF new, lhs, rhs, l, r
  <2>8. ASSUME NEW c \in Cells PROVE Covers(ref, c) <=> Covers(new, Relocated(c, plan))
    <3> DEFINE d == Relocated(c, plan)
    <3>1. \A a \in Axes : d[a] = c[a] + plan.by[a]
      BY <2>7
    <3> HIDE DEF d
    <3>2. \A a \in Axes : /\ lhs[a] \in Int /\ rhs[a] \in Int /\ d[a] \in Int
                          /\ l[a] \in Int /\ r[a] \in Int /\ c[a] \in Int
      BY <2>4, <2>5, <3>1
    <3>3. Covers(ref, c) <=> \A a \in Axes : Low(l[a], r[a]) <= c[a] /\ c[a] <= High(l[a], r[a])
      BY <2>4, <2>6, <3>2, CoversIs
    <3>4. Covers(new, d) <=> \A a \in Axes : Low(lhs[a], rhs[a]) <= d[a] /\ d[a] <= High(lhs[a], rhs[a])
      BY <2>3, <2>4, <3>2, CoversIs
    <3>5. \A a \in Axes : (Low(l[a], r[a]) <= c[a] /\ c[a] <= High(l[a], r[a]))
                            <=> (Low(lhs[a], rhs[a]) <= d[a] /\ d[a] <= High(lhs[a], rhs[a]))
      BY <2>4, <2>5, <3>1 DEF Low, High
    <3>6. QED
      BY <3>3, <3>4, <3>5 DEF d
  <2> HIDE DEF goes, inside
  <2>9. inside
    BY <1>1, <1>3
  <2>10. \A c \in Cells : Covers(ref, c) <=> Covers(new, IF inside THEN Relocated(c, plan) ELSE c)
    BY <2>8, <2>9
  <2>11. QED
    BY <2>1, <2>10 DEF AnchorIsCarried, inside
<1>4. QED
  BY <1>2, <1>3

\* Moves carry their cells, the references of formulas and the anchors in the
\* rectangle (apply_range_move, rewrite_sheet_data, move_one_anchor).
THEOREM MovesCarryCells == Spec => []MovesCarryTheirCells
<1>1. Init => MovesCarryTheirCells
  BY DEF Init, MovesCarryTheirCells
<1>2. MovesCarryTheirCells /\ [Next]_vars => MovesCarryTheirCells'
  <2> SUFFICES ASSUME MovesCarryTheirCells, [Next]_vars PROVE MovesCarryTheirCells'
    OBVIOUS
  <2>1. CASE UNCHANGED vars
    BY <2>1 DEF vars, MovesCarryTheirCells
  <2>2. CASE Next /\ given'.what = "move"
    <3>1. MoveCells
      BY <2>2, Asked
    <3>2. PICK grid \in Grids, plan \in Moves :
            /\ given' = [what |-> "move", grid |-> grid, plan |-> plan]
            /\ result' = RewriteSheetData(grid, plan)
      BY <3>1 DEF MoveCells
    <3>3. IsMove(plan) /\ IsGrid(grid.cells)
      BY MovesAre, GridsAssumption DEF IsGrid
    <3> DEFINE old == grid.cells
               new == RewriteSheetData(grid, plan).cells
    <3>4. CellsAreCarried(plan, old, new)
      BY <3>3, MoveCarriesCells
    <3>5. given'.plan = plan /\ given'.grid.cells = old /\ result'.cells = new
      BY <3>2
    <3> HIDE DEF old, new
    <3>6. QED
      BY <2>2, <3>4, <3>5
      DEF MovesCarryTheirCells
  <2>3. CASE Next /\ given'.what = "moved_anchor"
    <3>1. MoveAnAnchor
      BY <2>3, Asked
    <3>2. PICK ref \in Refs, plan \in Moves :
            /\ given' = [what |-> "moved_anchor", ref |-> ref, plan |-> plan]
            /\ result' = {MoveOneAnchor(ref, plan)}
      BY <3>1 DEF MoveAnAnchor
    <3> DEFINE new == MoveOneAnchor(ref, plan)
    <3>3. IsMove(plan) /\ ref \in References
      BY MovesAre, RefsAssumption
    <3>4. AnchorIsCarried(plan, ref, new)
      BY <3>3, MoveCarriesAnchors
    <3>5. given'.plan = plan /\ given'.ref = ref /\ result' = {new}
      BY <3>2
    <3> HIDE DEF new
    <3>6. QED
      BY <2>3, <3>4, <3>5 DEF MovesCarryTheirCells
  <2>4. CASE given'.what \notin {"move", "moved_anchor"}
    BY <2>4 DEF MovesCarryTheirCells
  <2>5. QED
    BY <2>1, <2>2, <2>3, <2>4
<1>3. QED
  BY <1>1, <1>2, PTL DEF Spec

-----------------------------------------------------------------------------
(* Notes and their shapes, and drawings, which count from zero. *)

\* A marker goes with its row or column, or to where the band was.
LEMMA MarkerIs ==
  ASSUME NEW plan \in ShiftPlans, NEW z \in Nat
  PROVE  /\ InBand(plan, z + 1) => ShiftedMarker(z, plan) = plan.idx - 1
         /\ ~InBand(plan, z + 1) => ShiftedMarker(z, plan) = After(plan, z + 1) - 1
<1>1. z + 1 \in Int
  OBVIOUS
<1>2. QED
  BY <1>1, PlanNumbers DEF ShiftedMarker, After

\* Markers keep their order.
LEMMA MarkersKeepOrder ==
  ASSUME NEW plan \in ShiftPlans, NEW y \in Nat, NEW z \in Nat, y <= z
  PROVE  ShiftedMarker(y, plan) <= ShiftedMarker(z, plan)
<1>1. y + 1 \in Int /\ z + 1 \in Int
  OBVIOUS
<1>2. QED
  BY <1>1, MarkerIs, PlanNumbers DEF After

\* What is left of a shape belongs to its note's cell, with its corners in order.
LEMMA NotesFollow ==
  ASSUME NEW plan \in ShiftPlans, NEW shape, NEW of, NEW from, NEW to,
         shape.of = of, shape.from = from, shape.to = to,
         of \in [Axes -> Nat], from \in [Axes -> Nat], to \in [Axes -> Nat],
         \A a \in Axes : from[a] <= to[a] /\ OnSheet(of[a], a)
  PROVE  NoteFollows(AnchorCell([x \in Axes |-> of[x] + 1], plan), ShiftedShape(shape, plan),
                     <<ShiftedMarker(from[plan.axis], plan), ShiftedMarker(to[plan.axis], plan)>>)
<1> DEFINE a == plan.axis
           cell == [x \in Axes |-> of[x] + 1]
           note == AnchorCell(cell, plan)
           shapes == ShiftedShape(shape, plan)
           drawing == <<ShiftedMarker(from[a], plan), ShiftedMarker(to[a], plan)>>
<1>1. a \in Axes /\ \A x \in Axes : of[x] \in Nat /\ from[x] \in Nat /\ to[x] \in Nat
  BY PlanNumbers
<1>2. drawing[1] <= drawing[2]
  BY <1>1, MarkersKeepOrder
<1>3. cell \in Cells /\ \A x \in Axes : cell[x] = of[x] + 1
  <2>1. \A x \in Axes : of[x] + 1 <= MaxOf[x]
    BY <1>1, Sizes DEF OnSheet
  <2>2. cell \in [Axes -> Nat] /\ \A x \in Axes : 1 <= cell[x] /\ cell[x] <= MaxOf[x]
    BY <1>1, <2>1
  <2> HIDE DEF cell
  <2>3. cell \in Cells
    BY <2>2, FittingIsCell
  <2>4. QED
    BY <2>3 DEF cell
<1>4. ASSUME NEW s \in shapes
      PROVE  /\ note = {[x \in Axes |-> s.of[x] + 1]}
             /\ \A x \in Axes : s.from[x] <= s.to[x]
  <2> DEFINE marker == {z \in {ShiftedMarker(of[a], plan)} : ~InBand(plan, of[a] + 1) /\ OnSheet(z, a)}
             boxes == ShiftedBox(from[a], to[a], plan)
  <2>1. shapes = {[of |-> [of EXCEPT ![a] = z], from |-> [from EXCEPT ![a] = b[1]],
                   to |-> [to EXCEPT ![a] = b[2]]] : z \in marker, b \in boxes}
    BY DEF ShiftedShape
  <2> HIDE DEF marker, boxes
  <2>2. PICK z \in marker, b \in boxes :
          s = [of |-> [of EXCEPT ![a] = z], from |-> [from EXCEPT ![a] = b[1]],
               to |-> [to EXCEPT ![a] = b[2]]]
    BY <2>1
  <2>3. /\ s.of = [of EXCEPT ![a] = z] /\ s.from = [from EXCEPT ![a] = b[1]]
        /\ s.to = [to EXCEPT ![a] = b[2]]
    BY <2>2
  <2>4. z = ShiftedMarker(of[a], plan) /\ ~InBand(plan, of[a] + 1) /\ OnSheet(z, a)
    BY DEF marker
  <2>5. b[2] >= b[1]
    BY DEF boxes, ShiftedBox
  <2>6. \A x \in Axes : s.from[x] <= s.to[x]
    BY <1>1, <2>3, <2>5
  <2>7. z = After(plan, of[a] + 1) - 1 /\ After(plan, of[a] + 1) \in Int
    BY <1>1, <2>4, MarkerIs, PlanNumbers DEF After
  <2>8. Stays(plan, cell[a])
    <3>1. After(plan, of[a] + 1) <= MaxOf[a]
      BY <1>1, <2>4, <2>7, Sizes DEF OnSheet
    <3>2. QED
      BY <1>1, <1>3, <2>4, <3>1 DEF Stays
  <2>9. note = {[cell EXCEPT ![a] = After(plan, cell[a])]}
    BY <1>3, <2>8, AnchorCellIs
  <2>10. [cell EXCEPT ![a] = After(plan, cell[a])] = [x \in Axes |-> s.of[x] + 1]
    <3> DEFINE p == [cell EXCEPT ![a] = After(plan, cell[a])]
               q == [x \in Axes |-> s.of[x] + 1]
    <3>1. p = [x \in Axes |-> IF x = a THEN After(plan, of[a] + 1) ELSE of[x] + 1]
      BY <1>1
    <3>2. s.of[a] + 1 = After(plan, of[a] + 1)
      BY <1>1, <2>3, <2>7
    <3>3. \A x \in Axes : x # a => s.of[x] = of[x]
      BY <1>1, <2>3
    <3>4. QED
      BY <1>1, <3>1, <3>2, <3>3
  <2>11. QED
    BY <2>6, <2>9, <2>10
<1>5. QED
  BY <1>2, <1>4 DEF NoteFollows

-----------------------------------------------------------------------------
(* Tables: which columns the shifted range has. *)

\* The first and the last column that are left of a range from lo to hi.
FirstLeft(plan, lo) == IF InBand(plan, lo) THEN From(plan) ELSE lo
LastLeft(plan, hi) == IF InBand(plan, hi) THEN plan.idx - 1 ELSE hi

\* The shifted range goes from where the first of them is now to where the last
\* of them is.
RangeGoes(plan, lo, hi, newLo, newHi) ==
  /\ plan.axis # "col" => newLo = lo /\ newHi = hi
  /\ plan.axis = "col" =>
       /\ newLo = After(plan, FirstLeft(plan, lo)) /\ newHi = After(plan, LastLeft(plan, hi))
       /\ FirstLeft(plan, lo) <= LastLeft(plan, hi)
       /\ ~InBand(plan, FirstLeft(plan, lo)) /\ ~InBand(plan, LastLeft(plan, hi))

\* The range of a table after a shift (shift_anchors).
LEMMA TableRange ==
  ASSUME NEW plan \in ShiftPlans, NEW lhs \in Cells, NEW rhs \in Cells,
         NEW p \in AnchorRange(lhs, rhs, plan)
  PROVE  RangeGoes(plan, Low(lhs["col"], rhs["col"]), High(lhs["col"], rhs["col"]),
                   Low(p[1]["col"], p[2]["col"]), High(p[1]["col"], p[2]["col"]))
<1> DEFINE a == plan.axis
           lo == Low(lhs["col"], rhs["col"])
           hi == High(lhs["col"], rhs["col"])
           newLo == Low(p[1]["col"], p[2]["col"])
           newHi == High(p[1]["col"], p[2]["col"])
           ref == [kind |-> "range", sheet |-> NoSheet, lhs |-> lhs, rhs |-> rhs, pinned |-> {}]
           ends == [lhs |-> p[1], rhs |-> p[2]]
<1>1. ref \in References /\ ref.lhs = lhs /\ ref.rhs = rhs
  <2>1. ref \in [kind : {"cell", "range", "span"}, sheet : {NoSheet, This, Other},
                 lhs : Endpoints, rhs : Endpoints, pinned : SUBSET Axes]
    BY DEF Endpoints
  <2>2. QED
    BY <2>1 DEF References
<1>2. /\ DOMAIN lhs = Axes /\ DOMAIN rhs = Axes /\ "col" \in Axes /\ a \in Axes
      /\ \A x \in Axes : /\ lhs[x] \in Nat /\ 1 <= lhs[x] /\ lhs[x] <= MaxOf[x]
                         /\ rhs[x] \in Nat /\ 1 <= rhs[x] /\ rhs[x] <= MaxOf[x]
                         /\ MaxOf[x] \in Nat
  BY CellsFit, PlanNumbers, Sizes DEF Axes
<1>3. lo \in Nat /\ hi \in Nat /\ 1 <= lo /\ lo <= hi /\ hi <= MaxOf["col"]
  BY <1>2 DEF Low, High
<1>4. Shrunk(ref, ends, plan)
  <2>1. GoodPairs(ref, plan, AnchorRange(ref.lhs, ref.rhs, plan))
    BY <1>1, AnchorRangePairs
  <2>2. GoodPairs(ref, plan, AnchorRange(lhs, rhs, plan))
    BY <1>1, <2>1
  <2> HIDE DEF ref
  <2>3. QED
    BY <2>2 DEF GoodPairs
<1> HIDE DEF ref
<1>5. CASE a # "col"
  <2>1. p[1]["col"] = lhs["col"] /\ p[2]["col"] = rhs["col"]
    BY <1>1, <1>2, <1>4, <1>5 DEF Shrunk
  <2>2. QED
    BY <1>5, <2>1 DEF RangeGoes
<1>6. CASE a = "col" /\ Inserts(plan)
  <2> DEFINE MovedOn(i) == IF i >= plan.idx THEN i + plan.n ELSE i
             one == <<[lhs EXCEPT !["col"] = MovedOn(lhs["col"])], [rhs EXCEPT !["col"] = MovedOn(rhs["col"])]>>
  <2>1. AnchorRange(lhs, rhs, plan) = {one : x \in {i \in {hi} : MovedOn(i) <= MaxOf["col"]}}
    BY <1>2, <1>6 DEF AnchorRange
  <2>2. p = one
    <3> HIDE DEF one
    <3>1. QED
      BY <2>1
  <2>3. \A i \in Nat : MovedOn(i) = After(plan, i)
    BY <1>6, PlanNumbers DEF After
  <2>4. p[1]["col"] = After(plan, lhs["col"]) /\ p[2]["col"] = After(plan, rhs["col"])
    BY <1>2, <2>2, <2>3
  <2>5. \A i : ~InBand(plan, i)
    BY <1>6 DEF InBand
  <2>6. newLo = After(plan, lo) /\ newHi = After(plan, hi)
    BY <1>2, <1>6, <2>4, PlanNumbers DEF After, Low, High
  <2>7. FirstLeft(plan, lo) = lo /\ LastLeft(plan, hi) = hi
    BY <2>5 DEF FirstLeft, LastLeft
  <2>8. QED
    BY <1>3, <1>6, <2>5, <2>6, <2>7 DEF RangeGoes
<1>7. CASE a = "col" /\ ~Inserts(plan)
  <2> DEFINE first == FirstLeft(plan, lo)
             last == LastLeft(plan, hi)
  <2>1. PICK l \in Nat, r \in Nat :
          /\ Clipped(ref, plan, l, r)
          /\ ends.lhs[a] = After(plan, l) /\ ends.rhs[a] = After(plan, r)
    BY <1>1, <1>2, <1>4, <1>7 DEF Shrunk
  <2>2. /\ 1 <= l /\ 1 <= r /\ ~InBand(plan, l) /\ ~InBand(plan, r)
        /\ lo <= l /\ l <= hi /\ lo <= r /\ r <= hi
        /\ \A i \in 1..MaxOf["col"] :
             lo <= i /\ i <= hi /\ Stays(plan, i) => Low(l, r) <= i /\ i <= High(l, r)
    BY <1>1, <1>2, <1>7, <2>1 DEF Clipped, Spanned
  <2>3. \A i \in Nat : 1 <= i /\ i <= MaxOf["col"] /\ ~InBand(plan, i) => Stays(plan, i)
    BY <1>2, <1>7, PlanNumbers DEF Stays, After
  <2>4. /\ plan.n \in Int /\ plan.n < 0 /\ plan.idx \in Nat /\ plan.idx > 0
        /\ From(plan) = plan.idx - plan.n
        /\ \A i \in Int : InBand(plan, i) <=> plan.idx <= i /\ i <= plan.idx - plan.n - 1
    BY <1>7, PlanNumbers
  <2>5. /\ first \in Nat /\ lo <= first /\ ~InBand(plan, first)
        /\ first <= l /\ first <= r
    BY <1>3, <2>2, <2>4 DEF FirstLeft
  <2>6. /\ last \in Nat /\ last <= hi /\ ~InBand(plan, last)
        /\ l <= last /\ r <= last
    BY <1>3, <2>2, <2>4 DEF LastLeft
  <2> HIDE DEF first, last, lo, hi
  <2>7. Low(l, r) <= first /\ last <= High(l, r)
    <3>1. first \in 1..MaxOf["col"] /\ last \in 1..MaxOf["col"]
      BY <1>2, <1>3, <2>2, <2>5, <2>6
    <3>2. Stays(plan, first) /\ Stays(plan, last)
      BY <1>2, <2>3, <2>5, <2>6, <3>1
    <3>3. lo <= first /\ first <= hi /\ lo <= last /\ last <= hi
      BY <1>3, <2>2, <2>5, <2>6
    <3>4. QED
      BY <2>2, <3>1, <3>2, <3>3
  <2>8. Low(l, r) = first /\ High(l, r) = last /\ first <= last
    BY <2>5, <2>6, <2>7 DEF Low, High
  <2>9. /\ After(plan, l) \in Nat /\ After(plan, r) \in Nat
        /\ After(plan, l) <= After(plan, r) <=> l <= r
    BY <2>2, AfterKeepsOrder
  <2>10. newLo = After(plan, first) /\ newHi = After(plan, last)
    BY <1>7, <2>1, <2>8, <2>9 DEF Low, High
  <2>11. QED
    BY <1>7, <2>5, <2>6, <2>8, <2>10 DEF RangeGoes, first, last, lo, hi
<1>8. QED
  BY <1>5, <1>6, <1>7

\* The columns of a table after a shift: as many as its range is wide, with
\* different names, and those that are left over their cells.
ColumnsFollow(plan, lo, columns, newLo, newHi, new) ==
  /\ new \in Seq(Nat) /\ Len(new) = newHi - newLo + 1
  /\ \A i, j \in 1..Len(new) : i # j => new[i] # new[j]
  /\ plan.axis = "col" =>
       \A k \in 1..Len(columns) : ~InBand(plan, lo + k - 1) =>
         new[After(plan, lo + k - 1) - newLo + 1] = columns[k]

-----------------------------------------------------------------------------
(* Deleted columns: the ones that are kept, one at a time. *)

KeptStep(c, kept, i) ==
  IF InBand(c.plan, c.lo + i - 1) THEN kept ELSE Append(kept, c.columns[i])
Keeping == INSTANCE FoldInduction WITH Op <- KeptStep, Good <- LAMBDA c, kept : TRUE
Numbered(n) == [i \in 1..n |-> i]

\* How many of the first k columns are deleted.
Gone(plan, lo, k) == High(0, Low(lo + k - 1, BandHi(plan)) - High(lo, BandLo(plan)) + 1)

\* The numbers of deleted columns grow by one with each.
LEMMA GoneNumbers ==
  ASSUME NEW plan \in ShiftPlans, ~Inserts(plan), NEW lo \in Nat, NEW k \in Nat
  PROVE  /\ Gone(plan, lo, 0) = 0
         /\ Gone(plan, lo, k) \in Nat /\ Gone(plan, lo, k) <= k
         /\ InBand(plan, lo + k) => Gone(plan, lo, k + 1) = Gone(plan, lo, k) + 1
         /\ ~InBand(plan, lo + k) => Gone(plan, lo, k + 1) = Gone(plan, lo, k)
<1>1. /\ plan.n \in Int /\ plan.n < 0 /\ plan.idx \in Nat /\ plan.idx > 0
      /\ BandLo(plan) = plan.idx /\ BandHi(plan) = plan.idx - plan.n - 1
      /\ InBand(plan, lo + k) <=> plan.idx <= lo + k /\ lo + k <= plan.idx - plan.n - 1
  BY PlanNumbers
<1>2. QED
  BY <1>1 DEF Gone, High, Low

\* A column that is left is where its cells are, counted from the first that is.
LEMMA GoneIs ==
  ASSUME NEW plan \in ShiftPlans, ~Inserts(plan), NEW lo \in Nat, NEW k \in Nat, k > 0
  PROVE  /\ ~InBand(plan, lo + k - 1) =>
              After(plan, lo + k - 1) - After(plan, FirstLeft(plan, lo)) + 1 = k - Gone(plan, lo, k)
         /\ FirstLeft(plan, lo) <= LastLeft(plan, lo + k - 1) =>
              After(plan, LastLeft(plan, lo + k - 1)) - After(plan, FirstLeft(plan, lo)) + 1
                = k - Gone(plan, lo, k)
<1>1. /\ plan.n \in Int /\ plan.n < 0 /\ plan.idx \in Nat /\ plan.idx > 0
      /\ BandLo(plan) = plan.idx /\ BandHi(plan) = plan.idx - plan.n - 1
      /\ From(plan) = plan.idx - plan.n
      /\ InBand(plan, lo + k - 1) <=> plan.idx <= lo + k - 1 /\ lo + k - 1 <= plan.idx - plan.n - 1
      /\ InBand(plan, lo) <=> plan.idx <= lo /\ lo <= plan.idx - plan.n - 1
  BY PlanNumbers
<1>2. QED
  BY <1>1 DEF Gone, High, Low, After, FirstLeft, LastLeft

\* What is kept of the first k columns.
KeptColumns(plan, lo, columns, k, kept) ==
  /\ kept \in Seq(Nat) /\ Len(kept) = k - Gone(plan, lo, k)
  /\ \A i \in 1..k : ~InBand(plan, lo + i - 1) =>
       /\ i - Gone(plan, lo, i) \in 1..Len(kept)
       /\ kept[i - Gone(plan, lo, i)] = columns[i]
  /\ \A j \in 1..Len(kept) : \E i \in 1..k : ~InBand(plan, lo + i - 1) /\ j = i - Gone(plan, lo, i)

\* One column more is kept, or is not.
LEMMA KeptOneMore ==
  ASSUME NEW plan \in ShiftPlans, ~Inserts(plan), NEW lo \in Nat, NEW columns \in Seq(Nat),
         NEW k \in Nat, k + 1 <= Len(columns), NEW kept, KeptColumns(plan, lo, columns, k, kept),
         NEW next, next = IF InBand(plan, lo + (k + 1) - 1) THEN kept ELSE Append(kept, columns[k + 1])
  PROVE  KeptColumns(plan, lo, columns, k + 1, next)
<1> DEFINE g == Gone(plan, lo, k)
           Place(i) == i - Gone(plan, lo, i)
<1>1. /\ g \in Nat /\ g <= k
      /\ InBand(plan, lo + k) => Gone(plan, lo, k + 1) = g + 1
      /\ ~InBand(plan, lo + k) => Gone(plan, lo, k + 1) = g
  BY GoneNumbers
<1>2. /\ kept \in Seq(Nat) /\ Len(kept) = k - g
      /\ \A i \in 1..k : ~InBand(plan, lo + i - 1) =>
           Place(i) \in 1..Len(kept) /\ kept[Place(i)] = columns[i]
      /\ \A j \in 1..Len(kept) : \E i \in 1..k : ~InBand(plan, lo + i - 1) /\ j = Place(i)
  BY DEF KeptColumns
<1>3. lo + (k + 1) - 1 = lo + k
  OBVIOUS
<1>4. \A i \in 1..(k + 1) : i \in 1..k \/ i = k + 1
  OBVIOUS
<1>5. \A i \in 1..k : i \in 1..(k + 1)
  OBVIOUS
<1>6. CASE InBand(plan, lo + k)
  <2>1. next = kept /\ Gone(plan, lo, k + 1) = g + 1
    BY <1>1, <1>3, <1>6
  <2>2. Len(kept) = (k + 1) - Gone(plan, lo, k + 1)
    BY <1>1, <1>2, <2>1
  <2> HIDE DEF Place
  <2>3. \A i \in 1..(k + 1) : ~InBand(plan, lo + i - 1) =>
          Place(i) \in 1..Len(kept) /\ kept[Place(i)] = columns[i]
    BY <1>2, <1>3, <1>4, <1>6
  <2>4. \A j \in 1..Len(kept) : \E i \in 1..(k + 1) : ~InBand(plan, lo + i - 1) /\ j = Place(i)
    BY <1>2, <1>5
  <2>5. QED
    BY <1>2, <2>1, <2>2, <2>3, <2>4 DEF KeptColumns, Place
<1>7. CASE ~InBand(plan, lo + k)
  <2> DEFINE x == columns[k + 1]
  <2>1. next = Append(kept, x) /\ Gone(plan, lo, k + 1) = g
    BY <1>1, <1>3, <1>7
  <2>2. x \in Nat
    OBVIOUS
  <2> HIDE DEF x
  <2>3. /\ next \in Seq(Nat) /\ Len(next) = Len(kept) + 1 /\ next[Len(kept) + 1] = x
        /\ \A j \in 1..Len(kept) : next[j] = kept[j]
    BY <1>2, <2>1, <2>2
  <2>4. Place(k + 1) = Len(kept) + 1 /\ Len(kept) \in Nat
    BY <1>1, <1>2, <2>1
  <2>5. Len(next) = (k + 1) - Gone(plan, lo, k + 1)
    BY <1>1, <1>2, <2>1, <2>3
  <2> HIDE DEF Place
  <2>6. \A i \in 1..(k + 1) : ~InBand(plan, lo + i - 1) =>
          Place(i) \in 1..Len(next) /\ next[Place(i)] = columns[i]
    <3> TAKE i \in 1..(k + 1)
    <3>1. CASE i \in 1..k
      BY <1>2, <2>3, <2>4, <3>1
    <3>2. CASE i = k + 1
      BY <2>3, <2>4, <3>2 DEF x
    <3>3. QED
      BY <1>4, <3>1, <3>2
  <2>7. \A j \in 1..Len(next) : \E i \in 1..(k + 1) : ~InBand(plan, lo + i - 1) /\ j = Place(i)
    <3> TAKE j \in 1..Len(next)
    <3>1. CASE j \in 1..Len(kept)
      BY <1>2, <1>5, <3>1
    <3>2. CASE j = Len(kept) + 1
      BY <1>3, <1>7, <2>4, <3>2
    <3>3. QED
      BY <2>3, <2>4, <3>1, <3>2
  <2>8. QED
    BY <2>3, <2>5, <2>6, <2>7 DEF KeptColumns, Place
<1>8. QED
  BY <1>6, <1>7

\* table_shift, when columns are deleted: which are kept.
LEMMA DeletedColumns ==
  ASSUME NEW plan \in ShiftPlans, ~Inserts(plan), NEW lo \in Nat, NEW hi, NEW columns \in Seq(Nat)
  PROVE  KeptColumns(plan, lo, columns, Len(columns), TableColumns(columns, lo, hi, plan))
<1> DEFINE n == Len(columns)
           all == Numbered(n)
           c == [plan |-> plan, lo |-> lo, columns |-> columns]
           kept == TableColumns(columns, lo, hi, plan)
<1>1. kept = Keeping!Folded(c, <<>>, all)
  <2>1. kept = FoldLeft(LAMBDA done, i : IF InBand(plan, lo + i - 1) THEN done ELSE Append(done, columns[i]),
                        <<>>, [i \in 1..n |-> i])
    BY DEF TableColumns
  <2>2. FoldLeft(LAMBDA done, i : IF InBand(plan, lo + i - 1) THEN done ELSE Append(done, columns[i]),
                 <<>>, [i \in 1..n |-> i])
          = Keeping!Folded(c, <<>>, all)
    BY DEF FoldLeft, MapThenFoldSet, Max, KeptStep, Numbered,
           Keeping!Folded, Keeping!IsFold, Keeping!Top
  <2> HIDE DEF kept, c, all
  <2>3. QED
    BY <2>1, <2>2
<1>2. n \in Nat /\ all \in Seq(Nat) /\ Len(all) = n /\ \A i \in 1..n : all[i] = i
  BY DEF Numbered
<1>3. \A done, i : KeptStep(c, done, i) = IF InBand(plan, lo + i - 1) THEN done ELSE Append(done, columns[i])
  BY DEF KeptStep
<1> HIDE DEF c, all, kept, n
<1>4. PICK f : Keeping!PrefixFolds(c, <<>>, all, f)
  BY <1>2, Keeping!PrefixesFold
<1>5. /\ f[1..0] = <<>>
      /\ \A k \in 0..(n - 1) : f[1..(k + 1)] = KeptStep(c, f[1..k], all[k + 1])
      /\ kept = f[1..n]
  BY <1>1, <1>2, <1>4 DEF Keeping!PrefixFolds
<1> DEFINE T == {k \in Nat : k <= n => KeptColumns(plan, lo, columns, k, f[1..k])}
<1>6. 0 \in T
  <2>1. Gone(plan, lo, 0) = 0
    BY GoneNumbers
  <2> DEFINE q == <<>>
  <2>2. q \in Seq(Nat) /\ Len(q) = 0
    OBVIOUS
  <2> HIDE DEF q
  <2>3. KeptColumns(plan, lo, columns, 0, q)
    BY <2>1, <2>2 DEF KeptColumns
  <2>4. QED
    BY <1>5, <2>3 DEF q
<1>7. \A k \in T : k + 1 \in T
  <2> SUFFICES ASSUME NEW k \in T, k + 1 <= n PROVE KeptColumns(plan, lo, columns, k + 1, f[1..(k + 1)])
    OBVIOUS
  <2> DEFINE next == f[1..(k + 1)]
             done == f[1..k]
  <2>1. k \in 0..(n - 1) /\ k \in Nat /\ KeptColumns(plan, lo, columns, k, done)
    BY <1>2
  <2>2. next = KeptStep(c, done, k + 1)
    BY <1>2, <1>5, <2>1
  <2> HIDE DEF next, done
  <2>3. next = IF InBand(plan, lo + (k + 1) - 1) THEN done ELSE Append(done, columns[k + 1])
    BY <1>3, <2>2
  <2>4. k + 1 <= Len(columns)
    BY DEF n
  <2>5. KeptColumns(plan, lo, columns, k + 1, next)
    BY <2>1, <2>3, <2>4, KeptOneMore
  <2>6. QED
    BY <2>5 DEF next
<1>8. T = Nat
  <2>1. T \in SUBSET Nat
    OBVIOUS
  <2> HIDE DEF T
  <2>2. QED
    BY <1>6, <1>7, <2>1, AllNaturals
<1>9. n \in T
  BY <1>2, <1>8
<1>10. QED
  BY <1>2, <1>5, <1>9 DEF kept, n

\* What is kept of all columns is what the range asks for.
LEMMA DeletedFollow ==
  ASSUME NEW plan \in ShiftPlans, ~Inserts(plan), plan.axis = "col", NEW lo \in Nat,
         NEW columns \in Seq(Nat), Len(columns) > 0,
         \A i, j \in DOMAIN columns : i # j => columns[i] # columns[j],
         NEW hi, hi = lo + Len(columns) - 1, NEW newLo, NEW newHi,
         RangeGoes(plan, lo, hi, newLo, newHi),
         NEW new, KeptColumns(plan, lo, columns, Len(columns), new)
  PROVE  ColumnsFollow(plan, lo, columns, newLo, newHi, new)
<1> DEFINE n == Len(columns)
           Place(i) == i - Gone(plan, lo, i)
<1>1. n \in Nat /\ n > 0 /\ DOMAIN columns = 1..n /\ hi = lo + n - 1
  OBVIOUS
<1>2. /\ new \in Seq(Nat) /\ Len(new) = Place(n)
      /\ \A i \in 1..n : ~InBand(plan, lo + i - 1) =>
           Place(i) \in 1..Len(new) /\ new[Place(i)] = columns[i]
      /\ \A j \in 1..Len(new) : \E i \in 1..n : ~InBand(plan, lo + i - 1) /\ j = Place(i)
  BY DEF KeptColumns
<1>3. /\ newLo = After(plan, FirstLeft(plan, lo)) /\ newHi = After(plan, LastLeft(plan, hi))
      /\ FirstLeft(plan, lo) <= LastLeft(plan, hi)
  BY DEF RangeGoes
<1>4. newHi - newLo + 1 = Place(n)
  BY <1>1, <1>3, GoneIs
<1>5. ASSUME NEW i \in 1..n, ~InBand(plan, lo + i - 1)
      PROVE  After(plan, lo + i - 1) - newLo + 1 = Place(i)
  <2>1. i \in Nat /\ i > 0
    BY <1>1
  <2>2. QED
    BY <1>3, <1>5, <2>1, GoneIs
<1> HIDE DEF n, Place
<1>6. ASSUME NEW i \in 1..Len(new), NEW j \in 1..Len(new), i # j PROVE new[i] # new[j]
  <2>1. PICK x \in 1..n : ~InBand(plan, lo + x - 1) /\ i = Place(x)
    BY <1>2
  <2>2. PICK y \in 1..n : ~InBand(plan, lo + y - 1) /\ j = Place(y)
    BY <1>2
  <2>3. x # y
    BY <1>6, <2>1, <2>2
  <2>4. new[i] = columns[x] /\ new[j] = columns[y]
    BY <1>2, <2>1, <2>2
  <2>5. QED
    BY <1>1, <2>3, <2>4
<1>7. \A k \in 1..n : ~InBand(plan, lo + k - 1) => new[After(plan, lo + k - 1) - newLo + 1] = columns[k]
  BY <1>2, <1>5
<1>8. QED
  BY <1>2, <1>4, <1>6, <1>7 DEF ColumnsFollow, n

-----------------------------------------------------------------------------
(* Inserted columns: their numbers are above all others. *)

HighStep(c, top, x) == High(top, x)
Tops == INSTANCE FoldInduction WITH Op <- HighStep, Good <- LAMBDA c, top : TRUE

\* The greatest number of a sequence, or zero.
LEMMA TopIsAbove ==
  ASSUME NEW s \in Seq(Nat)
  PROVE  /\ FoldLeft(High, 0, s) \in Nat
         /\ \A i \in 1..Len(s) : s[i] <= FoldLeft(High, 0, s)
<1> DEFINE n == Len(s)
<1>1. FoldLeft(High, 0, s) = Tops!Folded(0, 0, s)
  BY DEF FoldLeft, MapThenFoldSet, Max, HighStep, Tops!Folded, Tops!IsFold, Tops!Top
<1>2. n \in Nat /\ \A i \in 1..n : s[i] \in Nat
  OBVIOUS
<1> HIDE DEF n
<1>3. PICK f : Tops!PrefixFolds(0, 0, s, f)
  BY Tops!PrefixesFold
<1>4. /\ f[1..0] = 0
      /\ \A k \in 0..(n - 1) : f[1..(k + 1)] = High(f[1..k], s[k + 1])
      /\ FoldLeft(High, 0, s) = f[1..n]
  BY <1>1, <1>3 DEF Tops!PrefixFolds, HighStep, n
<1> DEFINE T == {k \in Nat : k <= n => f[1..k] \in Nat /\ \A i \in 1..k : s[i] <= f[1..k]}
<1>5. 0 \in T
  BY <1>4
<1>6. \A k \in T : k + 1 \in T
  <2> SUFFICES ASSUME NEW k \in T, k + 1 <= n
               PROVE  f[1..(k + 1)] \in Nat /\ \A i \in 1..(k + 1) : s[i] <= f[1..(k + 1)]
    OBVIOUS
  <2> DEFINE top == f[1..k]
             next == f[1..(k + 1)]
  <2>1. k \in 0..(n - 1) /\ k \in Nat /\ top \in Nat /\ (\A i \in 1..k : s[i] <= top)
    BY <1>2
  <2>2. next = High(top, s[k + 1])
    BY <1>4, <2>1
  <2>3. s[k + 1] \in Nat /\ \A i \in 1..(k + 1) : s[i] \in Nat
    BY <1>2, <2>1
  <2> HIDE DEF top, next
  <2>4. next \in Nat /\ top <= next /\ s[k + 1] <= next
    BY <2>1, <2>2, <2>3 DEF High
  <2>5. \A i \in 1..(k + 1) : s[i] <= next
    <3> TAKE i \in 1..(k + 1)
    <3>1. CASE i \in 1..k
      BY <2>1, <2>3, <2>4, <3>1
    <3>2. CASE i = k + 1
      BY <2>4, <3>2
    <3>3. QED
      BY <2>1, <3>1, <3>2
  <2>6. QED
    BY <2>4, <2>5 DEF next
<1>7. T = Nat
  <2>1. T \in SUBSET Nat
    OBVIOUS
  <2> HIDE DEF T
  <2>2. QED
    BY <1>5, <1>6, <2>1, AllNaturals
<1>8. n \in T
  BY <1>2, <1>7
<1>9. QED
  BY <1>2, <1>4, <1>8 DEF n

\* Three sequences, one after another.
LEMMA ThreeJoined ==
  ASSUME NEW p \in Seq(Nat), NEW q \in Seq(Nat), NEW r \in Seq(Nat)
  PROVE  LET s == p \o q \o r
         IN /\ s \in Seq(Nat) /\ Len(s) = Len(p) + Len(q) + Len(r)
            /\ \A i \in 1..Len(s) :
                 s[i] = IF i <= Len(p) THEN p[i]
                        ELSE IF i <= Len(p) + Len(q) THEN q[i - Len(p)]
                        ELSE r[i - Len(p) - Len(q)]
<1> DEFINE t == p \o q
           s == t \o r
<1>1. /\ t \in Seq(Nat) /\ Len(t) = Len(p) + Len(q) /\ Len(p) \in Nat /\ Len(q) \in Nat /\ Len(r) \in Nat
      /\ \A i \in 1..Len(t) : t[i] = IF i <= Len(p) THEN p[i] ELSE q[i - Len(p)]
  OBVIOUS
<1> HIDE DEF t
<1>2. /\ s \in Seq(Nat) /\ Len(s) = Len(t) + Len(r)
      /\ \A i \in 1..Len(s) : s[i] = IF i <= Len(t) THEN t[i] ELSE r[i - Len(t)]
  <2>1. t \in Seq(Nat) /\ r \in Seq(Nat)
    BY <1>1
  <2>2. QED
    BY <2>1
<1> HIDE DEF s
<1>3. ASSUME NEW i \in 1..Len(s)
      PROVE  s[i] = IF i <= Len(p) THEN p[i]
                    ELSE IF i <= Len(p) + Len(q) THEN q[i - Len(p)]
                    ELSE r[i - Len(p) - Len(q)]
  <2>1. i \in Nat /\ 1 <= i
    BY <1>1, <1>2
  <2>2. CASE i <= Len(t)
    <3>1. i \in 1..Len(t) /\ s[i] = t[i]
      BY <1>1, <1>2, <2>1, <2>2
    <3>2. QED
      BY <1>1, <2>1, <2>2, <3>1
  <2>3. CASE ~(i <= Len(t))
    <3>1. s[i] = r[i - Len(t)]
      BY <1>2, <2>3
    <3>2. ~(i <= Len(p)) /\ ~(i <= Len(p) + Len(q)) /\ i - Len(t) = i - Len(p) - Len(q)
      BY <1>1, <2>1, <2>3
    <3>3. QED
      BY <3>1, <3>2
  <2>4. QED
    BY <2>2, <2>3
<1>4. s \in Seq(Nat) /\ Len(s) = Len(p) + Len(q) + Len(r)
  BY <1>1, <1>2
<1>5. QED
  BY <1>3, <1>4 DEF s, t

\* What a sequence has after its first m elements.
LEMMA TailOf ==
  ASSUME NEW s \in Seq(Nat), NEW m \in Nat, m + 1 <= Len(s)
  PROVE  LET t == SubSeq(s, m + 1, Len(s))
         IN  /\ t \in Seq(Nat) /\ Len(t) = Len(s) - m
             /\ \A i \in 1..(Len(s) - m) : t[i] = s[m + i]
<1> DEFINE n == Len(s)
           t == SubSeq(s, m + 1, n)
<1>1. n \in Nat /\ m + 1 \in 1..n /\ n \in 1..n /\ m + 1 <= n
  OBVIOUS
<1>2. \A i \in 1..(n - m) : m + i \in 1..n /\ i \in 1..(n - (m + 1) + 1) /\ (m + 1) + i - 1 = m + i
  BY <1>1
<1>3. n - (m + 1) + 1 = n - m
  BY <1>1
<1>4. t \in Seq(Nat) /\ Len(t) = n - m
  BY <1>1, <1>3
<1>5. ASSUME NEW i \in 1..(n - m) PROVE t[i] = s[m + i]
  BY <1>1, <1>2
<1>6. QED
  BY <1>4, <1>5 DEF t

\* The columns of a table, under different names.
Named(columns) ==
  /\ columns \in Seq(Nat) /\ Len(columns) > 0
  /\ \A i, j \in DOMAIN columns : i # j => columns[i] # columns[j]

\* The columns with by new ones after the first m.
Widened(columns, m, by, new) ==
  /\ new \in Seq(Nat) /\ Len(new) = Len(columns) + by
  /\ \A i \in 1..m : new[i] = columns[i]
  /\ \A i \in 1..by : \A j \in 1..Len(columns) : new[m + i] > columns[j]
  /\ \A i, j \in 1..by : i # j => new[m + i] # new[m + j]
  /\ \A i \in 1..Len(columns) : i > m => new[i + by] = columns[i]

\* A table that is widened has the new columns in the middle.
LEMMA ColumnsWidened ==
  ASSUME NEW columns, Named(columns), NEW m \in Nat, 1 <= m, m < Len(columns), NEW by \in Nat
  PROVE  Widened(columns, m, by,
                 SubSeq(columns, 1, m) \o NewColumns(columns, by)
                   \o SubSeq(columns, m + 1, Len(columns)))
<1> DEFINE n == Len(columns)
           top == FoldLeft(High, 0, columns)
           p == SubSeq(columns, 1, m)
           q == NewColumns(columns, by)
           r == SubSeq(columns, m + 1, n)
           new == p \o q \o r
<1>1. columns \in Seq(Nat) /\ n \in Nat /\ m + 1 <= n
  BY DEF Named
<1>2. top \in Nat /\ \A i \in 1..n : columns[i] \in Nat /\ columns[i] <= top
  BY <1>1, TopIsAbove
<1>3. p \in Seq(Nat) /\ Len(p) = m /\ \A i \in 1..m : p[i] = columns[i]
  BY <1>1
<1>4. q \in Seq(Nat) /\ Len(q) = by /\ \A i \in 1..by : q[i] = top + i
  <2>1. q \in [1..by -> Nat] /\ \A i \in 1..by : q[i] = top + i
    BY <1>2 DEF NewColumns
  <2> HIDE DEF q
  <2>2. QED
    BY <2>1, FunctionIsSeq
<1>5. r \in Seq(Nat) /\ Len(r) = n - m /\ \A i \in 1..(n - m) : r[i] = columns[m + i]
  BY <1>1, TailOf
<1> HIDE DEF p, q, r
<1>6. /\ new \in Seq(Nat) /\ Len(new) = Len(p) + Len(q) + Len(r)
      /\ \A i \in 1..Len(new) :
           new[i] = IF i <= Len(p) THEN p[i]
                    ELSE IF i <= Len(p) + Len(q) THEN q[i - Len(p)]
                    ELSE r[i - Len(p) - Len(q)]
  <2>1. p \in Seq(Nat) /\ q \in Seq(Nat) /\ r \in Seq(Nat)
    BY <1>3, <1>4, <1>5
  <2>2. QED
    BY <2>1, ThreeJoined
<1>7. Len(p) = m /\ Len(q) = by /\ Len(r) = n - m
  BY <1>3, <1>4, <1>5
<1> HIDE DEF new, n, top
<1>8. Len(new) = n + by
  BY <1>1, <1>6, <1>7
<1>9. ASSUME NEW i \in 1..m PROVE new[i] = columns[i]
  <2>1. i \in Nat /\ i <= m /\ i \in 1..Len(new)
    BY <1>1, <1>8
  <2>2. new[i] = p[i]
    BY <1>6, <1>7, <2>1
  <2>3. QED
    BY <1>3, <2>2
<1>10. ASSUME NEW i \in 1..by PROVE new[m + i] = top + i
  <2>1. /\ m + i \in 1..Len(new) /\ ~(m + i <= m) /\ m + i <= m + by /\ m + i - m = i
    BY <1>1, <1>8
  <2>2. new[m + i] = q[m + i - m]
    BY <1>6, <1>7, <2>1
  <2>3. QED
    BY <1>4, <2>1, <2>2
<1>11. ASSUME NEW i \in 1..n, i > m PROVE new[i + by] = columns[i]
  <2>1. /\ i + by \in 1..Len(new) /\ ~(i + by <= m) /\ ~(i + by <= m + by)
        /\ i + by - m - by = i - m /\ i - m \in 1..(n - m) /\ m + (i - m) = i
    BY <1>1, <1>8, <1>11
  <2>2. new[i + by] = r[i + by - m - by]
    BY <1>6, <1>7, <2>1
  <2>3. r[i - m] = columns[m + (i - m)]
    BY <1>5, <2>1
  <2>4. QED
    BY <2>1, <2>2, <2>3
<1>12. \A i \in 1..by : \A j \in 1..n : new[m + i] > columns[j]
  BY <1>2, <1>10
<1>13. ASSUME NEW i \in 1..by, NEW j \in 1..by, i # j PROVE new[m + i] # new[m + j]
  <2>1. new[m + i] = top + i /\ new[m + j] = top + j
    BY <1>10
  <2>2. i \in Nat /\ j \in Nat /\ top \in Nat
    BY <1>2
  <2>3. QED
    BY <1>13, <2>1, <2>2
<1>14. Widened(columns, m, by, new)
  BY <1>6, <1>8, <1>9, <1>11, <1>12, <1>13 DEF Widened, n
<1>15. QED
  BY <1>14 DEF new, p, q, r, n

\* They have different names.
LEMMA WidenedAreNamed ==
  ASSUME NEW columns, Named(columns), NEW m \in Nat, m < Len(columns), NEW by \in Nat,
         NEW new, Widened(columns, m, by, new), NEW i \in 1..Len(new), NEW j \in 1..Len(new), i < j
  PROVE  new[i] # new[j]
<1> DEFINE n == Len(columns)
<1>1. n \in Nat /\ DOMAIN columns = 1..n /\ m < n
  BY DEF Named
<1>2. \A x, y \in 1..n : columns[x] \in Nat /\ (x # y => columns[x] # columns[y])
  <2>1. columns \in Seq(Nat) /\ \A x, y \in DOMAIN columns : x # y => columns[x] # columns[y]
    BY DEF Named
  <2>2. \A x \in 1..n : columns[x] \in Nat
    BY <2>1
  <2> HIDE DEF n
  <2>3. QED
    BY <1>1, <2>1, <2>2
<1>3. /\ Len(new) = n + by
      /\ \A x \in 1..m : new[x] = columns[x]
      /\ \A x \in 1..by : \A y \in 1..n : new[m + x] > columns[y]
      /\ \A x, y \in 1..by : x # y => new[m + x] # new[m + y]
      /\ \A x \in 1..n : x > m => new[x + by] = columns[x]
  BY DEF Widened
<1> HIDE DEF n
<1>4. i \in Nat /\ j \in Nat /\ 1 <= i /\ i < j /\ j <= n + by
  BY <1>1, <1>3
<1> DEFINE x == IF i <= m THEN i ELSE i - by
           y == IF j <= m THEN j ELSE j - by
<1>5. ~(m < i /\ i <= m + by) => x \in 1..n /\ new[i] = columns[x]
  <2>1. CASE i <= m
    BY <1>1, <1>3, <1>4, <2>1
  <2>2. CASE i > m + by
    <3>1. x = i - by /\ x \in 1..n /\ x > m /\ x + by = i
      BY <1>1, <1>4, <2>2
    <3> HIDE DEF x
    <3>2. QED
      BY <1>3, <3>1
  <2>3. QED
    BY <1>4, <2>1, <2>2
<1>6. ~(m < j /\ j <= m + by) => y \in 1..n /\ new[j] = columns[y]
  <2>1. CASE j <= m
    BY <1>1, <1>3, <1>4, <2>1
  <2>2. CASE j > m + by
    <3>1. y = j - by /\ y \in 1..n /\ y > m /\ y + by = j
      BY <1>1, <1>4, <2>2
    <3> HIDE DEF y
    <3>2. QED
      BY <1>3, <3>1
  <2>3. QED
    BY <1>4, <2>1, <2>2
<1>7. CASE m < i /\ i <= m + by
  <2>1. i - m \in 1..by /\ m + (i - m) = i
    BY <1>4, <1>7
  <2>2. CASE m < j /\ j <= m + by
    <3>1. j - m \in 1..by /\ m + (j - m) = j /\ i - m # j - m
      BY <1>4, <2>2
    <3>2. QED
      BY <1>3, <2>1, <3>1
  <2>3. CASE ~(m < j /\ j <= m + by)
    <3>1. y \in 1..n /\ new[j] = columns[y]
      BY <1>6, <2>3
    <3> HIDE DEF y
    <3>2. new[m + (i - m)] > columns[y]
      BY <1>3, <2>1, <3>1
    <3>3. columns[y] \in Nat
      BY <1>2, <3>1
    <3>4. QED
      BY <2>1, <3>1, <3>2, <3>3
  <2>4. QED
    BY <2>2, <2>3
<1>8. CASE ~(m < i /\ i <= m + by)
  <2>1. x \in 1..n /\ new[i] = columns[x]
    BY <1>5, <1>8
  <2>2. CASE m < j /\ j <= m + by
    <3>1. j - m \in 1..by /\ m + (j - m) = j
      BY <1>4, <2>2
    <3> HIDE DEF x
    <3>2. new[m + (j - m)] > columns[x]
      BY <1>3, <2>1, <3>1
    <3>3. columns[x] \in Nat
      BY <1>2, <2>1
    <3>4. QED
      BY <2>1, <3>1, <3>2, <3>3
  <2>3. CASE ~(m < j /\ j <= m + by)
    <3>1. y \in 1..n /\ new[j] = columns[y]
      BY <1>6, <2>3
    <3>2. x # y
      BY <1>4, <1>8, <2>3
    <3> HIDE DEF x, y
    <3>3. QED
      BY <1>2, <2>1, <3>1, <3>2
  <2>4. QED
    BY <2>2, <2>3
<1>9. QED
  BY <1>7, <1>8

\* table_shift, when columns are inserted.
LEMMA InsertedFollow ==
  ASSUME NEW plan \in ShiftPlans, Inserts(plan), plan.axis = "col", NEW lo \in Nat,
         NEW columns, Named(columns), NEW hi, hi = lo + Len(columns) - 1,
         NEW newLo, NEW newHi, RangeGoes(plan, lo, hi, newLo, newHi)
  PROVE  ColumnsFollow(plan, lo, columns, newLo, newHi, TableColumns(columns, lo, hi, plan))
<1> DEFINE n == Len(columns)
           new == TableColumns(columns, lo, hi, plan)
           by == plan.n
           idx == plan.idx
<1>1. columns \in Seq(Nat) /\ n \in Nat /\ n > 0 /\ hi = lo + n - 1 /\ hi \in Nat
  BY DEF Named
<1>2. \A i, j \in 1..n : i # j => columns[i] # columns[j]
  <2>1. columns \in Seq(Nat) /\ \A x, y \in DOMAIN columns : x # y => columns[x] # columns[y]
    BY DEF Named
  <2>2. DOMAIN columns = 1..n
    BY <2>1
  <2> HIDE DEF n
  <2>3. QED
    BY <2>1, <2>2
<1>3. by \in Nat /\ by > 0 /\ idx \in Nat /\ From(plan) = idx
  BY PlanNumbers
<1>4. \A i : ~InBand(plan, i)
  BY DEF InBand
<1>5. newLo = After(plan, lo) /\ newHi = After(plan, hi)
  BY <1>4 DEF RangeGoes, FirstLeft, LastLeft
<1>6. \A i : After(plan, i) = IF i >= idx THEN i + by ELSE i
  BY <1>3 DEF After
<1>7. /\ newLo = IF lo >= idx THEN lo + by ELSE lo
      /\ newHi = IF hi >= idx THEN hi + by ELSE hi
  BY <1>5, <1>6
<1> HIDE DEF n, by, idx
<1>8. CASE idx > hi \/ idx <= lo
  <2>1. new = columns
    BY <1>8 DEF TableColumns, idx
  <2>2. newHi - newLo + 1 = n
    <3>1. CASE idx > hi
      BY <1>1, <1>3, <1>7, <3>1
    <3>2. CASE idx <= lo
      BY <1>1, <1>3, <1>7, <3>2
    <3>3. QED
      BY <1>8, <3>1, <3>2
  <2>3. ASSUME NEW k \in 1..n PROVE After(plan, lo + k - 1) - newLo + 1 = k
    <3>1. lo + k - 1 \in Nat /\ k \in Nat /\ 1 <= k /\ k <= n
      BY <1>1
    <3>2. After(plan, lo + k - 1) = IF lo + k - 1 >= idx THEN lo + k - 1 + by ELSE lo + k - 1
      BY <1>6
    <3>3. QED
      BY <1>1, <1>3, <1>7, <1>8, <3>1, <3>2
  <2> HIDE DEF new
  <2>4. \A k \in 1..n : new[After(plan, lo + k - 1) - newLo + 1] = columns[k]
    BY <2>1, <2>3
  <2>5. new \in Seq(Nat) /\ Len(new) = n
    BY <1>1, <2>1 DEF n
  <2>6. \A i, j \in 1..Len(new) : i # j => new[i] # new[j]
    BY <1>2, <2>1, <2>5
  <2>7. QED
    BY <2>2, <2>4, <2>5, <2>6 DEF ColumnsFollow, new, n
<1>9. CASE lo < idx /\ idx <= hi
  <2> DEFINE m == idx - lo
  <2>1. new = SubSeq(columns, 1, m) \o NewColumns(columns, by) \o SubSeq(columns, m + 1, n)
    <3>1. ~(idx > hi \/ idx <= lo)
      BY <1>1, <1>3, <1>9
    <3>2. QED
      BY <3>1 DEF TableColumns, n, by, idx
  <2>2. m \in Nat /\ 1 <= m /\ m < n /\ m + lo = idx
    <3>1. hi = lo + n - 1 /\ n \in Nat /\ idx \in Nat
      BY <1>1, <1>3
    <3>2. QED
      BY <1>9, <3>1
  <2> HIDE DEF m, new
  <2>3. Widened(columns, m, by, new)
    <3>1. m < Len(columns)
      BY <2>2 DEF n
    <3>2. Widened(columns, m, by, SubSeq(columns, 1, m) \o NewColumns(columns, by)
                                   \o SubSeq(columns, m + 1, Len(columns)))
      BY <1>3, <2>2, <3>1, ColumnsWidened
    <3>3. QED
      BY <2>1, <3>2 DEF n
  <2>4. /\ new \in Seq(Nat) /\ Len(new) = n + by
        /\ \A i \in 1..m : new[i] = columns[i]
        /\ \A i \in 1..n : i > m => new[i + by] = columns[i]
    BY <2>3 DEF Widened, n
  <2>5. ASSUME NEW i \in 1..Len(new), NEW j \in 1..Len(new), i < j PROVE new[i] # new[j]
    <3>1. m < Len(columns)
      BY <2>2 DEF n
    <3>2. QED
      BY <1>3, <2>2, <2>3, <2>5, <3>1, WidenedAreNamed
  <2>6. ASSUME NEW i \in 1..Len(new), NEW j \in 1..Len(new), i # j PROVE new[i] # new[j]
    <3>1. i \in Int /\ j \in Int
      OBVIOUS
    <3>2. i < j \/ j < i
      BY <2>6, <3>1
    <3>3. QED
      BY <2>5, <3>2
  <2>7. newLo = lo /\ newHi = hi + by
    BY <1>1, <1>3, <1>7, <1>9
  <2>8. ASSUME NEW k \in 1..n PROVE new[After(plan, lo + k - 1) - newLo + 1] = columns[k]
    <3>1. lo + k - 1 \in Nat /\ k \in Nat /\ 1 <= k /\ k <= n
      BY <1>1
    <3>2. After(plan, lo + k - 1) = IF lo + k - 1 >= idx THEN lo + k - 1 + by ELSE lo + k - 1
      BY <1>6
    <3>3. CASE k <= m
      <4>1. After(plan, lo + k - 1) - newLo + 1 = k /\ k \in 1..m
        BY <1>1, <1>3, <2>2, <2>7, <3>1, <3>2, <3>3
      <4>2. QED
        BY <2>4, <4>1
    <3>4. CASE k > m
      <4>1. After(plan, lo + k - 1) - newLo + 1 = k + by
        BY <1>1, <1>3, <2>2, <2>7, <3>1, <3>2, <3>4
      <4>2. new[k + by] = columns[k]
        BY <2>4, <3>4
      <4>3. QED
        BY <4>1, <4>2
    <3>5. QED
      BY <2>2, <3>1, <3>3, <3>4
  <2>9. Len(new) = newHi - newLo + 1
    BY <1>1, <1>3, <2>4, <2>7
  <2>10. QED
    BY <2>4, <2>6, <2>8, <2>9 DEF ColumnsFollow, new, n
<1>10. QED
  BY <1>1, <1>3, <1>8, <1>9

\* shift_table_xml: the columns follow the range.
LEMMA TableColumnsFollow ==
  ASSUME NEW plan \in ShiftPlans, NEW lo \in Nat, NEW columns, Named(columns),
         NEW hi, hi = lo + Len(columns) - 1, NEW newLo, NEW newHi,
         RangeGoes(plan, lo, hi, newLo, newHi)
  PROVE  ColumnsFollow(plan, lo, columns, newLo, newHi,
                       IF plan.axis = "col" THEN TableColumns(columns, lo, hi, plan) ELSE columns)
<1>1. columns \in Seq(Nat) /\ Len(columns) \in Nat /\ Len(columns) > 0
  BY DEF Named
<1>2. \A i, j \in DOMAIN columns : i # j => columns[i] # columns[j]
  BY DEF Named
<1>3. CASE plan.axis = "col" /\ Inserts(plan)
  BY <1>3, InsertedFollow
<1>4. CASE plan.axis = "col" /\ ~Inserts(plan)
  <2> DEFINE new == TableColumns(columns, lo, hi, plan)
  <2>1. KeptColumns(plan, lo, columns, Len(columns), new)
    BY <1>1, <1>4, DeletedColumns
  <2> HIDE DEF new
  <2>2. ColumnsFollow(plan, lo, columns, newLo, newHi, new)
    BY <1>1, <1>2, <1>4, <2>1, DeletedFollow
  <2>3. QED
    BY <1>4, <2>2 DEF new
<1>5. CASE plan.axis # "col"
  <2>1. newHi - newLo + 1 = Len(columns)
    BY <1>1, <1>5 DEF RangeGoes
  <2>2. DOMAIN columns = 1..Len(columns)
    BY <1>1
  <2>3. ColumnsFollow(plan, lo, columns, newLo, newHi, columns)
    BY <1>1, <1>2, <1>5, <2>1, <2>2 DEF ColumnsFollow
  <2>4. QED
    BY <1>5, <2>3
<1>6. QED
  BY <1>3, <1>4, <1>5

\* A table that is left follows its range and its cells.
LEMMA TablesFollow ==
  ASSUME NEW plan \in ShiftPlans, NEW table, NEW lhs \in Cells, NEW rhs \in Cells,
         NEW columns, Named(columns),
         table.lhs = lhs, table.rhs = rhs, table.columns = columns,
         Len(columns) = High(lhs["col"], rhs["col"]) - Low(lhs["col"], rhs["col"]) + 1,
         NEW new \in ShiftTable(table, plan)
  PROVE  TableFollows(plan, table, new)
<1> DEFINE lo == Low(lhs["col"], rhs["col"])
           hi == High(lhs["col"], rhs["col"])
           after == IF plan.axis = "col" THEN TableColumns(columns, lo, hi, plan) ELSE columns
<1>1. PICK p \in AnchorRange(lhs, rhs, plan) :
        new = [lhs |-> p[1], rhs |-> p[2], columns |-> after,
               header |-> table.header /\ ~(plan.axis = "row" /\ InBand(plan, p[1]["row"]))]
  BY DEF ShiftTable
<1> DEFINE newLo == Low(p[1]["col"], p[2]["col"])
           newHi == High(p[1]["col"], p[2]["col"])
<1>2. new.lhs = p[1] /\ new.rhs = p[2] /\ new.columns = after
  BY <1>1
<1>3. RangeGoes(plan, lo, hi, newLo, newHi)
  BY TableRange
<1>4. lo \in Nat /\ hi \in Nat /\ hi = lo + Len(columns) - 1
  <2>1. lhs["col"] \in Nat /\ rhs["col"] \in Nat
    BY CellsFit DEF Axes
  <2>2. lo \in Nat /\ hi \in Nat
    BY <2>1 DEF Low, High
  <2> HIDE DEF lo, hi
  <2>3. Len(columns) = hi - lo + 1
    BY DEF lo, hi
  <2>4. QED
    BY <2>2, <2>3
<1>5. /\ Low(new.lhs["col"], new.rhs["col"]) = newLo /\ High(new.lhs["col"], new.rhs["col"]) = newHi
      /\ Low(table.lhs["col"], table.rhs["col"]) = lo
  BY <1>2
<1>6. DOMAIN columns = 1..Len(columns) /\ table.columns = columns
  BY DEF Named
<1>7. ASSUME plan.axis = "col", NEW k, NEW c \in AnchorCell([a \in Axes |-> lo + k - 1], plan)
      PROVE  ~InBand(plan, lo + k - 1) /\ c["col"] = After(plan, lo + k - 1)
  <2> DEFINE i == lo + k - 1
             cell == [a \in Axes |-> i]
             from == IF Inserts(plan) THEN plan.idx ELSE plan.idx + AbsN(plan)
             moved == [cell EXCEPT !["col"] = IF @ >= from THEN @ + plan.n ELSE @]
  <2>1. DOMAIN cell = Axes /\ "col" \in Axes /\ cell["col"] = i
    BY DEF Axes
  <2>2. AnchorCell(cell, plan) = IF InBand(plan, cell["col"]) THEN {}
                                ELSE {x \in {moved} : x["col"] \in 1..MaxOf["col"]}
    BY <1>7, <2>1 DEF AnchorCell
  <2>3. moved["col"] = After(plan, i)
    BY <2>1 DEF After, From
  <2>4. c \in AnchorCell(cell, plan)
    BY <1>7
  <2> HIDE DEF cell, moved
  <2>5. ~InBand(plan, i) /\ c = moved
    BY <2>1, <2>2, <2>4
  <2>6. QED
    BY <2>3, <2>5
<1> HIDE DEF lo, hi, newLo, newHi, after
<1>8. ColumnsFollow(plan, lo, columns, newLo, newHi, after)
  <2>1. ColumnsFollow(plan, lo, columns, newLo, newHi,
                      IF plan.axis = "col" THEN TableColumns(columns, lo, hi, plan) ELSE columns)
    BY <1>3, <1>4, TableColumnsFollow
  <2>2. QED
    BY <2>1 DEF after
<1>9. /\ Len(after) = newHi - newLo + 1 /\ DOMAIN after = 1..Len(after)
      /\ \A i, j \in 1..Len(after) : i # j => after[i] # after[j]
      /\ plan.axis = "col" =>
           \A k \in 1..Len(columns) : ~InBand(plan, lo + k - 1) =>
             after[After(plan, lo + k - 1) - newLo + 1] = columns[k]
  BY <1>8 DEF ColumnsFollow
<1>10. ASSUME plan.axis = "col", NEW k \in 1..Len(columns),
              NEW c \in AnchorCell([a \in Axes |-> lo + k - 1], plan)
       PROVE  after[c["col"] - newLo + 1] = columns[k]
  <2>1. ~InBand(plan, lo + k - 1) /\ c["col"] = After(plan, lo + k - 1)
    BY <1>7, <1>10
  <2>2. QED
    BY <1>9, <1>10, <2>1
<1>11. QED
  BY <1>2, <1>5, <1>6, <1>9, <1>10 DEF TableFollows

\* Notes, shapes, drawings and tables follow the sheet (shift_comments_xml,
\* shift_vml_xml, shift_drawing_xml, shift_table_xml).
THEOREM PartsFollow == Spec => []PartsFollowTheSheet
<1>1. Init => PartsFollowTheSheet
  BY DEF Init, PartsFollowTheSheet
<1>2. PartsFollowTheSheet /\ [Next]_vars => PartsFollowTheSheet'
  <2> SUFFICES ASSUME PartsFollowTheSheet, [Next]_vars PROVE PartsFollowTheSheet'
    OBVIOUS
  <2>1. CASE UNCHANGED vars
    BY <2>1 DEF vars, PartsFollowTheSheet
  <2>2. CASE Next /\ given'.what = "note"
    <3>1. ShiftANote
      BY <2>2, Asked
    <3>2. PICK shape \in Shapes, plan \in Plans :
            /\ given' = [what |-> "note", shape |-> shape, plan |-> plan]
            /\ result' = [note |-> AnchorCell([x \in Axes |-> shape.of[x] + 1], plan),
                          shape |-> ShiftedShape(shape, plan),
                          drawing |-> <<ShiftedMarker(shape.from[plan.axis], plan),
                                        ShiftedMarker(shape.to[plan.axis], plan)>>]
      BY <3>1 DEF ShiftANote
    <3>3. plan \in ShiftPlans
      BY PlansAreShifts
    <3> DEFINE of == shape.of
               from == shape.from
               to == shape.to
               note == AnchorCell([x \in Axes |-> of[x] + 1], plan)
               shapes == ShiftedShape(shape, plan)
               drawing == <<ShiftedMarker(from[plan.axis], plan), ShiftedMarker(to[plan.axis], plan)>>
    <3>4. /\ of \in [Axes -> Nat] /\ from \in [Axes -> Nat] /\ to \in [Axes -> Nat]
          /\ \A a \in Axes : from[a] <= to[a] /\ OnSheet(of[a], a)
      BY ShapesAssumption
    <3>5. shape.of = of /\ shape.from = from /\ shape.to = to
      OBVIOUS
    <3>6. result'.note = note /\ result'.shape = shapes /\ result'.drawing = drawing
      BY <3>2
    <3> HIDE DEF of, from, to
    <3>7. NoteFollows(note, shapes, drawing)
      BY <3>3, <3>4, <3>5, NotesFollow
    <3> HIDE DEF note, shapes, drawing
    <3>8. QED
      BY <2>2, <3>6, <3>7 DEF PartsFollowTheSheet
  <2>3. CASE Next /\ given'.what = "table"
    <3>1. ShiftATable
      BY <2>3, Asked
    <3>2. PICK table \in Tables, plan \in Plans :
            /\ given' = [what |-> "table", table |-> table, plan |-> plan]
            /\ result' = ShiftTable(table, plan)
      BY <3>1 DEF ShiftATable
    <3>3. plan \in ShiftPlans
      BY PlansAreShifts
    <3> DEFINE lhs == table.lhs
               rhs == table.rhs
               columns == table.columns
               news == ShiftTable(table, plan)
    <3>4. /\ lhs \in Cells /\ rhs \in Cells /\ columns \in Seq(Nat)
          /\ Len(columns) = High(lhs["col"], rhs["col"]) - Low(lhs["col"], rhs["col"]) + 1
          /\ \A i, j \in DOMAIN columns : i # j => columns[i] # columns[j]
      BY TablesAssumption
    <3>5. table.lhs = lhs /\ table.rhs = rhs /\ table.columns = columns
      OBVIOUS
    <3> HIDE DEF lhs, rhs, columns
    <3>6. Len(columns) > 0
      <4>1. lhs["col"] \in Nat /\ rhs["col"] \in Nat
        BY <3>4, CellsFit DEF Axes
      <4>2. QED
        BY <3>4, <4>1 DEF Low, High
    <3>7. Named(columns)
      BY <3>4, <3>6 DEF Named
    <3>8. \A new \in news : TableFollows(plan, table, new)
      BY <3>3, <3>4, <3>5, <3>7, TablesFollow
    <3>9. given'.plan = plan /\ given'.table = table /\ result' = news
      BY <3>2
    <3> HIDE DEF news
    <3>10. QED
      BY <2>3, <3>8, <3>9 DEF PartsFollowTheSheet
  <2>4. CASE given'.what \notin {"note", "table"}
    BY <2>4 DEF PartsFollowTheSheet
  <2>5. QED
    BY <2>1, <2>2, <2>3, <2>4
<1>3. QED
  BY <1>1, <1>2, PTL DEF Spec

-----------------------------------------------------------------------------
(* Patched cells. *)

\* Ascending lists the members of a set.
LEMMA AscendingEnumerates ==
  ASSUME NEW S \in SUBSET Nat, IsFiniteSet(S)
  PROVE  Enumerates(Ascending(S), Cardinality(S), S)
<1> DEFINE n == Cardinality(S)
           Below(x) == {m \in S : m < x}
           rank == [x \in S |-> Cardinality(Below(x))]
           list == Ascending(S)
<1>1. n \in Nat
  BY FS_CardinalityType
<1>2. ASSUME NEW x \in S
      PROVE  /\ IsFiniteSet(Below(x)) /\ rank[x] \in 0..(n - 1)
             /\ Cardinality(Below(x) \cup {x}) = rank[x] + 1
  <2>1. IsFiniteSet(S \ {x}) /\ Cardinality(S \ {x}) = n - 1
    BY FS_RemoveElement
  <2>2. Below(x) \in SUBSET (S \ {x})
    OBVIOUS
  <2> HIDE DEF n
  <2>3. IsFiniteSet(Below(x)) /\ Cardinality(Below(x)) <= n - 1
    BY <2>1, <2>2, FS_Subset, Zenon
  <2>4. x \notin Below(x) /\ rank[x] = Cardinality(Below(x))
    BY <2>2
  <2> HIDE DEF Below, rank
  <2>5. Cardinality(Below(x)) \in Nat
    BY <2>3, FS_CardinalityType
  <2>6. Cardinality(Below(x) \cup {x}) = Cardinality(Below(x)) + 1
    BY <2>3, <2>4, FS_AddElement
  <2>7. QED
    BY <1>1, <2>3, <2>4, <2>5, <2>6
<1>3. ASSUME NEW x \in S, NEW y \in S, x < y
      PROVE  rank[x] < rank[y]
  <2>0. x \in Nat /\ y \in Nat /\ \A m \in S : m \in Nat
    OBVIOUS
  <2>1. Below(x) \cup {x} \in SUBSET Below(y)
    <3>1. x \in Below(y)
      BY <1>3, <2>0
    <3>2. \A m \in Below(x) : m \in S /\ m < y
      BY <1>3, <2>0
    <3>3. QED
      BY <3>1, <3>2
  <2>2. rank[y] = Cardinality(Below(y))
    OBVIOUS
  <2> HIDE DEF Below, rank
  <2>3. Cardinality(Below(x) \cup {x}) <= Cardinality(Below(y))
    BY <1>2, <2>1, FS_Subset
  <2>4. rank[x] + 1 <= rank[y]
    BY <1>2, <2>2, <2>3
  <2>5. rank[x] \in Int /\ rank[y] \in Int
    <3> HIDE DEF n
    <3>1. rank[x] \in 0..(n - 1) /\ rank[y] \in 0..(n - 1)
      BY <1>2
    <3>2. QED
      BY <1>1, <3>1
  <2>6. QED
    BY <2>4, <2>5
<1>4. \A x, y \in S : rank[x] = rank[y] => x = y
  <2> HIDE DEF rank
  <2>1. \A x, y \in S : rank[x] \in Int /\ (x < y => rank[x] < rank[y])
    <3> HIDE DEF n
    <3>1. \A x \in S : rank[x] \in 0..(n - 1)
      BY <1>2
    <3>2. QED
      BY <1>1, <1>3, <3>1
  <2>2. QED
    BY <2>1
<1>5. \A k \in 0..(n - 1) : \E x \in S : rank[x] = k
  <2>1. rank \in [S -> 0..(n - 1)]
    BY <1>2
  <2>2. rank \in Injection(S, 0..(n - 1))
    BY <1>4, <2>1 DEF Injection, IsInjective
  <2>3. IsFiniteSet(0..(n - 1)) /\ Cardinality(0..(n - 1)) = n
    <3> HIDE DEF n
    <3>1. 0 \in Int /\ n - 1 \in Int /\ (0 > n - 1 => n = 0) /\ n - 1 - 0 + 1 = n
      BY <1>1
    <3>2. QED
      BY <3>1, FS_Interval
  <2>4. rank \in Surjection(S, 0..(n - 1))
    BY <2>2, <2>3, FS_Injection
  <2>5. QED
    BY <2>4 DEF Surjection
<1>6. \A i \in 1..n : list[i] \in S /\ rank[list[i]] = i - 1
  <2> SUFFICES ASSUME NEW i \in 1..n PROVE list[i] \in S /\ rank[list[i]] = i - 1
    OBVIOUS
  <2>1. i - 1 \in 0..(n - 1)
    BY <1>1
  <2>2. \E x \in S : Cardinality(Below(x)) = i - 1
    BY <1>5, <2>1
  <2>3. list[i] = CHOOSE x \in S : Cardinality(Below(x)) = i - 1
    BY DEF Ascending
  <2>4. QED
    BY <2>2, <2>3
<1>7. list \in [1..n -> S]
  <2> DEFINE f(i) == CHOOSE x \in S : Cardinality({m \in S : m < x}) = i - 1
  <2>1. list = [i \in 1..n |-> f(i)]
    BY DEF Ascending
  <2> HIDE DEF list, f
  <2>2. QED
    BY <1>6, <2>1
<1> HIDE DEF list, rank
<1>8. ASSUME NEW j \in 1..n, NEW k \in 1..n, j < k
      PROVE  list[j] < list[k]
  <2>1. /\ list[j] \in S /\ list[k] \in S
        /\ rank[list[j]] = j - 1 /\ rank[list[k]] = k - 1
    BY <1>6
  <2>2. list[k] < list[j] => rank[list[k]] < rank[list[j]]
    BY <1>3, <2>1
  <2>3. list[j] # list[k]
    BY <1>1, <1>8, <2>1
  <2>4. list[j] \in Nat /\ list[k] \in Nat
    BY <2>1
  <2>5. QED
    BY <1>1, <1>8, <2>1, <2>2, <2>3, <2>4
<1>9. ASSUME NEW x \in S PROVE \E j \in 1..n : list[j] = x
  <2> DEFINE j == rank[x] + 1
  <2>1. rank[x] \in 0..(n - 1)
    BY <1>2
  <2>2. j \in 1..n /\ j - 1 = rank[x]
    BY <1>1, <2>1
  <2>3. list[j] \in S /\ rank[list[j]] = rank[x]
    BY <1>6, <2>2
  <2>4. QED
    BY <1>4, <2>2, <2>3
<1>10. \A j, k \in 1..n : j < k => list[j] < list[k]
  BY <1>8
<1>11. \A x \in S : \E j \in 1..n : list[j] = x
  BY <1>9
<1> HIDE DEF n
<1>12. Enumerates(list, n, S)
  BY <1>1, <1>7, <1>10, <1>11 DEF Enumerates
<1>13. QED
  BY <1>12 DEF list, n

\* A list of some of the numbers up to k, with the least first and the greatest last.
Lists(list, n, S) ==
  /\ n \in Nat /\ list \in [1..n -> S] /\ list \in Seq(S) /\ Len(list) = n /\ DOMAIN list = 1..n
  /\ \A i, j \in 1..n : i < j => list[i] < list[j]
  /\ \A x \in S : \E i \in 1..n : list[i] = x
  /\ S # {} => n >= 1 /\ \A x \in S : list[1] <= x /\ x <= list[n]

\* In the order of the numbers, the least of them first.
LEMMA AscendingLists ==
  ASSUME NEW k \in Nat, NEW S \in SUBSET (1..k)
  PROVE  Lists(Ascending(S), Cardinality(S), S)
<1> DEFINE list == Ascending(S)
           n == Cardinality(S)
<1>1. IsFiniteSet(S) /\ S \in SUBSET Nat
  <2>1. IsFiniteSet(1..k)
    BY FS_Interval
  <2>2. IsFiniteSet(S)
    BY <2>1, FS_Subset, Zenon
  <2>3. QED
    BY <2>2
<1>2. Enumerates(list, n, S)
  BY <1>1, AscendingEnumerates
<1> HIDE DEF list, n
<1>3. /\ n \in Nat /\ list \in [1..n -> S]
      /\ \A i, j \in 1..n : i < j => list[i] < list[j]
      /\ \A x \in S : \E i \in 1..n : list[i] = x
  BY <1>2 DEF Enumerates
<1>4. list \in Seq(S) /\ Len(list) = n /\ DOMAIN list = 1..n
  BY <1>3, FunctionIsSeq
<1>5. ASSUME NEW x \in S PROVE n >= 1 /\ list[1] <= x /\ x <= list[n]
  <2>1. PICK i \in 1..n : list[i] = x
    BY <1>3
  <2>2. n \in Nat /\ 1 \in 1..n /\ n \in 1..n /\ i \in Nat /\ 1 <= i /\ i <= n
    BY <1>3
  <2>3. list[1] \in Nat /\ list[n] \in Nat /\ list[i] \in Nat
    <3>1. list[1] \in S /\ list[n] \in S /\ list[i] \in S
      BY <1>3, <2>2
    <3>2. QED
      BY <1>1, <3>1
  <2>4. (1 < i => list[1] < list[i]) /\ (i < n => list[i] < list[n])
    BY <1>3, <2>2
  <2>5. (1 = i => list[1] = x) /\ (i = n => list[n] = x)
    BY <2>1
  <2>6. (1 < i \/ 1 = i) /\ (i < n \/ i = n)
    BY <1>3, <2>2
  <2>7. QED
    BY <1>3, <2>1, <2>2, <2>3, <2>4, <2>5, <2>6
<1>6. Lists(list, n, S)
  BY <1>3, <1>4, <1>5 DEF Lists
<1>7. QED
  BY <1>6 DEF list, n

\* Patches are of places of the sheet.
PatchList(patches) ==
  /\ IsSeq(patches)
  /\ \A i \in DOMAIN patches :
       patches[i].row \in 1..MaxOf["row"] /\ patches[i].col \in 1..MaxOf["col"]

PatchedRows(patches) == {p[1] : p \in Patched(patches)}
PatchedCols(patches) == {p[2] : p \in Patched(patches)}

\* A patch is of a place on the sheet.
LEMMA PatchedPlaces ==
  ASSUME NEW patches, PatchList(patches)
  PROVE  /\ \A p \in Patched(patches) :
              p = <<p[1], p[2]>> /\ p[1] \in 1..MaxOf["row"] /\ p[2] \in 1..MaxOf["col"]
         /\ PatchedRows(patches) \in SUBSET (1..MaxOf["row"])
         /\ PatchedCols(patches) \in SUBSET (1..MaxOf["col"])
         /\ \A r : ColsOf(patches, r) \in SUBSET (1..MaxOf["col"])
         /\ \A r, c : c \in ColsOf(patches, r) <=> <<r, c>> \in Patched(patches)
<1>1. \A p \in Patched(patches) :
        p = <<p[1], p[2]>> /\ p[1] \in 1..MaxOf["row"] /\ p[2] \in 1..MaxOf["col"]
  BY DEF PatchList, Patched, PlaceOf
<1>2. \A r, c : c \in ColsOf(patches, r) <=> <<r, c>> \in Patched(patches)
  BY <1>1 DEF ColsOf
<1>3. QED
  BY <1>1, <1>2 DEF PatchedRows, PatchedCols, ColsOf

\* The style of a column is that of the only span that it is in.
LEMMA ColumnStyles ==
  ASSUME NEW spans, SheetSpans(spans), NEW c \in Int
  PROVE  The(StylesAt(spans, c), DefaultStyle) = ColStyle(spans, c)
<1> DEFINE of == Styling(spans, c)
<1>1. /\ Len(spans) \in Nat /\ DOMAIN spans = 1..Len(spans)
      /\ \A i \in DOMAIN spans : IsSpan(spans[i])
      /\ \A i, j \in DOMAIN spans : i < j => spans[i].max < spans[j].min
  BY SpansAreApart
<1>2. ToSet(spans) = {spans[i] : i \in DOMAIN spans}
  BY DEF ToSet
<1>3. StylesAt(spans, c) = {spans[i].style : i \in of}
  BY <1>2 DEF StylesAt, Styling
<1>4. CASE of = {}
  <2>1. StylesAt(spans, c) = {}
    BY <1>3, <1>4
  <2>2. QED
    BY <1>4, <2>1 DEF The, ColStyle
<1>5. CASE of # {}
  <2>1. PICK i \in of : TRUE
    BY <1>5
  <2>2. ASSUME NEW j \in of PROVE j = i
    <3>1. /\ i \in DOMAIN spans /\ j \in DOMAIN spans /\ i \in Int /\ j \in Int
          /\ c \in spans[i].min..spans[i].max /\ c \in spans[j].min..spans[j].max
      BY <1>1 DEF Styling
    <3>2. IsSpan(spans[i]) /\ IsSpan(spans[j])
      BY <1>1, <3>1
    <3>3. (i < j => spans[i].max < spans[j].min) /\ (j < i => spans[j].max < spans[i].min)
      BY <1>1, <3>1
    <3>4. QED
      BY <3>1, <3>2, <3>3 DEF IsSpan
  <2>3. of = {i}
    BY <2>1, <2>2
  <2>4. i \in Nat
    BY <1>1, <2>1 DEF Styling
  <2> HIDE DEF of
  <2>5. Min(of) = i
    BY <2>3, <2>4, MinIsLeast
  <2>6. StylesAt(spans, c) = {spans[i].style}
    BY <1>3, <2>3
  <2>7. The({spans[i].style}, DefaultStyle) = spans[i].style
    BY DEF The
  <2>8. ColStyle(spans, c) = spans[i].style
    BY <1>5, <2>5 DEF ColStyle, of
  <2>9. QED
    BY <2>6, <2>7, <2>8
<1>6. QED
  BY <1>4, <1>5

-----------------------------------------------------------------------------
(* One row. *)

RowFields == {"r", "at", "style", "spans", "cells"}
CellFields == {"col", "value", "style"}

Has(row, c) == \E i \in DOMAIN row.cells : row.cells[i].col = c
OnePerColumn(row) ==
  \A i, j \in DOMAIN row.cells : row.cells[i].col = row.cells[j].col => i = j

\* What a row shows in a column, and a cell with its patch.
Default(row, styles, c) ==
  [col |-> c, value |-> Blank, style |-> The(row.style, The(StylesAt(styles, c), DefaultStyle))]
CellsIn(row, c) == {row.cells[i] : i \in {k \in DOMAIN row.cells : row.cells[k].col = c}}
CellIn(row, styles, c) == The(CellsIn(row, c), Default(row, styles, c))
AsPatched(cell, patches, place) ==
  IF place \in Patched(patches) THEN PatchedCell(cell, PatchOf(patches, place)) ELSE cell

\* new is row with its patches.
RowFollows(row, new, styles, patches) ==
  /\ new.at = row.at /\ new.style = row.style
  /\ OnePerColumn(new)
  /\ \A c : Has(new, c) <=> Has(row, c) \/ <<row.at, c>> \in Patched(patches)
  /\ \A i \in DOMAIN new.cells :
       new.cells[i] = AsPatched(CellIn(row, styles, new.cells[i].col), patches,
                                <<row.at, new.cells[i].col>>)
  /\ row.spans # {} =>
       \A s \in new.spans : \A i \in DOMAIN new.cells : new.cells[i].col \in s[1]..s[2]

\* A row shows the cell that it has in a column, and its style where it has none.
LEMMA CellsInRow ==
  ASSUME NEW row, OnePerColumn(row), NEW styles
  PROVE  /\ \A i \in DOMAIN row.cells : CellIn(row, styles, row.cells[i].col) = row.cells[i]
         /\ \A c : ~Has(row, c) => CellIn(row, styles, c) = Default(row, styles, c)
<1>1. ASSUME NEW i \in DOMAIN row.cells
      PROVE  CellIn(row, styles, row.cells[i].col) = row.cells[i]
  <2>1. CellsIn(row, row.cells[i].col) = {row.cells[i]}
    BY DEF CellsIn, OnePerColumn
  <2>2. QED
    BY <2>1 DEF CellIn, The
<1>2. ASSUME NEW c, ~Has(row, c) PROVE CellIn(row, styles, c) = Default(row, styles, c)
  <2>1. CellsIn(row, c) = {}
    BY <1>2 DEF CellsIn, Has
  <2>2. QED
    BY <2>1 DEF CellIn, The
<1>3. QED
  BY <1>1, <1>2

\* A row with its patches shows them, and the rest as it was.
LEMMA FollowingRowShows ==
  ASSUME NEW row, OnePerColumn(row), NEW new, NEW styles, NEW patches,
         RowFollows(row, new, styles, patches), NEW c
  PROVE  CellIn(new, styles, c) = AsPatched(CellIn(row, styles, c), patches, <<row.at, c>>)
<1>1. OnePerColumn(new)
  BY DEF RowFollows
<1>2. CASE Has(new, c)
  <2>1. PICK i \in DOMAIN new.cells : new.cells[i].col = c
    BY <1>2 DEF Has
  <2>2. CellIn(new, styles, c) = new.cells[i]
    BY <1>1, <2>1, CellsInRow
  <2>3. new.cells[i] = AsPatched(CellIn(row, styles, new.cells[i].col), patches,
                                 <<row.at, new.cells[i].col>>)
    BY DEF RowFollows
  <2>4. QED
    BY <2>1, <2>2, <2>3
<1>3. CASE ~Has(new, c)
  <2>1. ~Has(row, c) /\ <<row.at, c>> \notin Patched(patches)
    BY <1>3 DEF RowFollows
  <2>2. CellIn(new, styles, c) = Default(new, styles, c)
    BY <1>1, <1>3, CellsInRow
  <2>3. CellIn(row, styles, c) = Default(row, styles, c)
    BY <2>1, CellsInRow
  <2>4. Default(new, styles, c) = Default(row, styles, c)
    BY DEF Default, RowFollows
  <2>5. QED
    BY <2>1, <2>2, <2>3, <2>4 DEF AsPatched
<1>4. QED
  BY <1>2, <1>3

\* A patch leaves a cell in its column.
LEMMA PatchedCellStays ==
  ASSUME NEW cell, DOMAIN cell = CellFields, NEW p
  PROVE  PatchedCell(cell, p).col = cell.col
BY DEF PatchedCell, CellFields

\* What the shape of a row says of its cells.
LEMMA RowsAreShaped ==
  ASSUME NEW row, RowShape(row)
  PROVE  /\ DOMAIN row = RowFields /\ IsSeq(row.cells) /\ OnePerColumn(row)
         /\ row.at \in 1..MaxOf["row"] /\ row.at \in Nat
         /\ \A i \in DOMAIN row.cells :
              DOMAIN row.cells[i] = CellFields /\ row.cells[i].col \in 1..MaxOf["col"]
BY DEF RowShape, RowFields, CellFields, OnePerColumn, IsSeq

\* The cells that are there, with their patches.
CellsFollow(row, cells, styles, patches) ==
  /\ DOMAIN cells = DOMAIN row.cells /\ IsSeq(cells) /\ Len(cells) = Len(row.cells)
  /\ \A i \in DOMAIN row.cells :
       /\ cells[i].col = row.cells[i].col
       /\ cells[i] = AsPatched(CellIn(row, styles, cells[i].col), patches, <<row.at, cells[i].col>>)

\* Every cell of a row is the cell that was there, patched if it has a patch.
LEMMA PatchedCellsAre ==
  ASSUME NEW row, RowShape(row), NEW patches, NEW styles
  PROVE  CellsFollow(row, PatchedCells(row.cells, row.at, patches), styles, patches)
<1> DEFINE cells == row.cells
           new == PatchedCells(cells, row.at, patches)
           n == Len(cells)
<1>1. /\ n \in Nat /\ DOMAIN cells = 1..n /\ OnePerColumn(row)
      /\ \A i \in DOMAIN cells : DOMAIN cells[i] = CellFields
  BY RowsAreShaped, SequencesAre
<1>2. DOMAIN new = 1..n
  BY <1>1 DEF PatchedCells
<1>3. \A i \in 1..n : new[i] = AsPatched(cells[i], patches, <<row.at, cells[i].col>>)
  BY <1>1 DEF PatchedCells, AsPatched
<1>4. IsSeq(new) /\ Len(new) = n
  <2>1. new = [i \in 1..n |-> AsPatched(cells[i], patches, <<row.at, cells[i].col>>)]
    BY <1>1 DEF PatchedCells, AsPatched
  <2> HIDE DEF n, cells
  <2>2. new \in [1..n -> {new[i] : i \in 1..n}]
    BY <2>1
  <2> HIDE DEF new
  <2>3. new \in Seq({new[i] : i \in 1..n}) /\ Len(new) = n
    BY <1>1, <2>2, FunctionIsSeq
  <2>4. ToSet(new) = {new[i] : i \in 1..n}
    BY <1>2 DEF ToSet
  <2>5. QED
    BY <2>3, <2>4 DEF IsSeq
<1> HIDE DEF new
<1>5. \A i \in 1..n : new[i].col = cells[i].col
  <2> SUFFICES ASSUME NEW i \in 1..n PROVE new[i].col = cells[i].col
    OBVIOUS
  <2>1. DOMAIN cells[i] = CellFields
    BY <1>1
  <2>2. \A p : PatchedCell(cells[i], p).col = cells[i].col
    BY <2>1, PatchedCellStays
  <2>3. QED
    BY <1>3, <2>2 DEF AsPatched
<1>6. \A i \in 1..n : cells[i] = CellIn(row, styles, cells[i].col)
  BY <1>1, CellsInRow
<1>7. \A i \in 1..n : new[i] = AsPatched(CellIn(row, styles, new[i].col), patches, <<row.at, new[i].col>>)
  BY <1>3, <1>5, <1>6
<1>8. QED
  BY <1>1, <1>2, <1>4, <1>5, <1>7 DEF new, CellsFollow

-----------------------------------------------------------------------------
(* New cells. *)

ColsThere(row) == {row.cells[i].col : i \in DOMAIN row.cells}

\* A new cell is the cell that the row showed in its column, patched.
LEMMA NewCellIs ==
  ASSUME NEW row, NEW styles, SheetSpans(styles), NEW patches, NEW c \in Int,
         <<row.r, c>> \in Patched(patches)
  PROVE  /\ NewCell(row, styles, patches, c).col = c
         /\ NewCell(row, styles, patches, c)
              = AsPatched(Default(row, styles, c), patches, <<row.r, c>>)
<1> DEFINE blank == [col |-> c, value |-> Blank, style |-> Inherited(row, styles, c)]
<1>1. blank = Default(row, styles, c)
  BY ColumnStyles DEF Inherited, Default
<1>2. DOMAIN blank = CellFields /\ blank.col = c
  BY DEF CellFields
<1>3. NewCell(row, styles, patches, c) = PatchedCell(blank, PatchOf(patches, <<row.r, c>>))
  BY DEF NewCell
<1> HIDE DEF blank
<1>4. PatchedCell(blank, PatchOf(patches, <<row.r, c>>)).col = c
  BY <1>2, PatchedCellStays
<1>5. QED
  BY <1>1, <1>3, <1>4 DEF AsPatched

\* They stand behind the others, in the order of a list of their columns.
Completes(row, new, styles, patches, S, list) ==
  LET n == Len(row.cells)
      m == Cardinality(S)
  IN /\ new.at = row.at /\ new.r = row.r /\ new.style = row.style /\ new.spans = row.spans
     /\ Lists(list, m, S) /\ n \in Nat
     /\ DOMAIN new.cells = 1..(n + m)
     /\ \A i \in 1..n : new.cells[i] = row.cells[i]
     /\ \A i \in 1..m : new.cells[n + i] = NewCell(row, styles, patches, list[i])

\* The new cells of a row are those of the columns without one, behind the others.
LEMMA NewCellsStandBehind ==
  ASSUME NEW row, DOMAIN row = RowFields, IsSeq(row.cells), NEW styles, NEW patches, PatchList(patches)
  PROVE  LET S == ColsOf(patches, row.r) \ ColsThere(row)
         IN Completes(row, WithNewCells(row, styles, patches), styles, patches, S, Ascending(S))
<1> DEFINE new == WithNewCells(row, styles, patches)
           S == ColsOf(patches, row.r) \ ColsThere(row)
           list == Ascending(S)
           cells == row.cells
           n == Len(cells)
           m == Cardinality(S)
           more == [i \in DOMAIN list |-> NewCell(row, styles, patches, list[i])]
           D == ToSet(cells) \cup {NewCell(row, styles, patches, c) : c \in S}
<1>1. n \in Nat /\ DOMAIN cells = 1..n
  BY SequencesAre
<1>2. Lists(list, m, S)
  <2>1. S \in SUBSET (1..MaxOf["col"])
    BY PatchedPlaces
  <2>2. MaxOf["col"] \in Nat
    BY Sizes DEF Axes
  <2> HIDE DEF S
  <2>3. QED
    BY <2>1, <2>2, AscendingLists
<1>3. new = [row EXCEPT !.cells = cells \o more]
  BY DEF WithNewCells, ColsThere
<1> HIDE DEF S, list, m
<1>4. m \in Nat /\ DOMAIN list = 1..m /\ \A i \in 1..m : list[i] \in S
  BY <1>2 DEF Lists
<1>5. more \in [1..m -> D]
  BY <1>4
<1>6. more \in Seq(D) /\ Len(more) = m
  <2> HIDE DEF more, D
  <2>1. QED
    BY <1>4, <1>5, FunctionIsSeq
<1>7. cells \in Seq(D)
  BY DEF IsSeq
<1>8. \A i \in 1..m : more[i] = NewCell(row, styles, patches, list[i])
  BY <1>4
<1> HIDE DEF more, D, cells, n, new
<1>9. /\ cells \o more \in Seq(D) /\ Len(cells \o more) = n + m
      /\ \A i \in 1..n : (cells \o more)[i] = cells[i]
      /\ \A i \in 1..m : (cells \o more)[n + i] = more[i]
  BY <1>1, <1>4, <1>6, <1>7 DEF n
<1>10. new.cells = cells \o more
  BY <1>3 DEF RowFields
<1>11. new.at = row.at /\ new.r = row.r /\ new.style = row.style /\ new.spans = row.spans
  BY <1>3 DEF RowFields
<1>12. DOMAIN new.cells = 1..(n + m)
  BY <1>9, <1>10
<1>13. QED
  BY <1>1, <1>2, <1>8, <1>9, <1>10, <1>11, <1>12 DEF Completes, new, S, list, n, m, cells

\* A row whose cells are patched and completed shows the patches.
LEMMA CompletedRowFollows ==
  ASSUME NEW row, RowShape(row), NEW styles, SheetSpans(styles), NEW patches, PatchList(patches),
         NEW mid, DOMAIN mid = RowFields, mid.at = row.at, mid.r = row.at, mid.style = row.style,
         mid.cells = PatchedCells(row.cells, row.at, patches),
         row.spans # {} =>
           \A s \in mid.spans : \A c : Has(row, c) \/ c \in ColsOf(patches, row.at) => c \in s[1]..s[2]
  PROVE  RowFollows(row, WithNewCells(mid, styles, patches), styles, patches)
<1> DEFINE new == WithNewCells(mid, styles, patches)
           at == row.at
           S == ColsOf(patches, mid.r) \ ColsThere(mid)
           list == Ascending(S)
           n == Len(mid.cells)
           m == Cardinality(S)
           Good(cell) == cell = AsPatched(CellIn(row, styles, cell.col), patches, <<at, cell.col>>)
<1>1. /\ DOMAIN mid.cells = DOMAIN row.cells /\ IsSeq(mid.cells) /\ Len(mid.cells) = Len(row.cells)
      /\ \A i \in DOMAIN row.cells : mid.cells[i].col = row.cells[i].col /\ Good(mid.cells[i])
  <2>1. CellsFollow(row, mid.cells, styles, patches)
    BY PatchedCellsAre, Zenon
  <2> HIDE DEF at
  <2>2. QED
    BY <2>1 DEF CellsFollow, at
<1>2. /\ new.at = at /\ new.style = row.style /\ new.spans = mid.spans
      /\ Lists(list, m, S) /\ n \in Nat
      /\ DOMAIN new.cells = 1..(n + m)
      /\ \A i \in 1..n : new.cells[i] = mid.cells[i]
      /\ \A i \in 1..m : new.cells[n + i] = NewCell(mid, styles, patches, list[i])
  <2>1. IsSeq(mid.cells)
    BY <1>1
  <2>2. Completes(mid, new, styles, patches, S, list)
    BY <2>1, NewCellsStandBehind
  <2> HIDE DEF new, list, S
  <2>3. QED
    BY <2>2 DEF Completes
<1>3. OnePerColumn(row) /\ DOMAIN row.cells = 1..n
  BY <1>1, RowsAreShaped, SequencesAre
<1>4. \A c : c \in ColsThere(mid) <=> Has(row, c)
  BY <1>1 DEF ColsThere, Has
<1>5. \A c \in S : c \in Int /\ <<at, c>> \in Patched(patches) /\ ~Has(row, c)
  BY <1>4, PatchedPlaces
<1>6. \A c : <<at, c>> \in Patched(patches) => c \in S \/ Has(row, c)
  BY <1>4, PatchedPlaces
<1>7. /\ m \in Nat /\ \A i \in 1..m : list[i] \in S
      /\ \A i, j \in 1..m : i < j => list[i] < list[j]
      /\ \A c \in S : \E i \in 1..m : list[i] = c
  BY <1>2 DEF Lists
<1> HIDE DEF S, list, m, n, new, at, Good
<1>8. ASSUME NEW i \in 1..m
      PROVE  new.cells[n + i].col = list[i] /\ Good(new.cells[n + i])
  <2> DEFINE c == list[i]
             cell == NewCell(mid, styles, patches, c)
  <2>1. c \in Int /\ <<mid.r, c>> \in Patched(patches) /\ ~Has(row, c)
    BY <1>5, <1>7 DEF at
  <2> HIDE DEF c
  <2>2. cell.col = c /\ cell = AsPatched(Default(mid, styles, c), patches, <<mid.r, c>>)
    BY <2>1, NewCellIs
  <2>3. Default(mid, styles, c) = Default(row, styles, c)
    BY DEF Default
  <2>4. CellIn(row, styles, c) = Default(row, styles, c)
    BY <1>3, <2>1, CellsInRow
  <2>5. Good(cell)
    BY <2>2, <2>3, <2>4 DEF Good, at
  <2>6. new.cells[n + i] = cell
    BY <1>2 DEF c
  <2>7. QED
    BY <2>2, <2>5, <2>6 DEF c
<1>9. \A i \in 1..n : new.cells[i].col = row.cells[i].col /\ Good(new.cells[i])
  BY <1>1, <1>2, <1>3
<1>10. \A i \in DOMAIN new.cells : i \in 1..n \/ \E j \in 1..m : i = n + j
  <2>1. \A i \in 1..(n + m) : i \in 1..n \/ (i - n \in 1..m /\ i = n + (i - n))
    BY <1>2, <1>7
  <2>2. QED
    BY <1>2, <2>1
<1>11. \A i \in 1..n : i \in DOMAIN new.cells /\ Has(row, new.cells[i].col)
  BY <1>2, <1>3, <1>7, <1>9 DEF Has
<1>12. \A i \in 1..m : n + i \in DOMAIN new.cells /\ new.cells[n + i].col \in S
  <2> SUFFICES ASSUME NEW i \in 1..m
               PROVE  n + i \in DOMAIN new.cells /\ new.cells[n + i].col \in S
    OBVIOUS
  <2>1. n + i \in 1..(n + m)
    BY <1>2, <1>7
  <2>2. new.cells[n + i].col = list[i] /\ list[i] \in S
    BY <1>7, <1>8
  <2>3. QED
    BY <1>2, <2>1, <2>2
<1>13. OnePerColumn(new)
  <2> SUFFICES ASSUME NEW i \in DOMAIN new.cells, NEW j \in DOMAIN new.cells,
                      new.cells[i].col = new.cells[j].col
               PROVE  i = j
    BY DEF OnePerColumn
  <2>1. CASE i \in 1..n /\ j \in 1..n
    BY <1>3, <1>9, <2>1 DEF OnePerColumn
  <2>2. CASE \E k \in 1..m : i = n + k /\ j \in 1..n
    BY <1>5, <1>11, <1>12, <2>2
  <2>3. CASE \E k \in 1..m : j = n + k /\ i \in 1..n
    BY <1>5, <1>11, <1>12, <2>3
  <2>4. CASE \E k \in 1..m, l \in 1..m : i = n + k /\ j = n + l
    <3>1. PICK k \in 1..m, l \in 1..m : i = n + k /\ j = n + l
      BY <2>4
    <3>2. list[k] = list[l]
      BY <1>8, <3>1
    <3>3. list[k] \in Int /\ k \in Int /\ l \in Int
      <4>1. list[k] \in S /\ m \in Nat
        BY <1>7
      <4>2. list[k] \in Int
        BY <1>5, <4>1
      <4>3. QED
        BY <4>1, <4>2
    <3>4. ~(k < l) /\ ~(l < k)
      BY <1>7, <3>2, <3>3
    <3>5. QED
      BY <3>1, <3>3, <3>4
  <2>5. QED
    BY <1>10, <2>1, <2>2, <2>3, <2>4
<1>14. \A c : Has(new, c) <=> Has(row, c) \/ <<at, c>> \in Patched(patches)
  <2>1. ASSUME NEW c, Has(new, c) PROVE Has(row, c) \/ <<at, c>> \in Patched(patches)
    <3>1. PICK i \in DOMAIN new.cells : new.cells[i].col = c
      BY <2>1 DEF Has
    <3>2. QED
      BY <1>5, <1>10, <1>11, <1>12, <3>1
  <2>2. ASSUME NEW c, Has(row, c) PROVE Has(new, c)
    <3>1. PICK i \in 1..n : row.cells[i].col = c
      BY <1>3, <2>2 DEF Has
    <3>2. QED
      BY <1>9, <1>11, <3>1 DEF Has
  <2>3. ASSUME NEW c \in S PROVE Has(new, c)
    <3>1. PICK i \in 1..m : list[i] = c
      BY <1>7
    <3>2. QED
      BY <1>8, <1>12, <3>1 DEF Has
  <2>4. QED
    BY <1>6, <2>1, <2>2, <2>3
<1>15. \A i \in DOMAIN new.cells : Good(new.cells[i])
  BY <1>8, <1>9, <1>10
<1>16. row.spans # {} => \A s \in new.spans : \A i \in DOMAIN new.cells : new.cells[i].col \in s[1]..s[2]
  <2> SUFFICES ASSUME row.spans # {}, NEW s \in mid.spans, NEW i \in DOMAIN new.cells
               PROVE  new.cells[i].col \in s[1]..s[2]
    BY <1>2
  <2>1. Has(new, new.cells[i].col)
    BY DEF Has
  <2>2. Has(row, new.cells[i].col) \/ new.cells[i].col \in ColsOf(patches, row.at)
    BY <1>14, <2>1, PatchedPlaces DEF at
  <2>3. QED
    BY <2>2
<1>17. RowFollows(row, new, styles, patches)
  BY <1>2, <1>13, <1>14, <1>15, <1>16 DEF RowFollows, Good, at
<1>18. QED
  BY <1>17 DEF new

-----------------------------------------------------------------------------
(* The rows of both patchers. *)

\* The general patcher, where the element of the row has its number.
LEMMA SpansHoldTheRow ==
  ASSUME NEW row, RowShape(row), NEW patches, PatchList(patches), row.spans # {},
         NEW s \in MergedSpans(row, ColsOf(patches, row.at)),
         NEW c, Has(row, c) \/ c \in ColsOf(patches, row.at)
  PROVE  c \in s[1]..s[2]
<1> DEFINE cols == ColsOf(patches, row.at)
           own == Ascending(cols)
           n == Cardinality(cols)
<1>1. PICK t \in row.spans : TRUE
  OBVIOUS
<1>2. /\ t \in Nat \X Nat
      /\ \A i \in DOMAIN row.cells : row.cells[i].col \in t[1]..t[2]
      /\ row.spans = {t}
  BY <1>1 DEF RowShape
<1>3. Has(row, c) => c \in t[1]..t[2]
  BY <1>2 DEF Has
<1>4. CASE cols = {}
  <2>1. s \in row.spans
    BY <1>4 DEF MergedSpans
  <2>2. QED
    BY <1>2, <1>3, <1>4, <2>1
<1>5. CASE cols # {}
  <2>1. cols \in SUBSET (1..MaxOf["col"]) /\ MaxOf["col"] \in Nat
    BY PatchedPlaces, Sizes DEF Axes
  <2> HIDE DEF cols
  <2>2. Lists(own, n, cols)
    BY <2>1, AscendingLists
  <2> HIDE DEF own, n
  <2>3. /\ Len(own) = n /\ n \in Nat /\ n >= 1 /\ own \in [1..n -> cols]
        /\ \A x \in cols : own[1] <= x /\ x <= own[n]
    BY <1>5, <2>2 DEF Lists
  <2>4. own[1] \in cols /\ own[n] \in cols
    BY <2>3
  <2>5. own[1] \in Nat /\ own[n] \in Nat
    BY <2>1, <2>4
  <2>6. The(row.spans, <<own[1], own[Len(own)]>>) = t
    BY <1>2 DEF The
  <2>7. s = <<Lo(t[1], own[1]), Hi(t[2], own[n])>>
    <3>1. s \in {<<Lo(t[1], own[1]), Hi(t[2], own[Len(own)])>>}
      BY <1>5, <2>6 DEF MergedSpans, own, cols
    <3>2. QED
      BY <2>3, <3>1
  <2>8. c \in cols => c \in Nat /\ own[1] <= c /\ c <= own[n]
    BY <2>1, <2>3
  <2>9. t[1] \in Nat /\ t[2] \in Nat
    BY <1>2
  <2>10. c \in t[1]..t[2] \/ c \in cols
    BY <1>3 DEF cols
  <2>11. s[1] = Lo(t[1], own[1]) /\ s[2] = Hi(t[2], own[n])
    BY <2>7
  <2>12. QED
    BY <2>5, <2>8, <2>9, <2>10, <2>11 DEF Lo, Hi
<1>6. QED
  BY <1>4, <1>5

\* write_row_with_patches: a row that is rewritten shows its cells, patched.
LEMMA RewrittenRowFollows ==
  ASSUME NEW row, RowShape(row), row.r = row.at, NEW styles, SheetSpans(styles),
         NEW patches, PatchList(patches)
  PROVE  RowFollows(row, RewrittenRow(row, styles, patches), styles, patches)
<1> DEFINE spans == MergedSpans(row, ColsOf(patches, row.at))
           cells == PatchedCells(row.cells, row.at, patches)
           mid == [row EXCEPT !.spans = spans, !.cells = cells]
<1>1. DOMAIN row = RowFields
  BY RowsAreShaped
<1>2. row.spans # {} =>
        \A s \in spans : \A c : Has(row, c) \/ c \in ColsOf(patches, row.at) => c \in s[1]..s[2]
  BY SpansHoldTheRow
<1>3. RewrittenRow(row, styles, patches) = WithNewCells(mid, styles, patches)
  BY DEF RewrittenRow
<1> HIDE DEF spans, cells
<1>4. /\ DOMAIN mid = RowFields /\ mid.at = row.at /\ mid.r = row.at /\ mid.style = row.style
      /\ mid.spans = spans /\ mid.cells = cells
  BY <1>1 DEF RowFields
<1> HIDE DEF mid
<1>5. mid.cells = PatchedCells(row.cells, row.at, patches)
  BY <1>4 DEF cells
<1>6. row.spans # {} =>
        \A s \in mid.spans : \A c : Has(row, c) \/ c \in ColsOf(patches, row.at) => c \in s[1]..s[2]
  BY <1>2, <1>4
<1>7. RowFollows(row, WithNewCells(mid, styles, patches), styles, patches)
  BY <1>4, <1>5, <1>6, CompletedRowFollows
<1>8. QED
  BY <1>3, <1>7

\* A row that is not there.
EmptyRow(n) == [r |-> n, at |-> n, style |-> {}, spans |-> {}, cells |-> <<>>]

\* It has the shape of a row.
LEMMA EmptyRowIs ==
  ASSUME NEW n \in 1..MaxOf["row"]
  PROVE  RowShape(EmptyRow(n)) /\ EmptyRow(n).at = n
<1> DEFINE row == EmptyRow(n)
<1>1. /\ row.r = n /\ row.at = n /\ row.spans = {} /\ row.cells = <<>>
      /\ DOMAIN row = {"r", "at", "style", "spans", "cells"}
  BY DEF EmptyRow
<1>2. DOMAIN <<>> = {} /\ <<>> \in Seq(ToSet(<<>>))
  OBVIOUS
<1> HIDE DEF row
<1>3. RowShape(row)
  BY <1>1, <1>2 DEF RowShape
<1>4. QED
  BY <1>1, <1>3 DEF row

\* write_new_row: a row that is not there is written with its patches alone.
LEMMA NewRowFollows ==
  ASSUME NEW n \in 1..MaxOf["row"], NEW styles, SheetSpans(styles), NEW patches, PatchList(patches)
  PROVE  /\ RowFollows(EmptyRow(n), NewRow(n, styles, patches), styles, patches)
         /\ NewRow(n, styles, patches).spans = {}
<1> DEFINE row == EmptyRow(n)
<1>1. RowShape(row) /\ row.at = n
  BY EmptyRowIs
<1>2. NewRow(n, styles, patches) = WithNewCells(row, styles, patches)
  BY DEF NewRow, EmptyRow
<1>3. /\ DOMAIN row = RowFields /\ row.r = n /\ row.spans = {} /\ row.cells = <<>>
  BY DEF EmptyRow, RowFields
<1> HIDE DEF row
<1>4. NewRow(n, styles, patches).spans = {}
  BY <1>2, <1>3 DEF WithNewCells, RowFields
<1>5. PatchedCells(<<>>, n, patches) = <<>>
  BY DEF PatchedCells
<1>6. row.cells = PatchedCells(row.cells, row.at, patches)
  BY <1>1, <1>3, <1>5
<1>7. row.r = row.at
  BY <1>1, <1>3
<1>8. RowFollows(row, WithNewCells(row, styles, patches), styles, patches)
  BY <1>1, <1>3, <1>6, <1>7, CompletedRowFollows
<1>9. QED
  BY <1>2, <1>8, <1>4 DEF row

\* The splicer, where all cells are there.
LEMMA SplicedRowFollows ==
  ASSUME NEW row, RowShape(row), NEW styles, NEW patches,
         \A c : <<row.at, c>> \in Patched(patches) => Has(row, c)
  PROVE  RowFollows(row, SplicedRow(row, patches), styles, patches)
<1> DEFINE cells == PatchedCells(row.cells, row.at, patches)
           new == SplicedRow(row, patches)
<1>1. CellsFollow(row, cells, styles, patches)
  BY PatchedCellsAre
<1>2. DOMAIN row = RowFields /\ OnePerColumn(row)
  BY RowsAreShaped
<1> HIDE DEF cells
<1>3. new.at = row.at /\ new.style = row.style /\ new.spans = row.spans /\ new.cells = cells
  BY <1>2 DEF SplicedRow, RowFields, cells
<1> HIDE DEF new
<1>4. DOMAIN new.cells = DOMAIN row.cells /\ \A i \in DOMAIN row.cells : new.cells[i].col = row.cells[i].col
  BY <1>1, <1>3 DEF CellsFollow
<1>5. OnePerColumn(new) /\ \A c : Has(new, c) <=> Has(row, c)
  BY <1>2, <1>4 DEF OnePerColumn, Has
<1>6. \A i \in DOMAIN new.cells :
        new.cells[i] = AsPatched(CellIn(row, styles, new.cells[i].col), patches,
                                 <<row.at, new.cells[i].col>>)
  BY <1>1, <1>3 DEF CellsFollow
<1>7. \A s \in new.spans : \A i \in DOMAIN new.cells : new.cells[i].col \in s[1]..s[2]
  BY <1>3, <1>4 DEF RowShape
<1>8. RowFollows(row, new, styles, patches)
  BY <1>3, <1>5, <1>6, <1>7 DEF RowFollows
<1>9. QED
  BY <1>8 DEF new

-----------------------------------------------------------------------------
(* All the rows of a sheet. *)

Rising(rows) == \A i, j \in DOMAIN rows : i < j => rows[i].at < rows[j].at
RowNumbers(rows) == {rows[i].at : i \in DOMAIN rows}
Shaped(rows) == IsSeq(rows) /\ Rising(rows) /\ \A i \in DOMAIN rows : RowShape(rows[i])

\* Neighbours in order are all in order.
LEMMA RowsRise ==
  ASSUME NEW rows, IsSeq(rows), \A i \in DOMAIN rows : rows[i].at \in Nat,
         \A i \in DOMAIN rows \ {1} : rows[i - 1].at < rows[i].at
  PROVE  Rising(rows)
<1> DEFINE n == Len(rows)
           T == {k \in Nat : \A i, j \in 1..n : i < j /\ j <= k => rows[i].at < rows[j].at}
<1>1. n \in Nat /\ DOMAIN rows = 1..n
  BY SequencesAre
<1>2. 0 \in T
  BY <1>1
<1>3. \A k \in T : k + 1 \in T
  <2> SUFFICES ASSUME NEW k \in T PROVE k + 1 \in T
    OBVIOUS
  <2>1. k \in Nat /\ \A i, j \in 1..n : i < j /\ j <= k => rows[i].at < rows[j].at
    OBVIOUS
  <2>2. ASSUME NEW i \in 1..n, NEW j \in 1..n, i < j, j <= k + 1
        PROVE  rows[i].at < rows[j].at
    <3> HIDE DEF T, n
    <3>1. k \in Nat /\ n \in Nat /\ i \in Nat /\ j \in Nat /\ 1 <= i
      BY <1>1, <2>1
    <3>2. CASE j <= k
      BY <2>1, <2>2, <3>2
    <3>3. CASE i = j - 1
      <4>1. j \in DOMAIN rows \ {1}
        BY <1>1, <3>1, <3>3
      <4>2. QED
        BY <3>3, <4>1
    <3>4. CASE j = k + 1 /\ i # j - 1
      <4>1. k \in 1..n /\ i < k /\ k <= k /\ j - 1 = k /\ j \in DOMAIN rows \ {1}
        BY <1>1, <2>2, <3>1, <3>4
      <4>2. rows[i].at < rows[k].at
        BY <2>1, <4>1
      <4>3. rows[k].at < rows[j].at
        BY <2>1, <4>1
      <4>4. rows[i].at \in Nat /\ rows[k].at \in Nat /\ rows[j].at \in Nat
        BY <1>1, <4>1
      <4>5. QED
        BY <4>2, <4>3, <4>4
    <3>5. QED
      BY <2>2, <3>1, <3>2, <3>3, <3>4
  <2>3. \A i, j \in 1..n : i < j /\ j <= k + 1 => rows[i].at < rows[j].at
    BY <2>2
  <2>4. k + 1 \in Nat
    BY <2>1
  <2> HIDE DEF n
  <2>5. QED
    BY <2>3, <2>4
<1>4. T = Nat
  <2>1. T \in SUBSET Nat
    OBVIOUS
  <2> HIDE DEF T
  <2>2. QED
    BY <1>2, <1>3, <2>1, AllNaturals
<1>5. n \in T
  BY <1>1, <1>4
<1>6. QED
  BY <1>1, <1>5 DEF Rising

\* What a row that is written comes from: one that is there, or an empty one, which
\* announces no columns.
Source(row, new, rows, patches) ==
  \/ \E i \in DOMAIN rows : row = rows[i]
  \/ \E n \in PatchedRows(patches) :
       row = EmptyRow(n) /\ n \notin RowNumbers(rows) /\ new.spans = {}

\* Rows in order up to the number top, each of them one of the sheet's or a new one.
Written(out, rows, styles, patches, top) ==
  /\ IsSeq(out) /\ Rising(out)
  /\ \A i \in DOMAIN out :
       /\ out[i].at \in Nat /\ out[i].at <= top
       /\ \E row : Source(row, out[i], rows, patches) /\ RowFollows(row, out[i], styles, patches)

\* Rows that are not there are written in order, one for each number.
LEMMA NewRowsAre ==
  ASSUME NEW S, NEW styles, SheetSpans(styles), NEW patches, PatchList(patches),
         S \in SUBSET PatchedRows(patches)
  PROVE  LET new == NewRows(S, styles, patches)
         IN /\ IsSeq(new) /\ Rising(new) /\ RowNumbers(new) = S
            /\ \A i \in DOMAIN new :
                 /\ new[i].at \in S
                 /\ RowFollows(EmptyRow(new[i].at), new[i], styles, patches)
                 /\ new[i].spans = {}
<1> DEFINE new == NewRows(S, styles, patches)
           list == Ascending(S)
           n == Cardinality(S)
<1>1. S \in SUBSET (1..MaxOf["row"]) /\ MaxOf["row"] \in Nat
  BY PatchedPlaces, Sizes DEF Axes
<1>2. Lists(list, n, S)
  BY <1>1, AscendingLists
<1>3. new = [i \in DOMAIN list |-> NewRow(list[i], styles, patches)]
  BY DEF NewRows
<1> HIDE DEF list, n, new
<1>4. /\ n \in Nat /\ DOMAIN list = 1..n /\ \A i \in 1..n : list[i] \in S
      /\ \A i, j \in 1..n : i < j => list[i] < list[j]
      /\ \A x \in S : \E i \in 1..n : list[i] = x
  BY <1>2 DEF Lists
<1>5. DOMAIN new = 1..n /\ \A i \in 1..n : new[i] = NewRow(list[i], styles, patches)
  BY <1>3, <1>4
<1>6. IsSeq(new)
  <2>1. new \in [1..n -> ToSet(new)]
    BY <1>3, <1>4, <1>5 DEF ToSet
  <2>2. QED
    BY <1>4, <2>1, FunctionIsSeq DEF IsSeq
<1>7. ASSUME NEW i \in 1..n
      PROVE  /\ new[i].at = list[i] /\ RowFollows(EmptyRow(list[i]), new[i], styles, patches)
             /\ new[i].spans = {}
  <2>1. list[i] \in 1..MaxOf["row"]
    BY <1>1, <1>4
  <2>2. RowFollows(EmptyRow(list[i]), new[i], styles, patches) /\ new[i].spans = {}
    BY <1>5, <2>1, NewRowFollows
  <2>3. EmptyRow(list[i]).at = list[i]
    BY <2>1, EmptyRowIs
  <2>4. QED
    BY <2>2, <2>3 DEF RowFollows
<1>8. \A i \in DOMAIN new :
        /\ new[i].at \in S /\ new[i].spans = {}
        /\ RowFollows(EmptyRow(new[i].at), new[i], styles, patches)
  BY <1>4, <1>5, <1>7
<1>9. Rising(new)
  BY <1>4, <1>5, <1>7 DEF Rising
<1>10. RowNumbers(new) = S
  <2>1. ASSUME NEW x \in S PROVE x \in RowNumbers(new)
    <3>1. PICK i \in 1..n : list[i] = x
      BY <1>4
    <3>2. QED
      BY <1>5, <1>7, <3>1 DEF RowNumbers
  <2>2. QED
    BY <1>8, <2>1 DEF RowNumbers
<1>11. QED
  BY <1>6, <1>8, <1>9, <1>10 DEF new

\* Rows behind others.
LEMMA Behind ==
  ASSUME NEW out, NEW new, NEW rows, NEW styles, NEW patches, NEW top \in Nat, NEW bound \in Nat,
         top <= bound,
         Written(out, rows, styles, patches, top),
         Written(new, rows, styles, patches, bound),
         \A i \in DOMAIN new : top < new[i].at
  PROVE  /\ Written(out \o new, rows, styles, patches, bound)
         /\ RowNumbers(out \o new) = RowNumbers(out) \cup RowNumbers(new)
<1> DEFINE both == out \o new
           n == Len(out)
           m == Len(new)
           D == ToSet(out) \cup ToSet(new)
<1>1. IsSeq(out) /\ IsSeq(new)
  BY DEF Written
<1>2. /\ n \in Nat /\ DOMAIN out = 1..n /\ m \in Nat /\ DOMAIN new = 1..m
  BY <1>1, SequencesAre
<1>3. out \in Seq(D) /\ new \in Seq(D)
  BY <1>1 DEF IsSeq
<1> HIDE DEF D
<1>4. /\ both \in Seq(D) /\ Len(both) = n + m /\ DOMAIN both = 1..(n + m)
      /\ \A i \in 1..n : both[i] = out[i]
      /\ \A i \in 1..m : both[n + i] = new[i]
  BY <1>3
<1> HIDE DEF both
<1>5. IsSeq(both)
  <2>1. \A i \in 1..(n + m) : both[i] \in ToSet(both)
    BY <1>4 DEF ToSet
  <2>2. both = [i \in 1..(n + m) |-> both[i]]
    BY <1>4
  <2> HIDE DEF n, m
  <2>3. both \in [1..(n + m) -> ToSet(both)] /\ n + m \in Nat
    BY <1>2, <2>1, <2>2
  <2>4. QED
    BY <2>3, FunctionIsSeq DEF IsSeq
<1> HIDE DEF n, m
<1>6. \A i \in DOMAIN both : i \in 1..n \/ (i - n \in 1..m /\ i = n + (i - n))
  BY <1>2, <1>4
<1>7. \A i \in 1..n : out[i].at \in Nat /\ out[i].at <= top
  BY <1>2 DEF Written
<1>8. \A i \in 1..m : new[i].at \in Nat /\ top < new[i].at /\ new[i].at <= bound
  BY <1>2 DEF Written
<1>9. ASSUME NEW i \in DOMAIN both
      PROVE  /\ both[i].at \in Nat /\ both[i].at <= bound
             /\ \E row : Source(row, both[i], rows, patches) /\ RowFollows(row, both[i], styles, patches)
  <2>1. CASE i \in 1..n
    <3>1. both[i] = out[i] /\ i \in DOMAIN out
      BY <1>2, <1>4, <2>1
    <3>2. QED
      BY <1>7, <2>1, <3>1 DEF Written
  <2>2. CASE i - n \in 1..m /\ i = n + (i - n)
    <3>1. both[i] = new[i - n] /\ i - n \in DOMAIN new
      BY <1>2, <1>4, <2>2
    <3>2. QED
      BY <3>1 DEF Written
  <2>3. QED
    BY <1>6, <2>1, <2>2
<1>10. Rising(both)
  <2> SUFFICES ASSUME NEW i \in DOMAIN both, NEW j \in DOMAIN both, i < j
               PROVE  both[i].at < both[j].at
    BY DEF Rising
  <2>1. i \in Nat /\ j \in Nat
    BY <1>2, <1>4
  <2>2. CASE i \in 1..n /\ j \in 1..n
    <3>1. out[i].at < out[j].at
      BY <1>2, <2>2 DEF Written, Rising
    <3>2. QED
      BY <1>4, <2>2, <3>1
  <2>3. CASE i \in 1..n /\ j - n \in 1..m /\ j = n + (j - n)
    <3>1. both[i] = out[i] /\ both[j] = new[j - n]
      BY <1>4, <2>3
    <3>2. QED
      BY <1>7, <1>8, <2>3, <3>1
  <2>4. CASE i - n \in 1..m /\ i = n + (i - n) /\ j - n \in 1..m /\ j = n + (j - n)
    <3>1. both[i] = new[i - n] /\ both[j] = new[j - n] /\ i - n < j - n
      BY <1>2, <1>4, <2>1, <2>4
    <3>2. QED
      BY <1>2, <2>4, <3>1 DEF Written, Rising
  <2>5. QED
    BY <1>2, <1>6, <2>1, <2>2, <2>3, <2>4
<1>11. Written(both, rows, styles, patches, bound)
  BY <1>5, <1>9, <1>10 DEF Written
<1>12. RowNumbers(both) = RowNumbers(out) \cup RowNumbers(new)
  <2>1. ASSUME NEW i \in DOMAIN both PROVE both[i].at \in RowNumbers(out) \cup RowNumbers(new)
    BY <1>2, <1>4, <1>6 DEF RowNumbers
  <2>2. ASSUME NEW i \in DOMAIN out PROVE out[i].at \in RowNumbers(both)
    <3>1. i \in DOMAIN both /\ both[i] = out[i]
      BY <1>2, <1>4
    <3>2. QED
      BY <3>1 DEF RowNumbers
  <2>3. ASSUME NEW i \in DOMAIN new PROVE new[i].at \in RowNumbers(both)
    <3>1. n + i \in DOMAIN both /\ both[n + i] = new[i]
      BY <1>2, <1>4
    <3>2. QED
      BY <3>1 DEF RowNumbers
  <2>4. QED
    BY <2>1, <2>2, <2>3 DEF RowNumbers
<1>13. QED
  BY <1>11, <1>12 DEF both

\* What the general patcher has written before it comes to the row after the k-th.
Before(rows, k) == IF k = 0 THEN 0 ELSE rows[k].at
Walked(d, st) ==
  LET top == Before(d.rows, d.k)
  IN /\ Written(st.out, d.rows, d.styles, d.patches, top)
     /\ RowNumbers(st.out) = st.seen
     /\ \A n : n \in st.seen <=> \/ \E i \in 1..d.k : n = d.rows[i].at
                                 \/ n \in PatchedRows(d.patches) /\ n <= top

\* The row elements have their numbers.
Indexed(rows) == \A i \in DOMAIN rows : rows[i].r = rows[i].at

\* One row element more: the rows before it that have patches alone, and itself.
LEMMA NextRowWalks ==
  ASSUME NEW rows, Shaped(rows), Indexed(rows), NEW styles, SheetSpans(styles),
         NEW patches, PatchList(patches), NEW k \in Nat, k + 1 \in DOMAIN rows, NEW st,
         Walked([rows |-> rows, k |-> k, styles |-> styles, patches |-> patches], st)
  PROVE  Walked([rows |-> rows, k |-> k + 1, styles |-> styles, patches |-> patches],
                PatchNextRow(st, rows[k + 1], styles, patches))
<1> DEFINE row == rows[k + 1]
           at == row.at
           top == Before(rows, k)
           missing == {p[1] : p \in {x \in Patched(patches) : x[1] \notin st.seen /\ x[1] < row.r}}
           more == NewRows(missing, styles, patches)
           last == RewrittenRow(row, styles, patches)
           next == PatchNextRow(st, row, styles, patches)
<1>1. /\ Written(st.out, rows, styles, patches, top)
      /\ RowNumbers(st.out) = st.seen
      /\ \A n : n \in st.seen <=> \/ \E i \in 1..k : n = rows[i].at
                                  \/ n \in PatchedRows(patches) /\ n <= top
  BY DEF Walked
<1>2. /\ Len(rows) \in Nat /\ DOMAIN rows = 1..Len(rows) /\ RowShape(row) /\ row.r = at
      /\ \A i \in DOMAIN rows : rows[i].at \in Nat
      /\ \A i, j \in DOMAIN rows : i < j => rows[i].at < rows[j].at
  BY SequencesAre, RowsAreShaped DEF Shaped, Indexed, Rising
<1>3. at \in Nat /\ at >= 1
  BY <1>2, RowsAreShaped
<1>4. top \in Nat /\ top < at
  <2>1. CASE k = 0
    BY <1>3, <2>1 DEF Before
  <2>2. CASE k # 0
    <3>1. k \in DOMAIN rows /\ k < k + 1
      BY <1>2, <2>2
    <3>2. rows[k].at \in Nat /\ rows[k].at < at
      BY <1>2, <3>1
    <3>3. QED
      BY <2>2, <3>2 DEF Before
  <2>3. QED
    BY <2>1, <2>2
<1>5. /\ missing \in SUBSET PatchedRows(patches)
      /\ \A n : n \in missing <=> n \in PatchedRows(patches) /\ n \notin st.seen /\ n < at
  BY <1>2 DEF PatchedRows
<1>6. \A n \in PatchedRows(patches) : n \in Nat
  BY PatchedPlaces
<1>7. \A n \in missing : top < n /\ n < at /\ n \in Nat
  BY <1>1, <1>4, <1>5, <1>6
<1>8. \A n \in missing : n \notin RowNumbers(rows)
  <2> SUFFICES ASSUME NEW n \in missing, NEW i \in DOMAIN rows, n = rows[i].at PROVE FALSE
    BY DEF RowNumbers
  <2>1. i \in Nat /\ n < at
    BY <1>2, <1>7
  <2>2. CASE i <= k
    <3>1. i \in 1..k
      BY <1>2, <2>2
    <3>2. QED
      BY <1>1, <1>5, <3>1
  <2>3. CASE i = k + 1
    BY <1>3, <2>1, <2>3
  <2>4. CASE k + 1 < i
    <3>1. at < rows[i].at
      BY <1>2, <2>4
    <3>2. QED
      BY <1>2, <1>3, <2>1, <3>1
  <2>5. QED
    BY <2>1, <2>2, <2>3, <2>4
<1>9. next.out = Append(st.out \o more, last) /\ next.seen = st.seen \cup missing \cup {at}
  BY <1>2 DEF PatchNextRow
<1>10. /\ IsSeq(more) /\ Rising(more) /\ RowNumbers(more) = missing
       /\ \A i \in DOMAIN more :
            /\ more[i].at \in missing /\ more[i].spans = {}
            /\ RowFollows(EmptyRow(more[i].at), more[i], styles, patches)
  BY <1>5, NewRowsAre
<1>11. RowFollows(row, last, styles, patches) /\ last.at = at
  <2>1. RowFollows(row, last, styles, patches)
    BY <1>2, RewrittenRowFollows
  <2>2. QED
    BY <2>1 DEF RowFollows
<1>12. Source(row, last, rows, patches)
  BY DEF Source
<1> HIDE DEF top, missing, more, last, next, row, at
<1>13. Written(more, rows, styles, patches, at - 1)
  <2>1. \A i \in DOMAIN more :
          /\ more[i].at \in Nat /\ more[i].at <= at - 1
          /\ Source(EmptyRow(more[i].at), more[i], rows, patches)
    BY <1>3, <1>5, <1>7, <1>8, <1>10 DEF Source
  <2>2. QED
    BY <1>10, <2>1 DEF Written
<1>14. /\ Written(st.out \o more, rows, styles, patches, at - 1)
       /\ RowNumbers(st.out \o more) = st.seen \cup missing
  <2>1. at - 1 \in Nat /\ top <= at - 1
    BY <1>3, <1>4
  <2>2. \A i \in DOMAIN more : top < more[i].at
    BY <1>7, <1>10
  <2>3. QED
    BY <1>1, <1>4, <1>10, <1>13, <2>1, <2>2, Behind
<1>15. /\ Written(<<last>>, rows, styles, patches, at) /\ RowNumbers(<<last>>) = {at}
       /\ \A i \in DOMAIN <<last>> : at - 1 < <<last>>[i].at
  <2>1. /\ IsSeq(<<last>>) /\ DOMAIN <<last>> = {1} /\ <<last>>[1] = last
    BY DEF IsSeq, ToSet
  <2> DEFINE one == <<last>>
  <2> HIDE DEF one
  <2>2. IsSeq(one) /\ DOMAIN one = {1} /\ one[1] = last
    BY <2>1 DEF one
  <2>3. Written(one, rows, styles, patches, at)
    BY <1>3, <1>11, <1>12, <2>2 DEF Written, Rising
  <2>4. RowNumbers(one) = {at}
    BY <1>11, <2>2 DEF RowNumbers
  <2>5. \A i \in DOMAIN one : at - 1 < one[i].at
    BY <1>3, <1>11, <2>2
  <2>6. QED
    BY <2>3, <2>4, <2>5 DEF one
<1>16. /\ Written((st.out \o more) \o <<last>>, rows, styles, patches, at)
       /\ RowNumbers((st.out \o more) \o <<last>>) = (st.seen \cup missing) \cup {at}
  <2>1. at - 1 \in Nat /\ at \in Nat /\ at - 1 <= at
    BY <1>3
  <2>2. QED
    BY <1>14, <1>15, <2>1, Behind
<1>17. next.out = (st.out \o more) \o <<last>>
  <2>1. IsSeq(st.out \o more)
    BY <1>14 DEF Written
  <2>2. Append(st.out \o more, last) = (st.out \o more) \o <<last>>
    <3> DEFINE s == st.out \o more
    <3>1. IsSeq(s)
      BY <2>1
    <3> HIDE DEF s
    <3>2. s \in Seq(ToSet(s) \cup {last})
      BY <3>1 DEF IsSeq
    <3>3. Append(s, last) = s \o <<last>>
      BY <3>2
    <3>4. QED
      BY <3>3 DEF s
  <2>3. QED
    BY <1>9, <2>2
<1>18. \A n : n \in next.seen <=> \/ \E i \in 1..(k + 1) : n = rows[i].at
                                  \/ n \in PatchedRows(patches) /\ n <= at
  <2>1. rows[k + 1].at = at
    BY DEF row, at
  <2>2. \A i \in 1..(k + 1) : i \in 1..k \/ i = k + 1
    OBVIOUS
  <2>3. ASSUME NEW n, n \in next.seen
        PROVE  \/ \E i \in 1..(k + 1) : n = rows[i].at
               \/ n \in PatchedRows(patches) /\ n <= at
    <3>1. CASE \E i \in 1..k : n = rows[i].at
      BY <3>1
    <3>2. CASE n \in PatchedRows(patches) /\ n <= top
      BY <1>3, <1>4, <1>6, <3>2
    <3>3. CASE n \in missing
      BY <1>3, <1>5, <1>6, <3>3
    <3>4. CASE n = at
      BY <2>1, <3>4
    <3>5. QED
      BY <1>1, <1>9, <2>3, <3>1, <3>2, <3>3, <3>4
  <2>4. ASSUME NEW n \in PatchedRows(patches), n <= at PROVE n \in next.seen
    <3>1. n \in Nat /\ (n < at \/ n = at)
      BY <1>3, <1>6, <2>4
    <3>2. n < at => n \in missing \/ n \in st.seen
      BY <1>5
    <3>3. QED
      BY <1>9, <3>1, <3>2
  <2>5. ASSUME NEW i \in 1..(k + 1) PROVE rows[i].at \in next.seen
    <3>1. i \in 1..k => rows[i].at \in st.seen
      BY <1>1
    <3>2. QED
      BY <1>9, <2>1, <2>2, <3>1
  <2>6. QED
    BY <2>3, <2>4, <2>5
<1>19. Before(rows, k + 1) = at
  BY DEF Before, row, at
<1>20. Walked([rows |-> rows, k |-> k + 1, styles |-> styles, patches |-> patches], next)
  BY <1>9, <1>16, <1>17, <1>18, <1>19 DEF Walked
<1>21. QED
  BY <1>20 DEF next, row

WalkStep(c, st, row) == PatchNextRow(st, row, c.styles, c.patches)
Walks == INSTANCE FoldInduction WITH Op <- WalkStep, Good <- Walked

\* new is the sheet with its patches: rows that are there and that are patched, in
\* order, and the rectangle around all cells.
SheetFields == {"dim", "colStyles", "rows"}
There(sheet, place) ==
  \E i \in DOMAIN sheet.rows : sheet.rows[i].at = place[1] /\ Has(sheet.rows[i], place[2])
In(d, place) == place[1] \in d.top..d.bottom /\ place[2] \in d.left..d.right
Patchwork(sheet, new, patches) ==
  /\ new.colStyles = sheet.colStyles
  /\ Written(new.rows, sheet.rows, sheet.colStyles, patches, MaxOf["row"])
  /\ RowNumbers(new.rows) = RowNumbers(sheet.rows) \cup PatchedRows(patches)
  /\ \A d \in new.dim : \A place : There(sheet, place) \/ place \in Patched(patches) => In(d, place)

PatchedSheet(sheet) ==
  /\ DOMAIN sheet = SheetFields /\ SheetSpans(sheet.colStyles) /\ Shaped(sheet.rows)
  /\ sheet.dim \subseteq [top : Nat, left : Nat, bottom : Nat, right : Nat]
  /\ \A d \in sheet.dim : \A place : There(sheet, place) => In(d, place)

\* All rows of a sheet are walked through.
LEMMA AllRowsWalked ==
  ASSUME NEW rows, Shaped(rows), Indexed(rows), NEW styles, SheetSpans(styles),
         NEW patches, PatchList(patches)
  PROVE  Walked([rows |-> rows, k |-> Len(rows), styles |-> styles, patches |-> patches],
                Walks!Folded([styles |-> styles, patches |-> patches],
                             [out |-> <<>>, seen |-> {}], rows))
<1> DEFINE n == Len(rows)
           c == [styles |-> styles, patches |-> patches]
           C == [k \in 0..n |-> [rows |-> rows, k |-> k, styles |-> styles, patches |-> patches]]
           base == [out |-> <<>>, seen |-> {}]
           end == Walks!Folded(c, base, rows)
<1>1. n \in Nat /\ DOMAIN rows = 1..n /\ rows \in Seq(ToSet(rows))
  BY SequencesAre DEF Shaped, IsSeq
<1>2. \A k \in 0..n :
        C[k] = [rows |-> rows, k |-> k, styles |-> styles, patches |-> patches]
  OBVIOUS
<1>3. Walked(C[0], base)
  <2> DEFINE d == [rows |-> rows, k |-> 0, styles |-> styles, patches |-> patches]
             none == <<>>
  <2>1. DOMAIN none = {} /\ IsSeq(none)
    BY DEF IsSeq
  <2>2. base.out = none /\ base.seen = {}
    OBVIOUS
  <2> HIDE DEF none, base
  <2>3. Written(none, rows, styles, patches, 0) /\ RowNumbers(none) = {}
    BY <2>1 DEF Written, Rising, RowNumbers
  <2>4. \A x : ~(x \in PatchedRows(patches) /\ x <= 0)
    BY PatchedPlaces
  <2>5. Walked(d, base)
    BY <2>2, <2>3, <2>4 DEF Walked, Before
  <2>6. C[0] = d
    BY <1>1, <1>2
  <2>7. QED
    BY <2>5, <2>6
<1>4. \A st : \A k \in 0..(Len(rows) - 1) :
        Walked(C[k], st) => Walked(C[k + 1], WalkStep(c, st, rows[k + 1]))
  <2> SUFFICES ASSUME NEW st, NEW k \in 0..(n - 1), Walked(C[k], st)
               PROVE  Walked(C[k + 1], WalkStep(c, st, rows[k + 1]))
    OBVIOUS
  <2>1. k \in Nat /\ k \in 0..n /\ k + 1 \in 0..n /\ k + 1 \in DOMAIN rows
    BY <1>1
  <2>2. WalkStep(c, st, rows[k + 1]) = PatchNextRow(st, rows[k + 1], styles, patches)
    BY DEF WalkStep
  <2> HIDE DEF C, c, n
  <2>3. Walked([rows |-> rows, k |-> k, styles |-> styles, patches |-> patches], st)
    BY <1>2, <2>1
  <2>4. Walked([rows |-> rows, k |-> k + 1, styles |-> styles, patches |-> patches],
               PatchNextRow(st, rows[k + 1], styles, patches))
    BY <2>1, <2>3, NextRowWalks
  <2>5. QED
    BY <1>2, <2>1, <2>2, <2>4
<1>5. Walked(C[n], end)
  <2> HIDE DEF C, c, base
  <2>1. Walked(C[Len(rows)], Walks!Folded(c, base, rows))
    BY <1>1, <1>3, <1>4, Walks!FoldGrows
  <2>2. QED
    BY <2>1
<1> HIDE DEF end, C
<1>6. C[n] = [rows |-> rows, k |-> n, styles |-> styles, patches |-> patches]
  BY <1>1, <1>2
<1>7. QED
  BY <1>5, <1>6 DEF end

\* The rectangle grows to the patches.
LEMMA MergedDimensionHolds ==
  ASSUME NEW sheet, PatchedSheet(sheet), NEW patches, PatchList(patches), patches # <<>>,
         NEW new \in MergedDimension(sheet.dim, patches),
         NEW place, There(sheet, place) \/ place \in Patched(patches)
  PROVE  In(new, place)
<1> DEFINE R == PatchedRows(patches)
           C == PatchedCols(patches)
           rows == Ascending(R)
           cols == Ascending(C)
           n == Cardinality(R)
           m == Cardinality(C)
<1>1. /\ R \in SUBSET (1..MaxOf["row"]) /\ MaxOf["row"] \in Nat
      /\ C \in SUBSET (1..MaxOf["col"]) /\ MaxOf["col"] \in Nat
  BY PatchedPlaces, Sizes DEF Axes
<1>2. Lists(rows, n, R) /\ Lists(cols, m, C)
  <2> HIDE DEF R, C
  <2>1. QED
    BY <1>1, AscendingLists
<1>3. R # {} /\ C # {}
  <2>1. Len(patches) \in Nat /\ DOMAIN patches = 1..Len(patches)
    BY SequencesAre DEF PatchList
  <2>2. 1 \in DOMAIN patches
    BY <2>1 DEF PatchList, IsSeq
  <2>3. PlaceOf(patches[1]) \in Patched(patches)
    BY <2>2 DEF Patched
  <2>4. QED
    BY <2>3 DEF PatchedRows, PatchedCols
<1>4. PICK d \in sheet.dim :
        new = [top |-> Lo(d.top, rows[1]), left |-> Lo(d.left, cols[1]),
               bottom |-> Hi(d.bottom, rows[Len(rows)]), right |-> Hi(d.right, cols[Len(cols)])]
  BY DEF MergedDimension, PatchedRows, PatchedCols
<1>5. d.top \in Nat /\ d.left \in Nat /\ d.bottom \in Nat /\ d.right \in Nat
  BY DEF PatchedSheet
<1> HIDE DEF R, C, rows, cols, n, m
<1>6. /\ Len(rows) = n /\ n \in Nat /\ n >= 1 /\ rows \in [1..n -> R]
      /\ \A x \in R : rows[1] <= x /\ x <= rows[n]
  BY <1>2, <1>3 DEF Lists
<1>7. /\ Len(cols) = m /\ m \in Nat /\ m >= 1 /\ cols \in [1..m -> C]
      /\ \A x \in C : cols[1] <= x /\ x <= cols[m]
  BY <1>2, <1>3 DEF Lists
<1>8. (\A x \in R : x \in Nat) /\ (\A x \in C : x \in Nat)
  <2> SUFFICES ASSUME NEW x \in R \cup C PROVE x \in Nat
    OBVIOUS
  <2>1. x \in 1..MaxOf["row"] \/ x \in 1..MaxOf["col"]
    BY <1>1
  <2>2. QED
    BY <2>1
<1>9. rows[1] \in Nat /\ rows[n] \in Nat /\ cols[1] \in Nat /\ cols[m] \in Nat
  <2>1. rows[1] \in R /\ rows[n] \in R /\ cols[1] \in C /\ cols[m] \in C
    BY <1>6, <1>7
  <2>2. QED
    BY <1>8, <2>1
<1>10. /\ new.top = Lo(d.top, rows[1]) /\ new.bottom = Hi(d.bottom, rows[n])
      /\ new.left = Lo(d.left, cols[1]) /\ new.right = Hi(d.right, cols[m])
  BY <1>4, <1>6, <1>7
<1>11. CASE There(sheet, place)
  <2>1. place[1] \in d.top..d.bottom /\ place[2] \in d.left..d.right
    BY <1>11 DEF PatchedSheet, In
  <2> DEFINE r == place[1]
             c == place[2]
  <2>2. r \in d.top..d.bottom /\ c \in d.left..d.right
    BY <2>1
  <2> HIDE DEF r, c
  <2>3. r \in new.top..new.bottom /\ c \in new.left..new.right
    BY <1>5, <1>9, <1>10, <2>2 DEF Lo, Hi
  <2>4. QED
    BY <2>3 DEF In, r, c
<1>12. CASE place \in Patched(patches)
  <2> DEFINE r == place[1]
             c == place[2]
  <2>1. r \in R /\ c \in C
    BY <1>12 DEF R, C, PatchedRows, PatchedCols
  <2>2. r \in Nat /\ c \in Nat
    BY <1>8, <2>1
  <2> HIDE DEF r, c
  <2>3. rows[1] <= r /\ r <= rows[n] /\ cols[1] <= c /\ c <= cols[m]
    BY <1>6, <1>7, <2>1
  <2>4. r \in new.top..new.bottom /\ c \in new.left..new.right
    BY <1>5, <1>9, <1>10, <2>2, <2>3 DEF Lo, Hi
  <2>5. QED
    BY <2>4 DEF In, r, c
<1>13. QED
  BY <1>11, <1>12

\* The general patcher.
LEMMA PatchRowsPatches ==
  ASSUME NEW sheet, PatchedSheet(sheet), Indexed(sheet.rows), NEW patches, PatchList(patches),
         patches # <<>>
  PROVE  Patchwork(sheet, PatchRows(sheet, patches), patches)
<1> DEFINE rows == sheet.rows
           styles == sheet.colStyles
           done == Walks!Folded([styles |-> styles, patches |-> patches],
                                [out |-> <<>>, seen |-> {}], rows)
           n == Len(rows)
           top == Before(rows, n)
           missing == PatchedRows(patches) \ done.seen
           more == NewRows(missing, styles, patches)
           new == PatchRows(sheet, patches)
           high == MaxOf["row"]
<1>1. Shaped(rows) /\ SheetSpans(styles) /\ DOMAIN sheet = SheetFields
  BY DEF PatchedSheet
<1>2. Walked([rows |-> rows, k |-> n, styles |-> styles, patches |-> patches], done)
  BY <1>1, AllRowsWalked
<1>3. new = [sheet EXCEPT !.dim = MergedDimension(@, patches), !.rows = done.out \o more]
  BY DEF PatchRows, PatchedRows, FoldLeft, MapThenFoldSet, Max, WalkStep,
         Walks!Folded, Walks!IsFold, Walks!Top
<1>4. /\ new.rows = done.out \o more /\ new.colStyles = styles
      /\ new.dim = MergedDimension(sheet.dim, patches)
  <2> HIDE DEF done, more, new
  <2>1. QED
    BY <1>1, <1>3 DEF SheetFields
<1>5. n \in Nat /\ DOMAIN rows = 1..n /\ \A i \in DOMAIN rows : rows[i].at \in 1..high
  BY <1>1, SequencesAre, RowsAreShaped DEF Shaped
<1>6. high \in Nat
  BY Sizes DEF Axes
<1> HIDE DEF done, rows, styles, n, new, high
<1>7. /\ Written(done.out, rows, styles, patches, top)
      /\ RowNumbers(done.out) = done.seen
      /\ \A x : x \in done.seen <=> \/ \E i \in 1..n : x = rows[i].at
                                    \/ x \in PatchedRows(patches) /\ x <= top
  BY <1>2 DEF Walked
<1>8. top \in Nat /\ top <= high
  <2>1. CASE n = 0
    BY <1>6, <2>1 DEF Before
  <2>2. CASE n # 0
    <3>1. n \in DOMAIN rows
      BY <1>5, <2>2
    <3>2. rows[n].at \in 1..high
      BY <1>5, <3>1
    <3>3. QED
      BY <1>6, <2>2, <3>2 DEF Before
  <2>3. QED
    BY <2>1, <2>2
<1>9. \A x \in PatchedRows(patches) : x \in Nat /\ x <= high
  BY <1>6, PatchedPlaces DEF high
<1>10. \A x \in missing : x \in Nat /\ top < x /\ x <= high /\ x \in PatchedRows(patches)
  BY <1>7, <1>8, <1>9
<1>11. \A x \in missing : x \notin RowNumbers(rows)
  BY <1>5, <1>7 DEF RowNumbers
<1>12. /\ IsSeq(more) /\ Rising(more) /\ RowNumbers(more) = missing
       /\ \A i \in DOMAIN more :
            /\ more[i].at \in missing /\ more[i].spans = {}
            /\ RowFollows(EmptyRow(more[i].at), more[i], styles, patches)
  BY <1>1, NewRowsAre
<1> HIDE DEF more
<1>13. Written(more, rows, styles, patches, high)
  <2>1. \A i \in DOMAIN more :
          /\ more[i].at \in Nat /\ more[i].at <= high
          /\ Source(EmptyRow(more[i].at), more[i], rows, patches)
    BY <1>10, <1>11, <1>12 DEF Source
  <2>2. QED
    BY <1>12, <2>1 DEF Written
<1>14. \A i \in DOMAIN more : top < more[i].at
  BY <1>10, <1>12
<1> HIDE DEF top, missing
<1>15. /\ Written(done.out \o more, rows, styles, patches, high)
       /\ RowNumbers(done.out \o more) = done.seen \cup missing
  BY <1>6, <1>7, <1>8, <1>12, <1>13, <1>14, Behind
<1>16. done.seen \cup missing = RowNumbers(rows) \cup PatchedRows(patches)
  BY <1>5, <1>7 DEF RowNumbers, missing
<1>17. \A d \in new.dim : \A place :
         There(sheet, place) \/ place \in Patched(patches) => In(d, place)
  BY <1>4, MergedDimensionHolds
<1>18. Patchwork(sheet, new, patches)
  BY <1>4, <1>15, <1>16, <1>17 DEF Patchwork, rows, styles, high
<1>19. QED
  BY <1>18 DEF new

\* The splicer.
LEMMA SpliceCellsPatches ==
  ASSUME NEW sheet, PatchedSheet(sheet), NEW patches, PatchList(patches), Splices(sheet, patches)
  PROVE  Patchwork(sheet, SpliceCells(sheet, patches), patches)
<1> DEFINE rows == sheet.rows
           styles == sheet.colStyles
           new == SpliceCells(sheet, patches)
           n == Len(rows)
<1>1. Shaped(rows) /\ DOMAIN sheet = SheetFields
  BY DEF PatchedSheet
<1>2. /\ new.rows = [i \in DOMAIN rows |-> SplicedRow(rows[i], patches)]
      /\ new.colStyles = styles /\ new.dim = sheet.dim
  BY <1>1 DEF SpliceCells, SheetFields
<1>3. n \in Nat /\ DOMAIN rows = 1..n /\ \A i \in DOMAIN rows : RowShape(rows[i])
  BY <1>1, SequencesAre DEF Shaped
<1>4. \A place \in Patched(patches) : There(sheet, place)
  BY DEF Splices, There, Has
<1> HIDE DEF rows, styles, new, n
<1>5. ASSUME NEW i \in DOMAIN rows
      PROVE  /\ new.rows[i].at = rows[i].at
             /\ RowFollows(rows[i], new.rows[i], styles, patches)
  <2>1. new.rows[i] = SplicedRow(rows[i], patches)
    BY <1>2
  <2>2. ASSUME NEW c, <<rows[i].at, c>> \in Patched(patches) PROVE Has(rows[i], c)
    <3>1. PICK j \in DOMAIN rows : rows[j].at = rows[i].at /\ Has(rows[j], c)
      BY <1>4, <2>2 DEF There, rows
    <3>2. i \in Nat /\ j \in Nat /\ rows[i].at \in Nat
      BY <1>3, RowsAreShaped
    <3>3. (i < j => rows[i].at < rows[j].at) /\ (j < i => rows[j].at < rows[i].at)
      BY <1>1 DEF Shaped, Rising
    <3>4. i = j
      BY <3>1, <3>2, <3>3
    <3>5. QED
      BY <3>1, <3>4
  <2>3. RowFollows(rows[i], SplicedRow(rows[i], patches), styles, patches)
    BY <1>3, <2>2, SplicedRowFollows
  <2>4. QED
    BY <2>1, <2>3 DEF RowFollows
<1>6. DOMAIN new.rows = 1..n
  BY <1>2, <1>3
<1>7. IsSeq(new.rows)
  <2>1. new.rows \in [1..n -> ToSet(new.rows)]
    BY <1>2, <1>3, <1>6 DEF ToSet
  <2>2. QED
    BY <1>3, <2>1, FunctionIsSeq DEF IsSeq
<1>8. Rising(new.rows)
  BY <1>1, <1>3, <1>5, <1>6 DEF Shaped, Rising
<1>9. \A i \in 1..n : rows[i].at \in Nat /\ rows[i].at <= MaxOf["row"]
  BY <1>3, RowsAreShaped
<1>10. Written(new.rows, rows, styles, patches, MaxOf["row"])
  <2>1. \A i \in DOMAIN rows : Source(rows[i], new.rows[i], rows, patches)
    BY DEF Source
  <2>2. QED
    BY <1>3, <1>5, <1>6, <1>7, <1>8, <1>9, <2>1 DEF Written
<1>11. RowNumbers(new.rows) = RowNumbers(rows)
  BY <1>3, <1>5, <1>6 DEF RowNumbers
<1>12. PatchedRows(patches) \subseteq RowNumbers(rows)
  BY <1>4 DEF PatchedRows, There, RowNumbers, rows
<1>13. \A d \in new.dim : \A place :
         There(sheet, place) \/ place \in Patched(patches) => In(d, place)
  BY <1>2, <1>4 DEF PatchedSheet
<1>14. Patchwork(sheet, new, patches)
  BY <1>2, <1>10, <1>11, <1>12, <1>13 DEF Patchwork, rows, styles
<1>15. QED
  BY <1>14 DEF new

-----------------------------------------------------------------------------
(* The sheet that is written, as a reader sees it. *)

\* What is at a place is in the only row with its number.
LEMMA ReadsItsRow ==
  ASSUME NEW sheet, NEW r, NEW i \in DOMAIN sheet.rows, sheet.rows[i].at = r,
         \A j \in DOMAIN sheet.rows : sheet.rows[j].at = r => j = i,
         NEW c
  PROVE  /\ CellAt(sheet, <<r, c>>) = CellIn(sheet.rows[i], sheet.colStyles, c)
         /\ CellsAt(sheet, <<r, c>>)
              = {<<i, k>> : k \in {j \in DOMAIN sheet.rows[i].cells : sheet.rows[i].cells[j].col = c}}
<1> DEFINE rows == sheet.rows
           cells == rows[i].cells
           at == CellsAt(sheet, <<r, c>>)
           mine == {k \in DOMAIN cells : cells[k].col = c}
<1>1. RowsAt(sheet, r) = {i}
  BY DEF RowsAt
<1>2. at = {<<i, k>> : k \in mine}
  BY <1>1 DEF CellsAt
<1>3. {rows[j] : j \in RowsAt(sheet, r)} = {rows[i]}
  BY <1>1
<1>4. {rows[x[1]].cells[x[2]] : x \in at} = CellsIn(rows[i], c)
  <2> HIDE DEF at
  <2>1. {rows[x[1]].cells[x[2]] : x \in at} = {cells[k] : k \in mine}
    <3>1. \A k \in mine : <<i, k>>[1] = i /\ <<i, k>>[2] = k
      OBVIOUS
    <3>2. ASSUME NEW x \in at PROVE rows[x[1]].cells[x[2]] \in {cells[k] : k \in mine}
      <4>1. PICK k \in mine : x = <<i, k>>
        BY <1>2
      <4>2. x[1] = i /\ x[2] = k
        BY <3>1, <4>1
      <4>3. QED
        BY <4>1, <4>2
    <3>3. ASSUME NEW k \in mine PROVE cells[k] \in {rows[x[1]].cells[x[2]] : x \in at}
      <4>1. <<i, k>> \in at /\ <<i, k>>[1] = i /\ <<i, k>>[2] = k
        BY <1>2, <3>1
      <4>2. QED
        BY <4>1
    <3>4. QED
      BY <3>2, <3>3
  <2>2. QED
    BY <2>1 DEF CellsIn
<1>5. The({rows[i]}, [style |-> {}]) = rows[i]
  BY DEF The
<1>6. CellAt(sheet, <<r, c>>) = The(CellsIn(rows[i], c), Default(rows[i], sheet.colStyles, c))
  BY <1>3, <1>4, <1>5 DEF CellAt, Default
<1>7. QED
  BY <1>2, <1>6 DEF CellIn

\* Nothing but defaults is where no row is.
LEMMA ReadsNoRow ==
  ASSUME NEW sheet, NEW r, r \notin RowNumbers(sheet.rows), NEW n, NEW c
  PROVE  /\ CellAt(sheet, <<r, c>>) = CellIn(EmptyRow(n), sheet.colStyles, c)
         /\ CellsAt(sheet, <<r, c>>) = {}
<1> DEFINE none == [style |-> {}]
           row == EmptyRow(n)
<1>1. RowsAt(sheet, r) = {}
  BY DEF RowsAt, RowNumbers
<1>2. CellsAt(sheet, <<r, c>>) = {}
  BY <1>1 DEF CellsAt
<1>3. The({sheet.rows[j] : j \in RowsAt(sheet, r)}, none) = none
  BY <1>1 DEF The
<1>4. {sheet.rows[x[1]].cells[x[2]] : x \in CellsAt(sheet, <<r, c>>)} = {}
  BY <1>2
<1>5. row.style = {} /\ none.style = {} /\ CellsIn(row, c) = {}
  BY DEF EmptyRow, CellsIn
<1> HIDE DEF none, row
<1>6. CellAt(sheet, <<r, c>>)
        = [col |-> c, value |-> Blank,
           style |-> The(none.style, The(StylesAt(sheet.colStyles, c), DefaultStyle))]
  BY <1>3, <1>4 DEF CellAt, The, none
<1>7. CellIn(row, sheet.colStyles, c) = Default(row, sheet.colStyles, c)
  BY <1>5 DEF CellIn, The
<1>8. QED
  BY <1>2, <1>5, <1>6, <1>7 DEF Default, row

\* One row with a number.
LEMMA OneRowEach ==
  ASSUME NEW rows, IsSeq(rows), Rising(rows), \A i \in DOMAIN rows : rows[i].at \in Nat
  PROVE  \A i, j \in DOMAIN rows : rows[i].at = rows[j].at => i = j
<1>1. \A i \in DOMAIN rows : i \in Nat
  BY SequencesAre
<1>2. QED
  BY <1>1 DEF Rising

\* What a row is made from reads as the sheet did there.
LEMMA SourceReads ==
  ASSUME NEW sheet, PatchedSheet(sheet), NEW patches, PatchList(patches),
         NEW row, NEW made, Source(row, made, sheet.rows, patches), NEW c
  PROVE  /\ CellAt(sheet, <<row.at, c>>) = CellIn(row, sheet.colStyles, c)
         /\ OnePerColumn(row)
         /\ Has(row, c) => There(sheet, <<row.at, c>>)
<1>1. /\ IsSeq(sheet.rows) /\ Rising(sheet.rows)
      /\ \A i \in DOMAIN sheet.rows : RowShape(sheet.rows[i])
  BY DEF PatchedSheet, Shaped
<1>2. \A i \in DOMAIN sheet.rows : sheet.rows[i].at \in Nat /\ OnePerColumn(sheet.rows[i])
  BY <1>1, RowsAreShaped
<1>3. CASE \E i \in DOMAIN sheet.rows : row = sheet.rows[i]
  <2>1. PICK i \in DOMAIN sheet.rows : row = sheet.rows[i]
    BY <1>3
  <2>2. \A j \in DOMAIN sheet.rows : sheet.rows[j].at = row.at => j = i
    BY <1>1, <1>2, <2>1, OneRowEach
  <2>3. CellAt(sheet, <<row.at, c>>) = CellIn(sheet.rows[i], sheet.colStyles, c)
    BY <2>1, <2>2, ReadsItsRow
  <2>4. Has(row, c) => There(sheet, <<row.at, c>>)
    BY <2>1 DEF There
  <2>5. QED
    BY <1>2, <2>1, <2>3, <2>4
<1>4. CASE \E n \in PatchedRows(patches) : row = EmptyRow(n) /\ n \notin RowNumbers(sheet.rows)
  <2>1. PICK n \in PatchedRows(patches) : row = EmptyRow(n) /\ n \notin RowNumbers(sheet.rows)
    BY <1>4
  <2>2. row.at = n /\ row.cells = <<>> /\ DOMAIN row.cells = {}
    BY <2>1 DEF EmptyRow
  <2>3. CellAt(sheet, <<n, c>>) = CellIn(EmptyRow(n), sheet.colStyles, c)
    BY <2>1, ReadsNoRow
  <2>4. OnePerColumn(row) /\ ~Has(row, c)
    BY <2>2 DEF OnePerColumn, Has
  <2>5. QED
    BY <2>1, <2>2, <2>3, <2>4
<1>5. QED
  BY <1>3, <1>4 DEF Source

\* Both sheets at one place.
PlaceKept(sheet, new, patches, r, c) ==
  /\ \A x, y \in CellsAt(new, <<r, c>>) : x = y
  /\ CellAt(new, <<r, c>>) = AsPatched(CellAt(sheet, <<r, c>>), patches, <<r, c>>)
  /\ CellsAt(new, <<r, c>>) # {} =>
       /\ \A d \in new.dim : In(d, <<r, c>>)
       /\ \A i \in DOMAIN new.rows : new.rows[i].at = r =>
            \A s \in new.rows[i].spans :
              \/ c \in s[1]..s[2]
              \/ \E row \in ToSet(sheet.rows) : row.at = r /\ row.spans = {}

\* A sheet so written shows every cell as it was, or as its patch has it.
LEMMA PatchworkKeeps ==
  ASSUME NEW sheet, PatchedSheet(sheet), NEW patches, PatchList(patches), NEW new,
         Patchwork(sheet, new, patches), NEW r \in 1..MaxOf["row"], NEW c
  PROVE  PlaceKept(sheet, new, patches, r, c)
<1>1. /\ IsSeq(new.rows) /\ Rising(new.rows) /\ new.colStyles = sheet.colStyles
      /\ \A i \in DOMAIN new.rows : new.rows[i].at \in Nat
      /\ RowNumbers(new.rows) = RowNumbers(sheet.rows) \cup PatchedRows(patches)
  BY DEF Patchwork, Written
<1>2. CASE r \notin RowNumbers(new.rows)
  <2>1. r \notin RowNumbers(sheet.rows) /\ <<r, c>> \notin Patched(patches)
    BY <1>1, <1>2 DEF PatchedRows
  <2>2. CellAt(new, <<r, c>>) = CellAt(sheet, <<r, c>>) /\ CellsAt(new, <<r, c>>) = {}
    BY <1>1, <1>2, <2>1, ReadsNoRow
  <2>3. QED
    BY <2>1, <2>2 DEF PlaceKept, AsPatched
<1>3. CASE r \in RowNumbers(new.rows)
  <2>1. PICK i \in DOMAIN new.rows : new.rows[i].at = r
    BY <1>3 DEF RowNumbers
  <2>2. PICK row : /\ Source(row, new.rows[i], sheet.rows, patches)
                   /\ RowFollows(row, new.rows[i], sheet.colStyles, patches)
    BY <2>1 DEF Patchwork, Written
  <2> DEFINE made == new.rows[i]
             mine == {k \in DOMAIN made.cells : made.cells[k].col = c}
  <2>3. /\ row.at = r /\ OnePerColumn(made)
        /\ \A x : Has(made, x) <=> Has(row, x) \/ <<r, x>> \in Patched(patches)
        /\ row.spans # {} =>
             \A s \in made.spans : \A k \in DOMAIN made.cells : made.cells[k].col \in s[1]..s[2]
    BY <2>1, <2>2 DEF RowFollows
  <2>4. \A j \in DOMAIN new.rows : new.rows[j].at = r => j = i
    BY <1>1, <2>1, OneRowEach
  <2>5. /\ CellAt(new, <<r, c>>) = CellIn(made, sheet.colStyles, c)
        /\ CellsAt(new, <<r, c>>) = {<<i, k>> : k \in mine}
    BY <1>1, <2>1, <2>4, ReadsItsRow
  <2>6. /\ CellAt(sheet, <<r, c>>) = CellIn(row, sheet.colStyles, c)
        /\ OnePerColumn(row) /\ (Has(row, c) => There(sheet, <<r, c>>))
    BY <2>2, <2>3, SourceReads
  <2>7. CellIn(made, sheet.colStyles, c)
          = AsPatched(CellIn(row, sheet.colStyles, c), patches, <<r, c>>)
    BY <2>2, <2>3, <2>6, FollowingRowShows
  <2> HIDE DEF made
  <2>8. \A x, y \in CellsAt(new, <<r, c>>) : x = y
    BY <2>3, <2>5 DEF OnePerColumn
  <2>9. ASSUME CellsAt(new, <<r, c>>) # {}
        PROVE  /\ \A d \in new.dim : In(d, <<r, c>>)
               /\ \A j \in DOMAIN new.rows : new.rows[j].at = r =>
                    \A s \in new.rows[j].spans :
                      \/ c \in s[1]..s[2]
                      \/ \E x \in ToSet(sheet.rows) : x.at = r /\ x.spans = {}
    <3>1. PICK k \in DOMAIN made.cells : made.cells[k].col = c
      BY <2>5, <2>9
    <3>2. Has(made, c)
      BY <3>1 DEF Has
    <3>3. There(sheet, <<r, c>>) \/ <<r, c>> \in Patched(patches)
      BY <2>3, <2>6, <3>2
    <3>4. \A d \in new.dim : In(d, <<r, c>>)
      BY <3>3 DEF Patchwork
    <3>5. ASSUME NEW s \in made.spans
          PROVE  \/ c \in s[1]..s[2]
                 \/ \E x \in ToSet(sheet.rows) : x.at = r /\ x.spans = {}
      <4>1. CASE row.spans # {}
        BY <2>3, <3>1, <4>1
      <4>2. CASE row.spans = {}
        <5>1. row \in ToSet(sheet.rows)
          BY <2>2, <3>5 DEF Source, ToSet, made
        <5>2. QED
          BY <2>3, <4>2, <5>1
      <4>3. QED
        BY <4>1, <4>2
    <3>6. QED
      BY <2>4, <3>4, <3>5 DEF made
  <2>10. QED
    BY <2>5, <2>6, <2>7, <2>8, <2>9 DEF PlaceKept
<1>4. QED
  BY <1>2, <1>3

\* No patches.
LEMMA UnpatchedKeeps ==
  ASSUME NEW sheet, PatchedSheet(sheet), NEW patches, patches = <<>>
  PROVE  Patchwork(sheet, sheet, patches)
<1> DEFINE rows == sheet.rows
<1>1. Patched(patches) = {}
  BY DEF Patched
<1>2. PatchedRows(patches) = {}
  BY <1>1 DEF PatchedRows
<1>3. IsSeq(rows) /\ Rising(rows) /\ \A i \in DOMAIN rows : RowShape(rows[i])
  BY DEF PatchedSheet, Shaped
<1> HIDE DEF rows
<1>4. ASSUME NEW i \in DOMAIN rows
      PROVE  /\ Source(rows[i], rows[i], rows, patches)
             /\ RowFollows(rows[i], rows[i], sheet.colStyles, patches)
             /\ rows[i].at \in Nat /\ rows[i].at <= MaxOf["row"]
  <2> DEFINE row == rows[i]
  <2>1. RowShape(row)
    BY <1>3
  <2>2. Source(row, row, rows, patches)
    BY DEF Source
  <2> HIDE DEF row
  <2>3. OnePerColumn(row) /\ row.at \in Nat /\ row.at \in 1..MaxOf["row"]
    BY <2>1, RowsAreShaped
  <2>4. \A k \in DOMAIN row.cells :
          row.cells[k] = AsPatched(CellIn(row, sheet.colStyles, row.cells[k].col), patches,
                                   <<row.at, row.cells[k].col>>)
    BY <1>1, <2>3, CellsInRow DEF AsPatched
  <2>5. \A s \in row.spans : \A k \in DOMAIN row.cells : row.cells[k].col \in s[1]..s[2]
    BY <2>1 DEF RowShape
  <2>6. RowFollows(row, row, sheet.colStyles, patches)
    BY <1>1, <2>3, <2>4, <2>5 DEF RowFollows
  <2>7. MaxOf["row"] \in Nat
    BY Sizes DEF Axes
  <2>8. QED
    BY <2>2, <2>3, <2>6, <2>7 DEF row
<1>5. Written(rows, rows, sheet.colStyles, patches, MaxOf["row"])
  BY <1>3, <1>4 DEF Written
<1>6. \A d \in sheet.dim : \A place :
        There(sheet, place) \/ place \in Patched(patches) => In(d, place)
  BY <1>1 DEF PatchedSheet
<1>7. QED
  BY <1>2, <1>5, <1>6 DEF Patchwork, rows

\* What the assumptions say of the sheets and patches.
LEMMA GivenSheets ==
  ASSUME NEW sheet \in Sheets, NEW patches \in Patches
  PROVE  PatchedSheet(sheet) /\ PatchList(patches)
<1>1. /\ DOMAIN sheet = SheetFields
      /\ IsSeq(sheet.colStyles) /\ Apart(sheet.colStyles)
      /\ \A i \in DOMAIN sheet.colStyles :
           {sheet.colStyles[i].min, sheet.colStyles[i].max} \subseteq 1..MaxOf["col"]
      /\ IsSeq(sheet.rows)
      /\ \A i \in DOMAIN sheet.rows : RowShape(sheet.rows[i])
      /\ \A i \in DOMAIN sheet.rows \ {1} : sheet.rows[i - 1].at < sheet.rows[i].at
      /\ sheet.dim \subseteq [top : Nat, left : Nat, bottom : Nat, right : Nat]
      /\ \A d \in sheet.dim, row \in ToSet(sheet.rows) : \A i \in DOMAIN row.cells :
           row.at \in d.top..d.bottom /\ row.cells[i].col \in d.left..d.right
  BY SheetsAssumption DEF SheetFields, IsSeq
<1>2. SheetSpans(sheet.colStyles)
  BY <1>1 DEF SheetSpans
<1>3. Rising(sheet.rows)
  <2>1. \A i \in DOMAIN sheet.rows : sheet.rows[i].at \in Nat
    BY <1>1, RowsAreShaped
  <2>2. QED
    BY <1>1, <2>1, RowsRise
<1>4. Shaped(sheet.rows)
  BY <1>1, <1>3 DEF Shaped
<1>5. \A d \in sheet.dim : \A place : There(sheet, place) => In(d, place)
  <2> SUFFICES ASSUME NEW d \in sheet.dim, NEW place, There(sheet, place) PROVE In(d, place)
    OBVIOUS
  <2>1. PICK i \in DOMAIN sheet.rows :
          sheet.rows[i].at = place[1] /\ Has(sheet.rows[i], place[2])
    BY DEF There
  <2>2. PICK k \in DOMAIN sheet.rows[i].cells : sheet.rows[i].cells[k].col = place[2]
    BY <2>1 DEF Has
  <2>3. sheet.rows[i] \in ToSet(sheet.rows)
    BY DEF ToSet
  <2>4. QED
    BY <1>1, <2>1, <2>2, <2>3 DEF In
<1>6. PatchList(patches)
  BY PatchesAssumption DEF PatchList, IsSeq
<1>7. QED
  BY <1>1, <1>2, <1>4, <1>5, <1>6 DEF PatchedSheet

\* Whatever patcher is taken.
LEMMA PatchWorksheetPatches ==
  ASSUME NEW sheet, PatchedSheet(sheet), NEW patches, PatchList(patches),
         Splices(sheet, patches) \/ \A i \in DOMAIN sheet.rows : sheet.rows[i].r # 0
  PROVE  Patchwork(sheet, PatchWorksheet(sheet, patches), patches)
<1>1. CASE patches = <<>>
  BY <1>1, UnpatchedKeeps DEF PatchWorksheet
<1>2. CASE patches # <<>> /\ Splices(sheet, patches)
  BY <1>2, SpliceCellsPatches DEF PatchWorksheet
<1>3. CASE patches # <<>> /\ ~Splices(sheet, patches)
  <2>1. Indexed(sheet.rows)
    BY <1>3 DEF Indexed, PatchedSheet, Shaped, RowShape
  <2>2. Patchwork(sheet, PatchRows(sheet, patches), patches)
    BY <1>3, <2>1, PatchRowsPatches
  <2>3. QED
    BY <1>3, <2>2 DEF PatchWorksheet
<1>4. QED
  BY <1>1, <1>2, <1>3

\* What the lemmas say of a patched sheet is what the property does.
LEMMA PatchworkIsPatched ==
  ASSUME NEW sheet \in Sheets, NEW patches \in Patches
  PROVE  SheetIsPatched(sheet, patches, PatchWorksheet(sheet, patches))
<1> DEFINE new == PatchWorksheet(sheet, patches)
<1>1. ASSUME Splices(sheet, patches) \/ \A i \in DOMAIN sheet.rows : sheet.rows[i].r # 0
      PROVE  /\ \A i \in DOMAIN new.rows \ {1} : new.rows[i - 1].at < new.rows[i].at
             /\ \A place \in (1..MaxOf["row"]) \X (1..MaxOf["col"]) :
                  PlaceIsPatched(sheet, patches, new, place)
  <2>1. PatchedSheet(sheet) /\ PatchList(patches)
    BY GivenSheets
  <2>2. Patchwork(sheet, new, patches)
    BY <1>1, <2>1, PatchWorksheetPatches
  <2> HIDE DEF new
  <2>3. \A i \in DOMAIN new.rows \ {1} : new.rows[i - 1].at < new.rows[i].at
    <3>1. IsSeq(new.rows) /\ Rising(new.rows)
      BY <2>2 DEF Patchwork, Written
    <3>2. Len(new.rows) \in Nat /\ DOMAIN new.rows = 1..Len(new.rows)
      BY <3>1, SequencesAre
    <3>3. \A i \in DOMAIN new.rows \ {1} : i - 1 \in DOMAIN new.rows /\ i - 1 < i
      BY <3>2
    <3>4. QED
      BY <3>1, <3>3 DEF Rising
  <2>4. ASSUME NEW place \in (1..MaxOf["row"]) \X (1..MaxOf["col"])
        PROVE  PlaceIsPatched(sheet, patches, new, place)
    <3>1. place[1] \in 1..MaxOf["row"] /\ place = <<place[1], place[2]>>
      OBVIOUS
    <3>2. PlaceKept(sheet, new, patches, place[1], place[2])
      BY <2>1, <2>2, <3>1, PatchworkKeeps
    <3>3. /\ \A x, y \in CellsAt(new, place) : x = y
          /\ CellAt(new, place) = AsPatched(CellAt(sheet, place), patches, place)
          /\ CellsAt(new, place) # {} =>
               /\ \A d \in new.dim : In(d, place)
               /\ \A i \in DOMAIN new.rows : new.rows[i].at = place[1] =>
                    \A s \in new.rows[i].spans :
                      \/ place[2] \in s[1]..s[2]
                      \/ \E row \in ToSet(sheet.rows) : row.at = place[1] /\ row.spans = {}
      BY <3>1, <3>2 DEF PlaceKept
    <3>4. Cardinality(CellsAt(new, place)) <= 1
      <4>1. CASE CellsAt(new, place) = {}
        <5>1. Cardinality(CellsAt(new, place)) = 0
          BY <4>1, FS_EmptySet
        <5>2. QED
          BY <5>1
      <4>2. CASE CellsAt(new, place) # {}
        <5>1. PICK x \in CellsAt(new, place) : CellsAt(new, place) = {x}
          BY <3>3, <4>2
        <5>2. Cardinality(CellsAt(new, place)) = 1
          BY <5>1, FS_Singleton
        <5>3. QED
          BY <5>2
      <4>3. QED
        BY <4>1, <4>2
    <3>5. CellAt(new, place) =
            IF place \notin Patched(patches) THEN CellAt(sheet, place)
            ELSE [CellAt(sheet, place) EXCEPT
                    !.value = IF PatchOf(patches, place).value = {} THEN @
                              ELSE CHOOSE v \in PatchOf(patches, place).value : TRUE,
                    !.style = IF PatchOf(patches, place).style = {} THEN @
                              ELSE CHOOSE x \in PatchOf(patches, place).style : TRUE]
      BY <3>3 DEF AsPatched, PatchedCell, The
    <3>6. CellsAt(new, place) # {} =>
            /\ \A d \in new.dim : place[1] \in d.top..d.bottom /\ place[2] \in d.left..d.right
            /\ \A i \in DOMAIN new.rows : new.rows[i].at = place[1] =>
                 \A spans \in new.rows[i].spans :
                   \/ place[2] \in spans[1]..spans[2]
                   \/ \E row \in ToSet(sheet.rows) : row.at = place[1] /\ row.spans = {}
      BY <3>3 DEF In
    <3>7. QED
      BY <3>4, <3>5, <3>6, Zenon DEF PlaceIsPatched
  <2>5. QED
    BY <2>3, <2>4
<1> HIDE DEF new
<1>2. SheetIsPatched(sheet, patches, new)
  BY <1>1 DEF SheetIsPatched
<1>3. QED
  BY <1>2 DEF new

\* PatchKeepsTheSheet (sheet_patcher.rs:94-526), for every sheet and every list of
\* patches: writing cells leaves all the others as a reader sees them, whichever of
\* the two patchers runs.
THEOREM PatchesKeepTheSheet == Spec => []PatchKeepsTheSheet
<1>1. Init => PatchKeepsTheSheet
  BY DEF Init, PatchKeepsTheSheet
<1>2. PatchKeepsTheSheet /\ [Next]_vars => PatchKeepsTheSheet'
  <2> SUFFICES ASSUME PatchKeepsTheSheet, [Next]_vars
               PROVE  PatchKeepsTheSheet'
    OBVIOUS
  <2>1. CASE UNCHANGED vars
    BY <2>1 DEF vars, PatchKeepsTheSheet
  <2>2. CASE Next /\ given'.what = "patch"
    <3>1. PatchASheet
      BY <2>2, Asked
    <3>2. PICK sheet \in Sheets, patches \in Patches :
            /\ given' = [what |-> "patch", sheet |-> sheet, patches |-> patches]
            /\ result' = PatchWorksheet(sheet, patches)
      BY <3>1 DEF PatchASheet
    <3>3. given'.sheet = sheet /\ given'.patches = patches
      BY <3>2
    <3>4. SheetIsPatched(given'.sheet, given'.patches, result')
      BY <3>2, <3>3, PatchworkIsPatched
    <3>5. QED
      BY <3>4 DEF PatchKeepsTheSheet
  <2>3. CASE given'.what # "patch"
    BY <2>3 DEF PatchKeepsTheSheet
  <2>4. QED
    BY <2>1, <2>2, <2>3
<1>3. QED
  BY <1>1, <1>2, PTL DEF Spec

=============================================================================
