----------------------------- MODULE MCRewrites -----------------------------
(* Rewrites on a sheet of four rows and three columns. *)
EXTENDS Rewrites

MCMaxOf == [row |-> 4, col |-> 3]
MCPlans ==
  {p \in [axis : Axes, idx : 1..4, n : {-2, -1, 1, 2}] : p.idx <= MCMaxOf[p.axis]}

At(r, c) == [row |-> r, col |-> c]
Corners == {At(r, c) : r \in 1..4, c \in 1..3}
Ref(kind, l, r) == [kind |-> kind, sheet |-> NoSheet, lhs |-> l, rhs |-> r, pinned |-> {}]
MCRefs == {Ref("cell", c, c) : c \in Corners}
          \cup {Ref("range", l, r) : l \in Corners, r \in Corners}
          \cup {Ref("span", [row |-> i], [row |-> j]) : i \in 1..4, j \in 1..4}
          \cup {Ref("span", [col |-> i], [col |-> j]) : i \in 1..3, j \in 1..3}

\* One span, and two that are next to each other or apart.
MCColSpans ==
  {sp \in {<<Span(i, j, "wide")>> : i \in 1..3, j \in 1..3}
          \cup {<<Span(1, i, "wide"), Span(j, k, "dark")>> : i \in 1..2, j \in 2..3, k \in 2..3} :
     /\ \A i \in DOMAIN sp : sp[i].min <= sp[i].max
     /\ Len(sp) = 2 => sp[1].max < sp[2].min}

MCShapes ==
  {s \in [of : {At(r, c) : r \in 0..3, c \in 0..2},
          from : {At(r, c) : r \in 0..3, c \in 0..2},
          to : {At(r, c) : r \in 0..3, c \in 0..2}] :
     \A a \in Axes : s.from[a] <= s.to[a] /\ s.of[a] \in s.from[a]..(s.to[a] + 1)}

MCTables ==
  {[lhs |-> At(r, c), rhs |-> At(q, d), columns |-> [k \in 1..(d - c + 1) |-> d - c + 2 - k], header |-> h] :
     <<r, q>> \in {<<1, 3>>, <<2, 3>>, <<3, 4>>},
     <<c, d>> \in {<<1, 3>>, <<1, 2>>, <<2, 3>>, <<2, 2>>}, h \in BOOLEAN}

\* Rectangles that overlap their destinations and that do not.
MCMoves ==
  {m \in [lo : {At(1, 1), At(2, 1)}, hi : {At(2, 1), At(2, 2)},
          by : {At(1, 0), At(0, 1), At(2, 1), At(-1, 0)}, translate : BOOLEAN] :
     m.lo["row"] + m.by["row"] >= 1}

\* Up to three cells, each of a value or of a formula that reads one of them, with
\* a $ before the row, before both or before neither.
MCPlaces == {At(1, 1), At(2, 1), At(2, 2), At(3, 1), At(4, 2)}
MCGrids ==
  UNION {{[cells |-> {[at |-> c, label |-> <<c>>, refs |-> {[Ref("cell", t, t) EXCEPT !.pinned = pinned] :
                                                               t \in {reads[c]} \cap MCPlaces}] :
                        c \in places},
           attrs |-> [r \in {1, 2} |-> IF r = 1 THEN "tall" ELSE "hidden"]] :
             reads \in [places -> places \cup {At(0, 0)}], pinned \in {{}, {"row"}, Axes}} :
         places \in {p \in SUBSET MCPlaces : Cardinality(p) \in 1..3}}

\* Two rows, of which any cells in the outer columns are there; the first two
\* columns have a style.
MCSheets ==
  {[dim |-> {[top |-> 1, left |-> 1, bottom |-> q, right |-> 3]},
    colStyles |-> <<[min |-> 1, max |-> 2, style |-> 7]>>,
    rows |-> [i \in 1..2 |->
                LET at == IF i = 1 THEN 1 ELSE q
                IN [r |-> IF indexed THEN at ELSE 0, at |-> at, style |-> style[i],
                    spans |-> IF spanned THEN {<<1, 3>>} ELSE {},
                    cells |-> [j \in DOMAIN cols[i] |->
                                 [col |-> cols[i][j], value |-> "old", style |-> j]]]]] :
     q \in {2, 3}, indexed \in BOOLEAN, spanned \in BOOLEAN,
     style \in [1..2 -> {{}, {5}}],
     cols \in [1..2 -> {<<>>, <<1>>, <<3>>, <<1, 3>>}]}
MCPatches ==
  LET P(r, c, v, s) == [row |-> r, col |-> c, value |-> v, style |-> s]
  IN {<<P(r, c, {"new"}, {})>> : r \in 1..4, c \in 1..3}
     \cup {<<P(r, 2, {}, {s})>> : r \in 1..3, s \in {0, 9}}
     \cup {<<P(1, 1, {"new"}, {9}), P(2, c, {Blank}, {})>> : c \in 1..3}
     \cup {<<P(3, c, {"new"}, {}), P(1, 3, {}, {9}), P(3, c, {"newer"}, {})>> : c \in 1..3}

\* A sheet with a table, notes, a drawing, a pivot table and a link, and one
\* with a table of the same name but for its suffix.
MCPackages ==
  LET Rel(id, type, to) == [id |-> id, type |-> type, to |-> to]
      Use(slot, type, id) == [slot |-> slot, type |-> type, id |-> id]
      Part(label, rels, uses) == [label |-> label, rels |-> rels, uses |-> uses,
                                  tableId |-> 0, name |-> <<>>]
      TablePart(id, name) == [Part("columns", <<>>, {}) EXCEPT !.tableId = id, !.name = name]
      Of(kind) == <<kind, 1>>
      Package(gap, swap, head, name2, two) ==
        Of("sheet") :> Part("first",
            <<Rel(4, "hyperlink", <<"web", 1>>), Rel(1, "drawing", Of("drawing")),
              Rel(2, "table", Of("table")), Rel(5, "vml", Of("vml")),
              Rel(6, "comments", Of("comments")), Rel(9, "pivot", Of("pivot"))>>,
            {Use("link", "hyperlink", 4), Use("drawing", "drawing", 1),
             Use("table", "table", 2), Use("legacy", "vml", 5)})
        @@ Of("drawing") :> Part("anchors",
            IF swap THEN <<Rel(2, "image", Of("image")), Rel(1, "chart", Of("chart"))>>
            ELSE <<Rel(1, "chart", Of("chart")), Rel(2, "image", Of("image"))>>,
            {Use("graph", "chart", 1), Use("logo", "image", 2)})
        @@ Of("chart") :> Part("plot",
            <<Rel(2, "style", Of("style")), Rel(1, "colors", Of("colors"))>>, {})
        @@ Of("style") :> Part("thin", <<>>, {}) @@ Of("colors") :> Part("grey", <<>>, {})
        @@ Of("image") :> Part("picture", <<>>, {}) @@ Of("comments") :> Part("notes", <<>>, {})
        @@ Of("vml") :> Part("shapes", IF head THEN <<Rel(1, "image", Of("image"))>> ELSE <<>>,
                             IF head THEN {Use("header", "image", 1)} ELSE {})
        @@ Of("pivot") :> Part("totals", <<Rel(1, "cache", Of("cache"))>>, {})
        @@ Of("cache") :> Part("records", <<>>, {})
        @@ Of("table") :> TablePart(1 + gap, <<1>>)
        @@ (<<"sheet", two>> :> Part("second", <<Rel(1, "table", <<"table", two>>)>>,
                                     {Use("table", "table", 1)}))
        @@ (<<"table", two>> :> TablePart(two + gap, name2))
  IN {Package(gap, swap, head, name2, two) :
        gap \in {0, 1}, swap \in BOOLEAN, head \in BOOLEAN, name2 \in {<<2>>, <<1, 2>>}, two \in {2, 4}}
=============================================================================
