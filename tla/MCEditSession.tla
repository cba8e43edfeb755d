---------------------------- MODULE MCEditSession ----------------------------
(* EditSession on packages of one to three sheets. *)
EXTENDS EditSession, TLC

Ref(sheet, path, row) == [sheet |-> sheet, row |-> row, at |-> <<path, <<0, row>>>>]
Formula(ref, style) == [data |-> "", ref |-> ref, style |-> style]
Value(data, style) == [data |-> data, ref |-> NoRef, style |-> style]
Entry(name, n) == [name |-> name, id |-> n, rid |-> n]

\* Two worksheets and, between them, a chart sheet with a chart; the second
\* worksheet is in a later part; a chain; a name of each scope.
Full ==
  "workbook" :> [entries |-> <<Entry("A", 1), Entry("C", 2), Entry("B", 3)>>,
                 names |-> <<[scope |-> -1, ref |-> Ref("A", "sheet1", 2)],
                             [scope |-> 2, ref |-> Ref("b", "sheet3", 1)],
                             [scope |-> 0, ref |-> Ref("", "sheet1", 2)]>>,
                 active |-> 2, fullCalc |-> FALSE]
  @@ "rels" :> (1 :> [kind |-> "worksheet", path |-> "sheet1"]
                @@ 2 :> [kind |-> "chartsheet", path |-> "chart"]
                @@ 3 :> [kind |-> "worksheet", path |-> "sheet3"]
                @@ 4 :> [kind |-> "calcChain", path |-> "chain"]
                @@ 5 :> [kind |-> "styles", path |-> "styles"])
  @@ "types" :> ("sheet1" :> "worksheet" @@ "sheet3" :> "worksheet" @@ "chart" :> "chartsheet"
                 @@ "chain" :> "calcChain" @@ "styles" :> "styles")
  @@ "app" :> <<"A", "B">>
  @@ "styles" :> [formats |-> <<[id |-> 4, code |-> "f"]>>,
                  xfs |-> <<[fmt |-> 0, other |-> "normal", applied |-> FALSE],
                            [fmt |-> 4, other |-> "bold", applied |-> TRUE]>>]
  @@ "chain" :> "chain"
  @@ "chart" :> [ref |-> Ref("A", "sheet1", 2)]
  @@ "sheet1" :> [cells |-> 1 :> Formula(Ref("B", "sheet3", 2), 0) @@ 2 :> Value("x", 1),
                  colStyle |-> 0]
  @@ "sheet3" :> [cells |-> 2 :> Formula(Ref("", "sheet3", 1), 0), colStyle |-> 1]

\* One worksheet without formulas, chain, styles or document properties.
Bare ==
  "workbook" :> [entries |-> <<Entry("A", 7)>>, names |-> <<>>, active |-> 0, fullCalc |-> FALSE]
  @@ "rels" :> (7 :> [kind |-> "worksheet", path |-> "Sheet1"])
  @@ "types" :> ("Sheet1" :> "worksheet")
  @@ "Sheet1" :> [cells |-> 1 :> Value("x", 0), colStyle |-> 0]

Plain ==
  "workbook" :> [entries |-> <<Entry("A", 1), Entry("B", 2)>>, names |-> <<>>,
                 active |-> 1, fullCalc |-> FALSE]
  @@ "rels" :> (1 :> [kind |-> "worksheet", path |-> "sheet2"]
                @@ 2 :> [kind |-> "worksheet", path |-> "data"])
  @@ "types" :> ("sheet2" :> "worksheet" @@ "data" :> "worksheet")
  @@ "sheet2" :> [cells |-> <<>>, colStyle |-> 0]
  @@ "data" :> [cells |-> 1 :> Value("x", 0) @@ 2 :> Formula(Ref("", "data", 1), 0), colStyle |-> 0]

Session(package, editKinds, rows, data, names, codes, maxEdits) ==
  [package |-> package, edits |-> editKinds, rows |-> rows, data |-> data,
   names |-> names, codes |-> codes, maxEdits |-> maxEdits]

\* Renames are left out where a worksheet is outside xl/worksheets/, which they
\* do not reach.
MCSessions ==
  { Session(Full, {"insert", "delete", "rename", "add"}, 1..2, {}, {"b", "D"}, {}, 3),
    Session(Full, {"write", "insert", "rename"}, 1..2, {"y"}, {"D"}, {}, 2),
    Session(Full, {"format", "write", "insert"}, 1..2, {"y"}, {}, {"f", "g"}, 2),
    Session(Bare, Kinds, 1..2, {"y"}, {"B"}, {"f"}, 3),
    Session(Plain, Kinds \ {"rename"}, 1..2, {"y"}, {"b"}, {"f"}, 2) }

ASSUME SessionsReached == \A s \in MCSessions : Reached(s)
=============================================================================
