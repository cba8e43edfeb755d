---------------------------- MODULE MCBlockQueues ----------------------------
(* BlockQueues on a bare workbook and on one that has a block of each kind. *)
EXTENDS BlockQueues

MCLoaded == <<"S", "T">>
MCCells == 1..2

MCBare ==
  [sheets |-> [s \in {"S", "T"} |-> EmptySheet],
   rels   |-> [s \in {"S", "T"} |-> <<>>],
   parts  |-> NoParts, dxfs |-> <<>>, types |-> {}]

\* Names of the loaded package are 100 and more.  T has notes and shapes of its
\* own; the tables' ids leave a gap.
MCFull ==
  LET Rel(type, target) == [type |-> type, target |-> target]
  IN [sheets |->
        [S |-> [rules |-> <<101>>, formats |-> <<1>>, links |-> (1 :> 2),
                tables |-> <<3>>, legacy |-> 5],
         T |-> [EmptySheet EXCEPT !.tables = <<1>>, !.legacy = 3]],
      rels |->
        [S |-> (2 :> Rel("link", 102)) @@ (3 :> Rel("table", 1)) @@ (4 :> Rel("notes", 1))
                 @@ (5 :> Rel("shapes", 1)) @@ (6 :> Rel("threads", 1)),
         T |-> (1 :> Rel("table", 2)) @@ (2 :> Rel("notes", 2)) @@ (3 :> Rel("shapes", 3))],
      parts |->
        [table   |-> (1 :> [name |-> 103, id |-> 1, columns |-> 2])
                       @@ (2 :> [name |-> 104, id |-> 3, columns |-> 1]),
         notes   |-> (1 :> (2 :> Placeholder(105))) @@ (2 :> (1 :> Note(106))),
         shapes  |-> (1 :> [notes |-> {2}, others |-> FALSE])
                       @@ (3 :> [notes |-> {1}, others |-> TRUE]),
         threads |-> (1 :> (2 :> 105))],
      dxfs  |-> <<107>>,
      types |-> {"table", "notes", "threads"} \X {1, 2} \ {<<"threads", 2>>}]

MCPackages == {MCBare, MCFull}

Session(callKinds, sheets, packages, saveKinds, faults, maxCalls, maxSaves) ==
  [calls |-> callKinds, sheets |-> sheets, packages |-> packages, saves |-> saveKinds,
   faults |-> faults, maxCalls |-> maxCalls, maxSaves |-> maxSaves]

Everything == CallKinds \ {"create"}

\* One save of everything, where no thread follows a deleted note; saves to other
\* paths of what starts over from the source; saves in place of what is merged by
\* cell; new sheets with tables.
MCSessions ==
  { Session(Everything \ {"thread"}, {"S", "T"}, MCPackages, {"elsewhere"}, FALSE, 3, 1),
    Session({"note", "thread", "unthread"}, {"S", "T"}, MCPackages, {"in_place"},
            FALSE, 3, 1),
    Session({"validate", "format", "link", "unlink", "grow", "note"}, {"S"}, MCPackages,
            {"elsewhere"}, TRUE, 3, 3),
    Session({"link", "unlink"}, {"S", "T"}, MCPackages, {"in_place"}, TRUE, 3, 3),
    Session({"link", "note"}, {"S", "T"}, {MCFull}, {"in_place"}, TRUE, 2, 3),
    Session({"create", "table"}, {"S", "New"}, MCPackages, {"in_place", "elsewhere"},
            FALSE, 3, 1) }
=============================================================================
