---------------------------- MODULE MCSheetQueue ----------------------------
(* SheetQueue on workbooks of two and three sheets. *)
EXTENDS SheetQueue

MCLoaded2 == <<"A", "B">>
MCLoaded3 == <<"A", "B", "C">>
MCOffsets == {-1, 1, 2}

Session(callKinds, new, retitles, saveKinds, faults, maxCalls, maxSaves) ==
  [calls |-> callKinds, newTitles |-> new, retitles |-> retitles,
   saves |-> saveKinds, faults |-> faults,
   maxCalls |-> maxCalls, maxSaves |-> maxSaves]

\* The sessions whose saves write what is shown: one queue discipline each.
MCFaithful ==
  { Session({"create", "retitle", "remove"}, Titles, Titles, {"in_place"}, FALSE, 3, 2),
    Session({"move", "insert_rows"}, {}, {}, {"elsewhere"}, TRUE, 3, 3),
    Session({"rename", "move"}, {}, {"X"}, {"elsewhere"}, TRUE, 3, 3),
    Session({"copy", "rename"}, {"Y", "Z"}, {"X"}, {"in_place"}, FALSE, 3, 1) }

\* Every call with every kind of save; the calls that make and drop sheets with
\* in-place saves alone.
MCAll ==
  { Session(CallKinds, {"A", "X"}, {"A", "X"}, {"in_place", "elsewhere"}, TRUE, 3, 2),
    Session({"create", "remove", "copy"}, {"A", "X", "Y"}, {}, {"in_place"}, FALSE, 4, 3),
    Session({"create", "retitle", "remove", "rename"}, {"A", "X"}, {"A", "X"},
            {"in_place"}, FALSE, 4, 3) }

MCSessions == MCFaithful \cup MCAll

MCShift ==
  {Session({"insert_rows"}, {}, {}, {"in_place"}, FALSE, 1, 2)}
=============================================================================
