---------------------------- MODULE MCSaveFiles ----------------------------
(* SaveFiles with two workbooks or one, on two paths. *)
EXTENDS SaveFiles

Session(books, kinds, modes, mapped, dests, unedited, faults, maxOthers, maxSaves) ==
  [books |-> books, kinds |-> kinds, modes |-> modes, mapped |-> mapped, loads |-> {1},
   dests |-> dests, unedited |-> unedited, linked |-> BOOLEAN,
   faults |-> faults, others |-> maxOthers, saves |-> maxSaves]

\* Saves that keep what they promise: one workbook saved back to its path; saved
\* to both paths without what a save clears; saved unedited; and two workbooks of
\* one file.
MCWhole ==
  { Session({"a"}, {"cells", "merges", "props"}, {"read", "modify"}, BOOLEAN, {1}, FALSE, TRUE, 1, 2),
    Session({"a"}, {"cells", "layout", "props"}, {"read", "modify"}, {TRUE}, {1}, FALSE, FALSE, 1, 2),
    Session({"a"}, {"cells", "merges"}, {"modify"}, {TRUE}, Paths, FALSE, TRUE, 1, 2),
    Session({"a"}, {"merges"}, {"read"}, BOOLEAN, Paths, TRUE, TRUE, 1, 2),
    Session(Books, {"cells", "props"}, {"modify"}, {TRUE}, {1}, FALSE, TRUE, 1, 1) }
=============================================================================
