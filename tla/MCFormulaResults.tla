--------------------------- MODULE MCFormulaResults ---------------------------
(* FormulaResults on two sheets of three rows; C is a title to rename to. *)
EXTENDS FormulaResults

MCTitles == <<"A", "B", "C">>
a1 == <<"A", 1>>  a2 == <<"A", 2>>  a3 == <<"A", 3>>
b1 == <<"B", 1>>  b2 == <<"B", 2>>
Set(cell, contents) == [cell |-> cell, contents |-> contents]

\* Two inputs, and formulas that are one, two and three steps from them; A3 sorts
\* before B2 and is evaluated after it.
Chain == a1 :> Number(1) @@ a2 :> Formula("add", <<a1, b1>>) @@ a3 :> Formula("add", <<a2, b2>>)
         @@ b1 :> Number(2) @@ b2 :> Formula("copy", <<a2>>)
Results == a2 :> Number(3) @@ a3 :> Number(6) @@ b2 :> Number(3)
Stale == a2 :> Number(7) @@ a3 :> Number(6) @@ b2 :> Number(3)

\* An input's other value and its own, a cell that no formula had, a formula that
\* is made a value or another formula, and one that makes a cycle.
MCEdits == {Set(a1, Number(5)), Set(a1, Number(1)), Set(b1, Formula("copy", <<a1>>)),
            Set(b1, Formula("copy", <<a3>>)), Set(b2, Number(4))}

\* What is perturbed: an input, two inputs, a formula, a formula and its input.
MCWhatIfs == {a1 :> Number(5), a1 :> Number(2) @@ b1 :> Number(1),
              a2 :> Number(4), a1 :> Number(9) @@ b2 :> Number(0)}

Session(mode, caches, callKinds, edits, whatIfs, maxCalls) ==
  [mode |-> mode, file |-> [cells |-> Chain, caches |-> caches], calls |-> callKinds,
   edits |-> edits, whatIfs |-> whatIfs, maxCalls |-> maxCalls]

MCSessions ==
  { Session("write", <<>>, {"edit", "rename", "calculate", "recalculate", "save"},
            MCEdits \cup {Set(a1, Bool(1))}, MCWhatIfs, 5),
    Session("modify", Stale, {"edit", "insert", "calculate", "recalculate", "save"},
            MCEdits, {a1 :> Number(5)}, 5),
    Session("data_only", b2 :> Number(3), {"edit", "insert", "calculate", "save"},
            MCEdits \cup {Set(b2, Formula("copy", <<a2>>))}, {}, 5) }
=============================================================================
