----------------------------- MODULE MCPeekGrid -----------------------------
(* PeekGrid on a wide sheet, a narrow one and one that could not be loaded. *)
EXTENDS PeekGrid

Text(text) == [text |-> text, number |-> <<>>]
Number(text, number) == [text |-> text, number |-> <<number>>]
Empty == Text(<<>>)

\* A column of numbers with a blank, and one of texts of which two are equal.
MCSheets ==
  << [columns |-> 2, widths |-> <<2, 3>>,
      rows |-> << <<Number(<<2>>, 20), Text(<<1, 2>>)>>,
                  <<Empty, Text(<<2>>)>>,
                  <<Number(<<1, 1>>, 3), Text(<<1, 2>>)>> >>],
     [columns |-> 1, widths |-> <<1>>, rows |-> << <<Text(<<2, 1>>)>>, <<Text(<<1>>)>> >>],
     [columns |-> 0, widths |-> <<>>, rows |-> <<>>] >>

\* One row and one column of the first sheet, and two of each.
MCScreens == {[width |-> 3, page |-> 1], [width |-> 9, page |-> 2]}
=============================================================================
