------------------------------ MODULE MCStreams ------------------------------
(* Streams of two sheets, a sheet that is held as a whole, and readings of
   sheets of up to three rows. *)
EXTENDS Streams

MCTitles == <<"A", "B">>
MCRows == {<<"x">>, <<None, "y">>, <<None>>, <<"x", Refused>>}

Cell(c, v) == [c |-> c, v |-> v]
Row(r, cells, plain) == [r |-> r, cells |-> cells, plain |-> plain]
Cells == {<<>>, <<Cell(2, "p")>>, <<Cell(0, "p"), Cell(3, "q")>>, <<Cell(2, Nil), Cell(0, "q")>>}

\* Rows that follow the last one, or leave a gap.
MCSheets ==
  {[dim |-> dim, rows |-> rows] :
     dim \in {{}, {<<1, 1>>}, {<<2, 3>>}, {<<5, 2>>}},
     rows \in {<<>>} \cup {<<Row(r, cells, p)>> : r \in {0, 2}, cells \in Cells, p \in BOOLEAN}
              \cup {<<Row(r, <<Cell(0, "a")>>, p), Row(q, cells, plain), Row(0, <<Cell(2, "z")>>, TRUE)>> :
                      r \in {0, 2}, q \in {0, 4}, cells \in Cells, p \in BOOLEAN, plain \in BOOLEAN}}
MCRequests ==
  {req \in [kind : Kinds, readOnly : BOOLEAN, reset : BOOLEAN, size : {1, 2},
            minRow : {{}, {2}}, maxRow : {{}, {3}, {6}}, minCol : {{}, {2}}, maxCol : {{}, {2}}] :
     /\ req.kind = "chunks" => req.readOnly
     /\ req.kind # "chunks" => req.size = 1
     /\ req.reset => req.readOnly}

\* Calls on a sheet that is held as a whole, and the sets of cells whose values
\* are gathered into grids.
MCCoords == {<<1, 1>>, <<2, 1>>}
MCAreas == SUBSET ((1..3) \X (1..2))
MCValueRows == {<<"p", "d">>, <<"", "p">>, <<"z">>}
MCGrids == {[at |-> <<1, 1>>, kinds |-> <<<<"p", "d">>, <<"p">>>>],
            [at |-> <<2, 1>>, kinds |-> <<<<"">>, <<"d", "p">>>>],
            [at |-> <<2, 2>>, kinds |-> <<<<"z">>>>]}
MCBase == (<<1, 1>> :> WriteCell(<<"b">>, {})) @@ (<<2, 2>> :> WriteCell(<<"b">>, {}))
=============================================================================
