------------------------------ MODULE PeekGrid ------------------------------
(***************************************************************************)
(* The interactive grid of the command line, crates/wolfxl-cli/src/tui:    *)
(* a cursor over the cells of one sheet, scrolling, a search, sorting and  *)
(* the sheets visited before.  Each key is one step, its sheet load        *)
(* included; before each key the screen is drawn, whatever its size.       *)
(*                                                                         *)
(* Positions count from 1.  A text is a sequence of lower-case letters,    *)
(* which are numbers; the message of the status line is left out.          *)
(***************************************************************************)
EXTENDS Integers, SequencesExt, FiniteSetsExt, TLC

CONSTANTS Sheets,    \* the sheet's grids: [columns, widths, rows]
          Letters,   \* the letters that are typed
          MaxTyped,  \* bound: the letters of a query
          Screens    \* the sizes of the screen: [width, page]

Cells == [text : Seq(Int), number : Seq(Int)]

\* Grid::with_provenance makes every row as wide as the header, and
\* set_viewport leaves a line for the data on any screen.
ASSUME SheetsAssumption ==
  /\ Sheets \in Seq([columns : Nat, widths : Seq(Nat), rows : Seq(Seq(Cells))])
  /\ \A s \in ToSet(Sheets) : /\ Len(s.widths) = s.columns
                              /\ \A row \in ToSet(s.rows) : Len(row) = s.columns
ASSUME ScreensAssumption == Screens \subseteq [width : Nat, page : Nat \ {0}]

VARIABLES current,  \* the sheet that is shown
          view,     \* its grid: the order of its rows, the cursor, the scrolling
          parked,   \* the views of the sheets visited before
          query,    \* the search, <<>> if there is none
          matches,  \* the cells that contain it, as <<row, column>>
          mode,     \* what keys do: browse, search, frequency or quit
          typed,    \* the query being typed
          screen,   \* the size last drawn
          loads,    \* ghost: how often each sheet was loaded
          leftAt    \* ghost: the views of the other sheets when they were left

vars == <<current, view, parked, query, matches, mode, typed, screen, loads, leftAt>>

NoSort == [column |-> 0, descending |-> FALSE]
NoView == [order |-> <<>>, sort |-> NoSort, row |-> 0, col |-> 0, top |-> 0, left |-> 0]
NewView(i) == [NoView EXCEPT !.order = [r \in DOMAIN Sheets[i].rows |-> r],
                             !.row = 1, !.col = 1, !.top = 1, !.left = 1]

Cell(i, order, row, col) == Sheets[i].rows[order[row]][col]
Blank(cell) == cell.text = <<>>
Numeric(cell) == cell.number # <<>>

\* Screen columns of columns from..to with a separator between neighbours.
Span(i, from, to) ==
  IF to \in 1..Sheets[i].columns
  THEN FoldLeft(LAMBDA sum, w : sum + w, 0, SubSeq(Sheets[i].widths, from, to)) + to - from
  ELSE 0

\* Fault: a row just below the screen counts as on it.
ScrolledLate(i, v, size) ==
  [v EXCEPT !.top = IF v.row < @ THEN v.row
                    ELSE IF v.row > @ + size.page THEN v.row - size.page + 1 ELSE @,
            !.left = Min({v.col} \cup
              {c \in Min({@, v.col})..v.col : Span(i, c, v.col) <= size.width})]

\* scroll_into_view: as little as is needed for the cursor to be on screen.
Scrolled(i, v, size) ==
  [v EXCEPT !.top = IF v.row < @ THEN v.row
                    ELSE IF v.row >= @ + size.page THEN v.row - size.page + 1 ELSE @,
            !.left = Min({v.col} \cup
              {c \in Min({@, v.col})..v.col : Span(i, c, v.col) <= size.width})]

ContainsText(text, q) == \E k \in 1..Len(text) : IsPrefix(q, SubSeq(text, k, Len(text)))

\* The cells of a row that contain the query are added to those of the rows above.
MatchesOfRow(i, order, q, above, row) ==
  FoldLeft(LAMBDA found, col : IF ContainsText(Cell(i, order, row, col).text, q)
                               THEN Append(found, <<row, col>>) ELSE found,
           above, [c \in 1..Sheets[i].columns |-> c])

\* The cells that contain the query, row by row as shown.
Matches(i, order, q) ==
  IF q = <<>> THEN <<>>
  ELSE FoldLeft(LAMBDA found, row : MatchesOfRow(i, order, q, found, row),
                <<>>, [r \in 1..Len(order) |-> r])

Earlier(at, than) == at[1] < than[1] \/ (at[1] = than[1] /\ at[2] < than[2])

\* The first match after the cursor, else the first; the last before, else the last.
NextMatch(found, here) ==
  LET i == SelectInSeq(found, LAMBDA at : Earlier(here, at)) IN found[IF i = 0 THEN 1 ELSE i]
PreviousMatch(found, here) ==
  LET i == SelectLastInSeq(found, LAMBDA at : Earlier(at, here))
  IN found[IF i = 0 THEN Len(found) ELSE i]

Jumped(v, at) == [v EXCEPT !.row = at[1], !.col = at[2]]

-----------------------------------------------------------------------------
(* Sorting. *)
TextBefore(s, t) ==
  \/ IsStrictPrefix(s, t)
  \/ \E k \in 1..Min({Len(s), Len(t)}) :
       s[k] < t[k] /\ SubSeq(s, 1, k - 1) = SubSeq(t, 1, k - 1)

\* Blanks are last either way.
Before(i, col, descending, a, b) ==
  LET cell(r) == Sheets[i].rows[r][col]
      filled  == {r \in DOMAIN Sheets[i].rows : ~Blank(cell(r))}
      numeric == filled # {} /\ \A r \in filled : Numeric(cell(r))
      Less(x, y) == IF numeric THEN x.number[1] < y.number[1] ELSE TextBefore(x.text, y.text)
  IN /\ a \in filled
     /\ b \in filled => IF descending THEN Less(cell(b), cell(a)) ELSE Less(cell(a), cell(b))

\* A row comes after those that it is not before: equal values keep their source order.
Placed(i, col, descending, order, r) ==
  InsertAt(order, 1 + Cardinality({n \in DOMAIN order : ~Before(i, col, descending, r, order[n])}), r)
Ordered(i, col, descending) ==
  FoldLeft(LAMBDA order, r : Placed(i, col, descending, order, r),
           <<>>, [r \in DOMAIN Sheets[i].rows |-> r])

Sorted(i, v) ==
  LET descending == v.sort = [column |-> v.col, descending |-> FALSE]
  IN [v EXCEPT !.order = Ordered(i, v.col, descending),
               !.sort = [column |-> v.col, descending |-> descending]]

-----------------------------------------------------------------------------
(* Keys. *)
Show(v, found) == view' = Scrolled(current, v, screen) /\ matches' = found

\* A key that moves within the sheet that is shown.
Browse(v, found) ==
  /\ mode = "browse"
  /\ Show(v, found)
  /\ UNCHANGED <<current, parked, query, mode, typed, screen, loads, leftAt>>

LastRow == Max({1, Len(view.order)})
LastCol == Max({1, Sheets[current].columns})

Up(rows) == Browse([view EXCEPT !.row = Max({1, @ - rows})], matches)
Down(rows) == Browse([view EXCEPT !.row = Min({@ + rows, LastRow})], matches)
Left == Browse([view EXCEPT !.col = Max({1, @ - 1})], matches)
Right == Browse([view EXCEPT !.col = Min({@ + 1, LastCol})], matches)
Home == Browse([view EXCEPT !.col = 1], matches)
End == Browse([view EXCEPT !.col = LastCol], matches)
ToTop == Browse([view EXCEPT !.row = 1], matches)
ToBottom == Browse([view EXCEPT !.row = LastRow], matches)

FindNext ==
  query # <<>> /\ matches # <<>>
  /\ Browse(Jumped(view, NextMatch(matches, <<view.row, view.col>>)), matches)
FindPrevious ==
  query # <<>> /\ matches # <<>>
  /\ Browse(Jumped(view, PreviousMatch(matches, <<view.row, view.col>>)), matches)

\* Fault: the matches are those of the order before.
SortKeepingMatches ==
  Sheets[current].columns > 0 /\ Browse(Sorted(current, view), matches)

\* The cursor keeps its place on the screen, not its row.
SortRows ==
  Sheets[current].columns > 0
  /\ LET v == Sorted(current, view) IN Browse(v, Matches(current, v.order, query))
RestoreOrder ==
  LET v == [view EXCEPT !.order = NewView(current).order, !.sort = NoSort]
  IN Browse(v, Matches(current, v.order, query))

\* A key that changes what keys do.
Turn(from, to, text) ==
  /\ mode = from
  /\ mode' = to
  /\ typed' = text
  /\ view' = Scrolled(current, view, screen)
  /\ UNCHANGED <<current, parked, query, matches, screen, loads, leftAt>>

Frequency == Sheets[current].columns > 0 /\ Turn("browse", "frequency", <<>>)
CloseFrequency == Turn("frequency", "browse", <<>>)
StartSearch == Turn("browse", "search", <<>>)
TypeLetter(letter) == Len(typed) < MaxTyped /\ Turn("search", "search", Append(typed, letter))
Erase == Turn("search", "search", IF typed = <<>> THEN <<>> ELSE Front(typed))
DropSearch == Turn("search", "browse", <<>>)
Quit == \E from \in {"browse", "search", "frequency"} : Turn(from, "quit", <<>>)

\* An empty query ends the search; any other moves to a match at once.
CommitSearch ==
  LET found == Matches(current, view.order, typed)
  IN /\ mode = "search"
     /\ mode' = "browse"
     /\ query' = typed
     /\ typed' = <<>>
     /\ Show(IF found = <<>> THEN view
             ELSE Jumped(view, NextMatch(found, <<view.row, view.col>>)), found)
     /\ UNCHANGED <<current, parked, screen, loads, leftAt>>

\* Fault: the view that is left is parked in the place of the one that is shown.
ParkInPlaceOfShown(i) == [parked EXCEPT ![i] = view]

\* show() for sheet i: the view that is left is parked.
Park(i) == [parked EXCEPT ![i] = NoView, ![current] = view]

\* Tab and back tab: a sheet visited before is as it was left, another is loaded.
Cycle(forward) ==
  LET count == Len(Sheets)
      i     == 1 + ((current - 1 + (IF forward THEN 1 ELSE count - 1)) % count)
      v     == IF parked[i] # NoView THEN parked[i] ELSE NewView(i)
  IN /\ mode = "browse"
     /\ count >= 2
     /\ loads' = IF parked[i] # NoView THEN loads ELSE [loads EXCEPT ![i] = @ + 1]
     /\ parked' = Park(i)
     /\ leftAt' = [leftAt EXCEPT ![i] = NoView, ![current] = view]
     /\ current' = i
     /\ matches' = Matches(i, v.order, query)
     /\ view' = Scrolled(i, v, screen)
     /\ UNCHANGED <<query, mode, typed, screen>>

\* The screen is drawn, in its size of this moment.
Draw(size) ==
  /\ mode # "quit"
  /\ screen' = size
  /\ view' = Scrolled(current, view, size)
  /\ UNCHANGED <<current, parked, query, matches, mode, typed, loads, leftAt>>

Init ==
  /\ current \in DOMAIN Sheets
  /\ view = NewView(current)
  /\ parked = [i \in DOMAIN Sheets |-> NoView]
  /\ query = <<>>
  /\ matches = <<>>
  /\ mode = "browse"
  /\ typed = <<>>
  /\ screen \in Screens
  /\ loads = [i \in DOMAIN Sheets |-> IF i = current THEN 1 ELSE 0]
  /\ leftAt = [i \in DOMAIN Sheets |-> NoView]

Next ==
  \/ Up(1) \/ Down(1) \/ Up(screen.page) \/ Down(screen.page)
  \/ Left \/ Right \/ Home \/ End \/ ToTop \/ ToBottom
  \/ FindNext \/ FindPrevious \/ SortRows \/ RestoreOrder
  \/ Frequency \/ CloseFrequency
  \/ StartSearch \/ Erase \/ DropSearch \/ CommitSearch
  \/ \E letter \in Letters : TypeLetter(letter)
  \/ \E forward \in BOOLEAN : Cycle(forward)
  \/ \E size \in Screens : Draw(size)
  \/ Quit

Spec == Init /\ [][Next]_vars

-----------------------------------------------------------------------------
\* After every key and every change of the screen's size, the cursor's row is on
\* the screen, and its column is whole unless it alone is too wide, whatever
\* sheet was parked when the screen had another size (app.rs:223-237).
CursorVisible ==
  /\ view.row \in view.top..(view.top + screen.page - 1)
  /\ view.left <= view.col
  /\ Span(current, view.left, view.col) <= screen.width \/ view.left = view.col

\* The matches are always those of the sheet, the order and the query that are
\* shown: each names a cell that contains the query, none is left out, and they
\* are in the order of the screen.  n from a match goes on to another one if there
\* is one, N comes back from it, and n comes to every match before it comes to one
\* again (app.rs:281-329).
SearchFindsAll ==
  LET Holds(text) ==
        \E a, b \in DOMAIN text : a <= b /\ SubSeq(text, a, b) = query
      cells == {at \in (DOMAIN view.order) \X (1..Sheets[current].columns) :
                  Holds(Cell(current, view.order, at[1], at[2]).text)}
      after == [at \in ToSet(matches) |-> NextMatch(matches, at)]
  IN /\ ToSet(matches) = cells
     /\ \A i, j \in DOMAIN matches : i < j => Earlier(matches[i], matches[j])
     /\ \A at \in ToSet(matches) : PreviousMatch(matches, after[at]) = at
     /\ \A S \in SUBSET ToSet(matches) :
          S # {} /\ {after[at] : at \in S} \subseteq S => S = ToSet(matches)

\* Every sheet is loaded at most once, and one visited before is shown with
\* the order, the sort and the cursor it was left with (app.rs:239-268).
SheetsRemembered ==
  /\ \A i \in DOMAIN Sheets :
       loads[i] = IF i = current \/ parked[i] # NoView THEN 1 ELSE 0
  /\ \A i \in DOMAIN Sheets \ {current} : parked[i] = leftAt[i]
=============================================================================
