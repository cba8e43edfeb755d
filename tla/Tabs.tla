-------------------------------- MODULE Tabs --------------------------------
(***************************************************************************)
(* What the tab list of an open workbook promises                          *)
(* (python/wolfxl/_workbook.py: create_sheet, remove, copy_worksheet,      *)
(* move_sheet, insert_rows, save): every call changes the tabs at once,    *)
(* and a save writes the tabs the workbook shows, each with its content.   *)
(***************************************************************************)
EXTENDS Integers, SequencesExt

CONSTANT Titles

VARIABLES tabs,    \* the tabs shown, [title, content] from left to right
          written  \* the tabs in the package the last successful save wrote

vars == <<tabs, written>>

\* A content is the sheet its cells come from and the row insertions since.
Blank == [of |-> "blank", shifts |-> 0]
Contents == [of : Titles \cup {"blank"}, shifts : Nat]

\* Inserting rows into a sheet with no cells leaves it as it was.
Shifted(c) == IF c = Blank THEN Blank ELSE [c EXCEPT !.shifts = @ + 1]

TitlesOf(s) == {s[i].title : i \in DOMAIN s}

Moved(s, from, to) == InsertAt(RemoveAt(s, from), to, s[from])

Init == /\ tabs \in Seq([title : Titles, content : Contents])
        /\ written = tabs

Create == \E t \in Titles \ TitlesOf(tabs), i \in 1..(Len(tabs) + 1) :
            tabs' = InsertAt(tabs, i, [title |-> t, content |-> Blank])

RemoveTab(i) == tabs' = RemoveAt(tabs, i)

Rename(i) == \E t \in Titles \ TitlesOf(tabs) :
               tabs' = [tabs EXCEPT ![i].title = t]

Move(i) == \E to \in DOMAIN tabs : tabs' = Moved(tabs, i, to)

Copy(i) == \E t \in Titles \ TitlesOf(tabs) :
             tabs' = Append(tabs, [title |-> t, content |-> tabs[i].content])

InsertRows(i) == tabs' = [tabs EXCEPT ![i].content = Shifted(@)]

Edit == /\ \/ Create
           \/ \E i \in DOMAIN tabs : \/ RemoveTab(i)
                                     \/ Rename(i)
                                     \/ Move(i)
                                     \/ Copy(i)
                                     \/ InsertRows(i)
        /\ UNCHANGED written

Save == written' = tabs /\ UNCHANGED tabs

Next == Edit \/ Save

Spec == Init /\ [][Next]_vars
=============================================================================
