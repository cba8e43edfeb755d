------------------------------ MODULE UndoFile ------------------------------
(***************************************************************************)
(* What the undo and redo tools of the MCP server promise a client         *)
(* (tool descriptions, crates/wolfxl-cli/src/mcp/schema.rs:62-63): one     *)
(* server process keeps, for one workbook file, a linear log of the exact  *)
(* contents it has seen and written, and a cursor into it.  An edit        *)
(* truncates the log after the cursor, undo and redo move the cursor and   *)
(* put the content under it back in the file, and nothing moves the cursor *)
(* while the file holds anything but the content under it.                 *)
(***************************************************************************)
EXTENDS Naturals, Sequences

CONSTANTS Content,   \* the contents a workbook file may have
          NoFile     \* the value of file when the path names no file

VARIABLES file,      \* what the path holds
          log,       \* contents, oldest first; empty before the first edit
          at         \* the index of the current content, 0 when log is empty

vars == <<file, log, at>>

Init == /\ file \in Content \cup {NoFile}
        /\ log = <<>>
        /\ at = 0

\* Anybody else replaces or deletes the file.
Outside == /\ file' \in Content \cup {NoFile}
           /\ UNCHANGED <<log, at>>

\* What the log holds up to the cursor once the file is known to hold file:
\* an outside change forgets everything.
Known == IF at > 0 /\ log[at] = file THEN SubSeq(log, 1, at) ELSE <<file>>

\* An edit appends its result; the log may lose its oldest contents, never the
\* content the edit started from.
Edit(c) == /\ file \in Content
           /\ file' = c
           /\ \E d \in 0..(Len(Known) - 1) :
                log' = SubSeq(Known, d + 1, Len(Known)) \o <<c>>
           /\ at' = Len(log')

Move(to) == /\ at > 0
            /\ to \in 1..Len(log)
            /\ file = log[at]
            /\ file' = log[to]
            /\ at' = to
            /\ UNCHANGED log

Undo == Move(at - 1)
Redo == Move(at + 1)

\* The process exits; its history goes with it.
Forget == /\ log' = <<>>
          /\ at' = 0
          /\ UNCHANGED file

Next == \/ Outside
        \/ \E c \in Content : Edit(c)
        \/ Undo
        \/ Redo
        \/ Forget

Spec == Init /\ [][Next]_vars
=============================================================================
