------------------------------ MODULE McpFiles ------------------------------
(***************************************************************************)
(* MCP server processes editing one workbook file                          *)
(* (crates/wolfxl-cli/src/mcp: mod.rs, files.rs, tools.rs).                *)
(*                                                                         *)
(* A server answers one request at a time, but nothing locks the file:     *)
(* every fs::read and the rename of atomic_write is a step of its own, and *)
(* other servers and programs write between them.  A file's revision is    *)
(* the SHA-256 of its bytes, so a content stands for its own revision.     *)
(***************************************************************************)
EXTENDS Naturals, FiniteSets, SequencesExt

CONSTANTS Servers,        \* server processes working on the file
          ReadOnly,       \* the servers started with --read-only
          Content,        \* the contents the workbook may have
          NoFile,         \* file does not exist
          None,           \* no value
          Size,           \* Size[c]: the bytes of content c
          HISTORY_ENTRIES,
          HISTORY_BYTES

ASSUME ServersAssumption == ReadOnly \subseteq Servers /\ None \notin Servers
ASSUME ContentAssumption ==
  /\ NoFile \notin Content
  /\ None \notin Content \cup {"edit", "undo", "redo"}
  /\ Size \in [Content -> Nat]
ASSUME BudgetAssumption ==
  /\ HISTORY_ENTRIES \in Nat \ {0}
  /\ HISTORY_BYTES \in Nat

VARIABLES file,          \* what the path holds
          initialized,   \* the servers that answered initialize
          history,       \* per server, the History of the path
          pc,            \* per server, how far its current request is
          job,           \* per server, what that request is about to write
          known,         \* per server, the revision its client read last
          raced          \* ghost: per server, another writer changed the file
                         \* after the server last compared it

vars == <<file, initialized, history, pc, job, known, raced>>

-----------------------------------------------------------------------------
\* History, with revision None for the empty string of History::default().
EmptyHistory == [undo |-> <<>>, redo |-> <<>>, revision |-> None]

SnapshotBytes(snapshots) ==
  FoldLeft(LAMBDA total, c : total + Size[c], 0, snapshots)

Drop(s, n) == SubSeq(s, n + 1, Len(s))

WithinBudget(snapshots) ==
  \/ Len(snapshots) <= 1
  \/ /\ Len(snapshots) <= HISTORY_ENTRIES
     /\ SnapshotBytes(snapshots) <= HISTORY_BYTES

\* Fault: the byte budget is forgotten.
TrimByCount(snapshots) ==
  Drop(snapshots, IF Len(snapshots) > HISTORY_ENTRIES
                  THEN Len(snapshots) - HISTORY_ENTRIES ELSE 0)

\* trim() drops the fewest oldest snapshots that bring the rest within budget.
Trim(snapshots) ==
  Drop(snapshots, CHOOSE n \in 0..Len(snapshots) :
                    /\ WithinBudget(Drop(snapshots, n))
                    /\ \A m \in 0..(n - 1) : ~WithinBudget(Drop(snapshots, m)))

Pop(stack) == SubSeq(stack, 1, Len(stack) - 1)

\* Fault: redo survives a new edit.
AfterEditKeepingRedo(h, before, after) ==
  [undo |-> Trim(Append(IF h.revision = before THEN h.undo ELSE <<>>, before)),
   redo |-> h.redo,
   revision |-> after]

\* The history of a committed edit: an outside change since the last write
\* makes the older snapshots unusable, and a new edit clears redo.
AfterEdit(h, before, after) ==
  [undo |-> Trim(Append(IF h.revision = before THEN h.undo ELSE <<>>, before)),
   redo |-> <<>>,
   revision |-> after]

\* Fault: undo remembers what it restored instead of what it replaced.
AfterUndoKeepingAfter(h, before, after) ==
  [undo |-> Pop(h.undo), redo |-> Append(h.redo, after), revision |-> after]

AfterUndo(h, before, after) ==
  [undo |-> Pop(h.undo), redo |-> Append(h.redo, before), revision |-> after]

\* No trim here: restore() moves snapshots without looking at the budget.
AfterRedo(h, before, after) ==
  [undo |-> Append(h.undo, before), redo |-> Pop(h.redo), revision |-> after]

AfterCommit(h, j) ==
  CASE j.op = "edit" -> AfterEdit(h, j.before, j.after)
    [] j.op = "undo" -> AfterUndo(h, j.before, j.after)
    [] j.op = "redo" -> AfterRedo(h, j.before, j.after)

-----------------------------------------------------------------------------
Ops == {"edit", "undo", "redo"}
NoJob == [op |-> None, dry |-> FALSE, guard |-> None, before |-> None, after |-> None]
Jobs == [op : Ops, dry : BOOLEAN, guard : Content \cup {None},
         before : Content, after : Content] \cup {NoJob}

Phases ==
  { "idle",      \* waiting for a line on standard input
    "reading",   \* the revision is read, the content not yet
    "prepared",  \* the bytes to write are ready
    "checked",   \* the file was read again and still holds job.before
    "staged",    \* the temporary file is written and synced
    "renamed" }  \* the rename is done, the history not yet updated

\* Between the last comparison with the file and the rename that replaces it.
Exposed(s) == pc[s] \in {"checked", "staged"}

\* Everyone else who is exposed now acts on a stale comparison.
Race(w) == [t \in Servers |-> raced[t] \/ (t # w /\ Exposed(t))]

Reply(s) == /\ pc' = [pc EXCEPT ![s] = "idle"]
            /\ job' = [job EXCEPT ![s] = NoJob]
            /\ raced' = [raced EXCEPT ![s] = FALSE]

-----------------------------------------------------------------------------
Init == /\ file \in Content
        /\ initialized = {}
        /\ history = [s \in Servers |-> EmptyHistory]
        /\ pc = [s \in Servers |-> "idle"]
        /\ job = [s \in Servers |-> NoJob]
        /\ known = [s \in Servers |-> None]
        /\ raced = [s \in Servers |-> FALSE]

\* initialize with a protocol version; repeating it changes nothing.
Initialize(s) ==
  /\ pc[s] = "idle"
  /\ initialized' = initialized \cup {s}
  /\ UNCHANGED <<file, history, pc, job, known, raced>>

\* tools/call is answered with an error until initialize was.
MayCall(s) == pc[s] = "idle" /\ s \in initialized /\ file # NoFile

\* get_workbook and read_range read the file for its revision ...
ReadRevision(s) ==
  /\ MayCall(s)
  /\ pc' = [pc EXCEPT ![s] = "reading"]
  /\ known' = [known EXCEPT ![s] = file]
  /\ UNCHANGED <<file, initialized, history, job, raced>>

\* Fault: a file that is gone still yields a revision.
ReadContentOfMissing(s) ==
  /\ pc[s] = "reading"
  /\ pc' = [pc EXCEPT ![s] = "idle"]
  /\ known' = [known EXCEPT ![s] = file]
  /\ UNCHANGED <<file, initialized, history, job, raced>>

\* ... and open it a second time for what they report.
ReadContent(s) ==
  /\ pc[s] = "reading"
  /\ pc' = [pc EXCEPT ![s] = "idle"]
  /\ known' = [known EXCEPT ![s] = IF file = NoFile THEN None ELSE @]
  /\ UNCHANGED <<file, initialized, history, job, raced>>

\* The tool list of a --read-only server has no mutator in it.
MayMutate(s) == MayCall(s) /\ s \notin ReadOnly

\* Fault: expected_revision is accepted and ignored.
AnyRevision(expected, current) == expected \in Content \cup {None}

\* check_revision: an expected revision, when given, must be the current one.
RevisionMatches(expected, current) == expected \in {None, current}

Prepare(s, op, dry, guard, after) ==
  /\ pc' = [pc EXCEPT ![s] = "prepared"]
  /\ job' = [job EXCEPT ![s] = [op |-> op, dry |-> dry, guard |-> guard,
                                before |-> file, after |-> after]]
  /\ UNCHANGED <<file, initialized, history, known, raced>>

\* An editing tool reads the file, compares the revision, and renders the
\* edited package in memory; an edit that fails leaves nothing behind.
BeginEdit(s) ==
  /\ MayMutate(s)
  /\ \E dry \in BOOLEAN, guard \in {None, known[s]}, after \in Content :
       /\ RevisionMatches(guard, file)
       /\ Prepare(s, "edit", dry, guard, after)

\* Fault: undo and redo do not compare the file with the history's revision.
BeginRestoreUnchecked(s) ==
  /\ MayMutate(s)
  /\ \E dry \in BOOLEAN, guard \in {None, known[s]} :
       /\ RevisionMatches(guard, file)
       /\ \/ /\ history[s].undo # <<>>
             /\ Prepare(s, "undo", dry, guard, Last(history[s].undo))
          \/ /\ history[s].redo # <<>>
             /\ Prepare(s, "redo", dry, guard, Last(history[s].redo))

\* undo and redo also want the file to be what this server last wrote.
BeginRestore(s) ==
  /\ MayMutate(s)
  /\ history[s].revision = file
  /\ \E dry \in BOOLEAN, guard \in {None, known[s]} :
       /\ RevisionMatches(guard, file)
       /\ \/ /\ history[s].undo # <<>>
             /\ Prepare(s, "undo", dry, guard, Last(history[s].undo))
          \/ /\ history[s].redo # <<>>
             /\ Prepare(s, "redo", dry, guard, Last(history[s].redo))

DryRun(s) ==
  /\ pc[s] = "prepared"
  /\ job[s].dry
  /\ Reply(s)
  /\ UNCHANGED <<file, initialized, history, known>>

\* Fault: the write follows the preparation without a second look.
RecheckWithoutReading(s) ==
  /\ pc[s] = "prepared"
  /\ ~job[s].dry
  /\ pc' = [pc EXCEPT ![s] = "checked"]
  /\ UNCHANGED <<file, initialized, history, job, known, raced>>

\* Fault: a conflict is waited out instead of reported.
RecheckUntilEqual(s) ==
  /\ file = job[s].before
  /\ RecheckWithoutReading(s)

\* The second comparison, against a fresh read of the file.
Recheck(s) ==
  /\ pc[s] = "prepared"
  /\ ~job[s].dry
  /\ IF file = job[s].before
     THEN /\ pc' = [pc EXCEPT ![s] = "checked"]
          /\ UNCHANGED <<job, raced>>
     ELSE Reply(s)
  /\ UNCHANGED <<file, initialized, history, known>>

\* atomic_write up to the rename; it copies the permissions of the file, so
\* the file must still be there.
Stage(s) ==
  /\ pc[s] = "checked"
  /\ file # NoFile
  /\ pc' = [pc EXCEPT ![s] = "staged"]
  /\ UNCHANGED <<file, initialized, history, job, known, raced>>

Rename(s) ==
  /\ pc[s] = "staged"
  /\ file' = job[s].after
  /\ pc' = [pc EXCEPT ![s] = "renamed"]
  /\ raced' = Race(s)
  /\ UNCHANGED <<initialized, history, job, known>>

\* Any I/O error of atomic_write removes the temporary file.
WriteFails(s) ==
  /\ Exposed(s)
  /\ Reply(s)
  /\ UNCHANGED <<file, initialized, history, known>>

Record(s) ==
  /\ pc[s] = "renamed"
  /\ history' = [history EXCEPT ![s] = AfterCommit(@, job[s])]
  /\ Reply(s)
  /\ UNCHANGED <<file, initialized, known>>

\* The process ends, at whatever point it is, and is started again.
Restart(s) ==
  /\ Reply(s)
  /\ initialized' = initialized \ {s}
  /\ history' = [history EXCEPT ![s] = EmptyHistory]
  /\ known' = [known EXCEPT ![s] = None]
  /\ UNCHANGED file

\* Another program saves or deletes the workbook.
Outside ==
  /\ file' \in Content \cup {NoFile}
  /\ raced' = Race(None)
  /\ UNCHANGED <<initialized, history, pc, job, known>>

Work(s) == \/ ReadContent(s)
           \/ DryRun(s)
           \/ Recheck(s)
           \/ Stage(s)
           \/ Rename(s)
           \/ WriteFails(s)
           \/ Record(s)

Next == \/ \E s \in Servers : \/ Initialize(s)
                              \/ ReadRevision(s)
                              \/ BeginEdit(s)
                              \/ BeginRestore(s)
                              \/ Work(s)
                              \/ Restart(s)
        \/ Outside

\* A server that has read a request runs it to its reply: nothing in call()
\* waits for anyone.
Fairness == \A s \in Servers : WF_vars(Work(s))

Spec == Init /\ [][Next]_vars /\ Fairness

-----------------------------------------------------------------------------
TypeOK ==
  /\ file \in Content \cup {NoFile}
  /\ initialized \subseteq Servers
  /\ history \in [Servers -> [undo : Seq(Content), redo : Seq(Content),
                              revision : Content \cup {None}]]
  /\ pc \in [Servers -> Phases]
  /\ job \in [Servers -> Jobs]
  /\ known \in [Servers -> Content \cup {None}]
  /\ raced \in [Servers -> BOOLEAN]

\* Undo and redo move snapshots between the stacks without trimming, so the
\* two together stay within the entry limit only because every edit empties
\* redo and trims undo (files.rs:108-110, 140-146).
HistoryBounded ==
  \A s \in Servers :
    Len(history[s].undo) + Len(history[s].redo) <= HISTORY_ENTRIES

\* The undo stack alone is within the entry and byte budgets at all times,
\* though redo pushes onto it without trim() (files.rs:142).
UndoWithinBudget == \A s \in Servers : WithinBudget(history[s].undo)

\* The comparison before the write is good until somebody else writes: a
\* server about to rename over the file, which nobody raced, is about to
\* replace exactly the bytes its edit was made from (files.rs:98-103).
ReplacesWhatItRead ==
  \A s \in Servers : Exposed(s) /\ ~raced[s] => file = job[s].before

\* With expected_revision, and unless raced, those bytes are the ones the
\* client had a revision of (files.rs:73-80).
GuardHonoured ==
  \A s \in Servers :
    Exposed(s) /\ ~raced[s] /\ job[s].guard # None => file = job[s].guard

\* What a server would restore is on top of the stack it will pop, and the
\* file it was computed for is still the history's own revision, from the
\* first read of the request to the update of the history after the rename.
RestoreIsOfTheHistory ==
  \A s \in Servers :
    /\ job[s].op = "undo" => /\ history[s].undo # <<>>
                             /\ job[s].after = Last(history[s].undo)
    /\ job[s].op = "redo" => /\ history[s].redo # <<>>
                             /\ job[s].after = Last(history[s].redo)
    /\ job[s].op \in {"undo", "redo"} => job[s].before = history[s].revision

\* Every request that is being worked on is answered (mod.rs:67-82).
Answered == \A s \in Servers : pc[s] # "idle" ~> pc[s] = "idle"

-----------------------------------------------------------------------------
(* Refinement: each server's history with the file is an UndoFile, an edit
   or a restore taking effect at the rename. *)
Effective(s) == IF pc[s] = "renamed" THEN AfterCommit(history[s], job[s])
                                     ELSE history[s]

LogOf(h) == IF h.revision = None THEN <<>>
            ELSE Append(h.undo, h.revision) \o Reverse(h.redo)

AtOf(h) == IF h.revision = None THEN 0 ELSE Len(h.undo) + 1

Abstract(s) == INSTANCE UndoFile WITH log <- LogOf(Effective(s)),
                                      at <- AtOf(Effective(s))

\* The undo and redo tools do what schema.rs:62-63 says of them: exact bytes,
\* one linear log, cleared ahead of the cursor by an edit, never moved over
\* an outside change.  The one step that may do otherwise is a server's rename
\* over what somebody wrote since its last comparison; whatever happened before,
\* all the others keep to the log.
UndoRedoIsLinear ==
  /\ \A s \in Servers : Abstract(s)!Init
  /\ [][\A s \in Servers : \/ [Abstract(s)!Next]_(Abstract(s)!vars)
                           \/ Rename(s) /\ raced[s]]_vars
=============================================================================
