----------------------------- MODULE SaveFiles -----------------------------
(***************************************************************************)
(* The files behind open workbooks (python/wolfxl/_workbook_save.py,       *)
(* _source_buffer.py): a load maps the file it opened, modify mode patches *)
(* a private copy of it, a save rewrites the package in several steps, and *)
(* a save back to the loaded path publishes the private copy by a rename.  *)
(* Workbooks of one process save concurrently, other programs replace the  *)
(* files, and any step of a save may fail.                                 *)
(*                                                                         *)
(* A package is the package it was loaded from and the edits made to that; *)
(* what an edit says is left out.                                          *)
(***************************************************************************)
EXTENDS Naturals, Sequences

CONSTANTS Books,      \* the workbooks, each with the thread that uses it
          NumPaths,
          Torn,       \* the content of a file that is only partly written
          Sessions    \* the kinds of sessions that are explored

Paths == 1..NumPaths

\* How a save treats an edit: the patcher keeps its cell patches, the merges
\* shown are replayed, the other two are flags that the save clears.
Kinds == {"cells", "layout", "merges", "props"}

Other == 0            \* the base of what another program wrote
Package == [base : Paths \cup {Other}, edits : SUBSET (Books \X Kinds)]

ASSUME FilesAssumption == NumPaths \in Nat \ {0} /\ Torn \notin Package
ASSUME SessionsAssumption ==
  Sessions \subseteq
    [books    : SUBSET Books,                  \* the workbooks that are used
     kinds    : SUBSET Kinds,                  \* what is edited
     modes    : SUBSET {"read", "modify"},     \* how workbooks are loaded
     mapped   : SUBSET BOOLEAN,                \* whether loads can map a file
     loads    : SUBSET Paths,
     dests    : SUBSET Paths,                  \* where workbooks are saved
     unedited : BOOLEAN,                       \* they are saved unedited as well
     linked   : SUBSET BOOLEAN,                \* whether all paths name one file
     faults   : BOOLEAN,                       \* steps and the process may fail
     others   : Nat,                           \* bound: changes by other programs
     saves    : Nat]                           \* bound: saves of each workbook

VARIABLES session,   \* the kind of session that this is
          at,        \* path -> the file it names, NoFile if none
          data,      \* file -> its content; files are numbered as they are made
          book,      \* workbook -> its state
          save,      \* workbook -> the save it runs, or its last
          promised,  \* history: the packages loaded, and those that saves were to write
          loose,     \* history: the paths that saves wrote which were not saves back
          others     \* how often other programs changed a path

files == <<at, data>>
history == <<promised, loose>>
vars == <<session, at, data, book, save, promised, loose, others>>

-----------------------------------------------------------------------------
NoFile == 0
InMemory == 0                       \* the map of a workbook that holds the bytes
Nothing == [base |-> Other, edits |-> {}]

Closed == [mode |-> "closed", origin |-> 0, map |-> InMemory, bytes |-> Nothing,
           private |-> Nothing, dirty |-> {}, shows |-> Nothing]

NoSave == [step |-> "idle", dest |-> 0, home |-> FALSE, fd |-> NoFile,
           put |-> NoFile, mixed |-> FALSE, failed |-> FALSE, count |-> 0]

IsOpen(b) == book[b].mode # "closed"
Idle(b) == save[b].step = "idle"

\* What the source buffer of b serves.
Source(b) == IF book[b].map = InMemory THEN book[b].bytes ELSE data[book[b].map]

(* maps_file *)
\* Fault: nobody asks whether the destination is the mapped file.
MapsFileUnchecked(b, p) == FALSE
MapsFile(b, p) == book[b].map # InMemory /\ at[p] = book[b].map

(* same_existing_path *)
\* Fault: a hard link to the loaded file is taken for another file.
SamePathNever(p, q) == FALSE
SamePath(p, q) == p = q \/ (at[p] # NoFile /\ at[p] = at[q])

ContentAt(p) == IF at[p] = NoFile THEN Torn ELSE data[at[p]]

\* The package c with the edits of b of these kinds.
With(c, b, kinds) == [c EXCEPT !.edits = @ \cup ({b} \X kinds)]

\* The step that follows; only a save of the private copy goes on to publish it.
After(b) ==
  LET s == save[b].step IN
  CASE s = "write"    -> IF book[b].mode = "modify" THEN "layout" ELSE "merges"
    [] s = "fill"     -> "merges"
    [] s = "layout"   -> IF "layout" \in book[b].dirty THEN "rewrite" ELSE "merges"
    [] s = "rewrite"  -> "merges"
    [] s = "merges"   -> "props"
    [] s = "props"    -> IF save[b].home THEN "snapshot" ELSE "idle"
    [] s = "snapshot" -> "rename"
    [] s = "rename"   -> "idle"

Proceed(b) == save' = [save EXCEPT ![b].step = After(b)]

\* A new file with content c, renamed over the destination of b.
Replace(b, c) ==
  /\ data' = Append(data, c)
  /\ at' = [at EXCEPT ![save[b].dest] = Len(data')]
  /\ save' = [save EXCEPT ![b].step = After(b), ![b].put = Len(data')]

\* The package that the earlier steps of the save wrote, and that the next reads.
Target(b) == IF save[b].home THEN book[b].private ELSE ContentAt(save[b].dest)

\* A step of the save adds these edits to its target; cleared ones are no longer dirty.
Rewrite(b, kinds, cleared) ==
  LET d == save[b].dest
      c == With(Target(b), b, kinds)
      cleaned == [book EXCEPT ![b].dirty = @ \ cleared]
  IN /\ Target(b) # Torn
     /\ IF save[b].home
        THEN /\ book' = [cleaned EXCEPT ![b].private = c]
             /\ Proceed(b)
             /\ UNCHANGED files
        ELSE /\ book' = cleaned
             /\ data' = Append(data, c)
             /\ at' = [at EXCEPT ![d] = Len(data')]
             /\ save' = [save EXCEPT ![b].step = After(b), ![b].put = Len(data'),
                                     ![b].mixed = @ \/ at[d] # save[b].put]
-----------------------------------------------------------------------------
Init ==
  /\ session \in Sessions
  /\ \E linked \in session.linked :
       at = [p \in Paths |-> IF linked THEN 1 ELSE p]
  /\ data = [p \in Paths |-> [base |-> p, edits |-> {}]]
  /\ book = [b \in Books |-> Closed]
  /\ save = [b \in Books |-> NoSave]
  /\ promised = {data[p] : p \in Paths} \cup {Nothing}
  /\ loose = {}
  /\ others = 0

(* load_workbook *)
Load(b, p) ==
  /\ ~IsOpen(b)
  /\ ContentAt(p) # Torn
  /\ \E mode \in session.modes, mapped \in session.mapped :
       book' = [book EXCEPT ![b] =
         [mode |-> mode, origin |-> p,
          map |-> IF mapped THEN at[p] ELSE InMemory,
          bytes |-> IF mapped THEN Nothing ELSE data[at[p]],
          private |-> IF mode = "modify" THEN data[at[p]] ELSE Nothing,
          dirty |-> {}, shows |-> data[at[p]]]]
  /\ UNCHANGED <<session, files, save, history, others>>

Edit(b, kind) ==
  /\ IsOpen(b) /\ Idle(b)
  /\ <<b, kind>> \notin book[b].shows.edits
  /\ book' = [book EXCEPT ![b].dirty = @ \cup {kind},
                          ![b].shows.edits = @ \cup {<<b, kind>>}]
  /\ UNCHANGED <<session, files, save, history, others>>

Close(b) ==
  /\ IsOpen(b) /\ Idle(b)
  /\ book' = [book EXCEPT ![b] = Closed]
  /\ UNCHANGED <<session, files, save, history, others>>

\* A read workbook with edits that need the patcher.
IsPending(b) == book[b].dirty \cap {"cells", "layout", "props"} # {}

(* save_workbook up to the first write *)
BeginSave(b, d) ==
  LET promoted == book[b].mode = "read" /\ IsPending(b)
      patched == book[b].mode = "modify" \/ promoted
      home == patched /\ (SamePath(d, book[b].origin) \/ MapsFile(b, d))
  IN /\ IsOpen(b) /\ Idle(b) /\ save[b].count < session.saves
     /\ patched \/ session.unedited
     /\ promoted => Source(b) # Torn
     /\ book' = IF promoted
                THEN [book EXCEPT ![b].mode = "modify", ![b].private = Source(b)]
                ELSE book
     /\ save' = [save EXCEPT ![b] = [NoSave EXCEPT !.step = "write", !.dest = d,
                                       !.home = home, !.count = save[b].count + 1]]
     /\ promised' = promised \cup {book[b].shows}
     /\ loose' = loose \cup (IF patched /\ d = book[b].origin THEN {}
                            ELSE {p \in Paths : SamePath(p, d)})
     /\ UNCHANGED <<session, files, others>>

Patched(b) == With(book[b].private, b, book[b].dirty \cap {"cells"})

\* Fault: the patcher drops its cell patches once a save wrote them.
PatchDraining(b) ==
  /\ save[b].step = "write" /\ book[b].mode = "modify"
  /\ IF save[b].home
     THEN /\ book' = [book EXCEPT ![b].private = Patched(b), ![b].dirty = @ \ {"cells"}]
          /\ Proceed(b)
          /\ UNCHANGED files
     ELSE /\ Replace(b, Patched(b))
          /\ book' = [book EXCEPT ![b].dirty = @ \ {"cells"}]
  /\ UNCHANGED <<session, history, others>>

(* XlsxPatcher::save and save_in_place: the cell patches stay queued *)
Patch(b) ==
  /\ save[b].step = "write" /\ book[b].mode = "modify"
  /\ IF save[b].home
     THEN /\ book' = [book EXCEPT ![b].private = Patched(b)]
          /\ Proceed(b)
          /\ UNCHANGED files
     ELSE /\ Replace(b, Patched(b))
          /\ UNCHANGED book
  /\ UNCHANGED <<session, history, others>>

(* save_read_mode *)
CopySource(b) ==
  /\ save[b].step = "write" /\ book[b].mode = "read"
  /\ MapsFile(b, save[b].dest)
  /\ Source(b) # Torn
  /\ Replace(b, Source(b))
  /\ UNCHANGED <<session, book, history, others>>

OpenTarget(b) ==
  LET d == save[b].dest IN
  /\ save[b].step = "write" /\ book[b].mode = "read"
  /\ ~MapsFile(b, d)
  /\ IF at[d] = NoFile
     THEN /\ data' = Append(data, Torn)
          /\ at' = [at EXCEPT ![d] = Len(data')]
     ELSE /\ data' = [data EXCEPT ![at[d]] = Torn]
          /\ UNCHANGED at
  /\ save' = [save EXCEPT ![b].step = "fill", ![b].fd = at'[d]]
  /\ UNCHANGED <<session, book, history, others>>

FillTarget(b) ==
  /\ save[b].step = "fill"
  /\ Source(b) # Torn
  /\ data' = [data EXCEPT ![save[b].fd] = Source(b)]
  /\ save' = [save EXCEPT ![b].step = After(b), ![b].put = save[b].fd]
  /\ UNCHANGED <<session, at, book, history, others>>

-----------------------------------------------------------------------------
(* apply_pivot_layout_authoring_to_xlsx: flags first, then the package *)
TakeLayout(b) ==
  /\ save[b].step = "layout"
  /\ book' = [book EXCEPT ![b].dirty = @ \ {"layout"}]
  /\ Proceed(b)
  /\ UNCHANGED <<session, files, history, others>>

RewriteLayout(b) ==
  /\ save[b].step = "rewrite"
  /\ Rewrite(b, {"layout"}, {})
  /\ UNCHANGED <<session, history, others>>

(* apply_merge_updates: the package is left alone if it shows the merges *)
ReplayMerges(b) ==
  /\ save[b].step = "merges"
  /\ IF /\ "merges" \in book[b].dirty
        /\ Target(b) # Torn => <<b, "merges">> \notin Target(b).edits
     THEN Rewrite(b, {"merges"}, {})
     ELSE Proceed(b) /\ UNCHANGED <<files, book>>
  /\ UNCHANGED <<session, history, others>>

(* apply_custom_doc_props_authoring: no error if the package cannot be read *)
WriteProps(b) ==
  /\ save[b].step = "props"
  /\ IF "props" \in book[b].dirty /\ Target(b) # Torn
     THEN Rewrite(b, {"props"}, {"props"})
     ELSE Proceed(b) /\ UNCHANGED <<files, book>>
  /\ UNCHANGED <<session, history, others>>

\* Fault: the workbook keeps the source it was loaded from.
MapCopyKeepingOld(b) ==
  /\ save[b].step = "snapshot"
  /\ data' = Append(data, book[b].private)
  /\ save' = [save EXCEPT ![b].step = After(b), ![b].put = Len(data')]
  /\ UNCHANGED <<session, at, book, history, others>>

(* publish_modify_source: the copy is mapped before it has the destination's name *)
MapCopy(b) ==
  /\ save[b].step = "snapshot"
  /\ data' = Append(data, book[b].private)
  /\ book' = IF book[b].map = InMemory
             THEN [book EXCEPT ![b].bytes = book[b].private]
             ELSE [book EXCEPT ![b].map = Len(data')]
  /\ save' = [save EXCEPT ![b].step = After(b), ![b].put = Len(data')]
  /\ UNCHANGED <<session, at, history, others>>

Publish(b) ==
  /\ save[b].step = "rename"
  /\ at' = [at EXCEPT ![save[b].dest] = save[b].put]
  /\ Proceed(b)
  /\ UNCHANGED <<session, data, book, history, others>>

\* An exception ends the save; its temporary files are unlinked.
Fail(b) ==
  /\ ~Idle(b)
  /\ \/ session.faults
     \/ save[b].step \in {"rewrite", "merges"} /\ Target(b) = Torn
  /\ save' = [save EXCEPT ![b].step = "idle", ![b].failed = TRUE]
  /\ UNCHANGED <<session, files, book, history, others>>

\* The process ends, as it does when a map is read whose file was cut off.
Crash ==
  /\ \/ session.faults
     \/ \E b \in Books : save[b].step \in {"write", "fill"} /\ book[b].mode = "read"
                          /\ Source(b) = Torn
  /\ book' = [b \in Books |-> Closed]
  /\ save' = [b \in Books |-> [NoSave EXCEPT !.count = save[b].count]]
  /\ UNCHANGED <<session, files, history, others>>

\* Another program replaces or removes the file at p.
OtherReplaces(p) ==
  /\ others < session.others
  /\ others' = others + 1
  /\ data' = Append(data, Nothing)
  /\ at' = [at EXCEPT ![p] = Len(data')]
  /\ UNCHANGED <<session, book, save, history>>

OtherRemoves(p) ==
  /\ others < session.others
  /\ others' = others + 1
  /\ at' = [at EXCEPT ![p] = NoFile]
  /\ UNCHANGED <<session, data, book, save, history>>

Next ==
  \/ \E b \in session.books :
       \/ \E p \in session.loads : Load(b, p)
       \/ \E kind \in session.kinds : Edit(b, kind)
       \/ Close(b)
       \/ \E d \in session.dests : BeginSave(b, d)
       \/ Patch(b) \/ CopySource(b) \/ OpenTarget(b) \/ FillTarget(b)
       \/ TakeLayout(b) \/ RewriteLayout(b) \/ ReplayMerges(b) \/ WriteProps(b)
       \/ MapCopy(b) \/ Publish(b)
       \/ Fail(b)
  \/ Crash
  \/ \E p \in session.loads : OtherReplaces(p) \/ OtherRemoves(p)

Spec == Init /\ [][Next]_vars

-----------------------------------------------------------------------------
TypeOK ==
  LET Files == 0..Len(data) IN
  /\ session \in Sessions
  /\ at \in [Paths -> Files]
  /\ data \in Seq(Package \cup {Torn})
  /\ \A b \in Books :
       /\ book[b].mode \in {"closed", "read", "modify"}
       /\ book[b].origin \in Paths \cup {0}
       /\ book[b].map \in Files
       /\ {book[b].bytes, book[b].private, book[b].shows} \subseteq Package
       /\ book[b].dirty \subseteq Kinds
       /\ save[b].dest \in Paths \cup {0}
       /\ save[b].fd \in Files /\ save[b].put \in Files
       /\ save[b].count \in 0..session.saves
  /\ promised \subseteq Package
  /\ loose \subseteq Paths
  /\ others \in 0..session.others

\* A step in which a save of b ends without an exception.
Returns(b) == ~Idle(b) /\ Idle(b)' /\ IsOpen(b)' /\ ~save'[b].failed

\* What an open workbook reads from its source buffer changes only when its own
\* save gives it another buffer: replacing, removing or saving to the path it
\* was loaded from does not (_source_buffer.py: snapshot_file, maps_file).
KeepsItsSource ==
  [][\A b \in Books :
       IsOpen(b) /\ IsOpen(b)' /\ book[b].map = book[b].map' /\ book[b].map # InMemory
         => Source(b)' = Source(b)]_vars

\* When a save back returns, the source buffer that metadata is read from holds the
\* package that the next save patches, even if saves before it failed half way
\* (publish_modify_source).
BufferFollowsSave ==
  [][\A b \in Books :
       Returns(b) /\ save[b].home => Source(b)' = book'[b].private]_vars

\* A path that is only saved back to, by edited workbooks loaded from it, names at
\* every instant a package that is whole: as it was before the save or with all
\* the edits of the workbook that saved it, whichever step fails (save_workbook).
PathsHoldWhole ==
  \A p \in Paths \ loose : at[p] # NoFile => data[at[p]] \in promised

\* A save that returns wrote all that its workbook shows, however many saves
\* came before it and failed (save_workbook), unless the file it was rewriting
\* was replaced meanwhile.
SavesWhatIsShown ==
  [][\A b \in Books :
       Returns(b) /\ ~save'[b].mixed
         => data'[save'[b].put] = book[b].shows]_vars
=============================================================================
