-------------------------- MODULE SaveFilesProofs ---------------------------
(* For any workbooks and paths, any interleaving of their saves with each other
   and with other programs, and a failure after any step: what a workbook reads
   stays what it loaded, and a path names a whole package at every instant. *)
EXTENDS SaveFiles, SequenceTheorems, TLAPS

-----------------------------------------------------------------------------
(* Types. *)

Steps == {"idle", "write", "fill", "layout", "rewrite", "merges", "props",
          "snapshot", "rename"}

BookStates == [mode : {"closed", "read", "modify"}, origin : Paths \cup {0}, map : Nat,
               bytes : Package, private : Package, dirty : SUBSET Kinds, shows : Package]

SaveStates == [step : Steps, dest : Paths \cup {0}, home : BOOLEAN, fd : Nat, put : Nat,
               mixed : BOOLEAN, failed : BOOLEAN, count : Nat]

Typed == /\ session \in Sessions
         /\ at \in [Paths -> Nat]
         /\ data \in Seq(Package \cup {Torn})
         /\ book \in [Books -> BookStates]
         /\ save \in [Books -> SaveStates]
         /\ promised \subseteq Package
         /\ loose \subseteq Paths
         /\ others \in 0..session.others

\* Every number of a file is that of one.
Numbered == /\ \A p \in Paths : at[p] \in 0..Len(data)
            /\ \A b \in Books : /\ book[b].map \in 0..Len(data)
                                /\ save[b].fd \in 0..Len(data)
                                /\ save[b].put \in 0..Len(data)

\* What the step of a save says of the workbook.
InStep(b) ==
  /\ ~Idle(b) => IsOpen(b) /\ save[b].dest \in Paths
  /\ save[b].step \in {"layout", "rewrite"} => book[b].mode = "modify"
  /\ save[b].step = "fill" => book[b].mode = "read" /\ save[b].fd # NoFile
  /\ ~Idle(b) /\ save[b].home => book[b].mode = "modify"
  /\ save[b].step \in {"snapshot", "rename"} => save[b].home
  /\ ~Idle(b) /\ book[b].mode = "read" => session.unedited
  /\ b \notin session.books => ~IsOpen(b)
  /\ IsOpen(b) => book[b].origin \in session.loads
  /\ save[b].count <= session.saves

InSteps == \A b \in Books : InStep(b)

LEMMA SessionFacts ==
  ASSUME session \in Sessions
  PROVE  /\ session.books \subseteq Books
         /\ session.kinds \subseteq Kinds
         /\ session.modes \subseteq {"read", "modify"}
         /\ session.mapped \subseteq BOOLEAN
         /\ session.loads \subseteq Paths
         /\ session.dests \subseteq Paths
         /\ session.unedited \in BOOLEAN /\ session.faults \in BOOLEAN
         /\ session.others \in Nat /\ session.saves \in Nat
BY SessionsAssumption

LEMMA NothingIsAPackage == Nothing \in Package
BY DEF Nothing, Package

LEMMA WithIsAPackage ==
  ASSUME NEW c \in Package, NEW b \in Books, NEW kinds \in SUBSET Kinds
  PROVE  /\ With(c, b, kinds) \in Package
         /\ With(c, b, kinds).base = c.base
         /\ With(c, b, kinds).edits = c.edits \cup ({b} \X kinds)
BY DEF With, Package

LEMMA AfterIsAStep ==
  ASSUME Typed, NEW b \in Books, ~Idle(b)
  PROVE  After(b) \in Steps
BY DEF Typed, Idle, After, SaveStates, Steps

LEMMA FilesAppended ==
  ASSUME Typed, NEW c \in Package \cup {Torn}
  PROVE  /\ Append(data, c) \in Seq(Package \cup {Torn})
         /\ Len(Append(data, c)) = Len(data) + 1
         /\ \A i \in 1..Len(data) : Append(data, c)[i] = data[i]
         /\ Append(data, c)[Len(data) + 1] = c
         /\ Len(data) \in Nat
BY AppendProperties DEF Typed

\* What is in a file, and what a workbook reads.
LEMMA ContentsTyped ==
  ASSUME Typed, Numbered
  PROVE  /\ \A p \in Paths : ContentAt(p) \in Package \cup {Torn}
         /\ \A p \in Paths : ContentAt(p) # Torn =>
              at[p] \in 1..Len(data) /\ ContentAt(p) = data[at[p]] /\ data[at[p]] \in Package
         /\ \A b \in Books : Source(b) \in Package \cup {Torn}
         /\ \A b \in Books : save[b].dest \in Paths => Target(b) \in Package \cup {Torn}
<1>1. \A i \in 1..Len(data) : data[i] \in Package \cup {Torn}
  BY DEF Typed
<1>2. \A p \in Paths : at[p] = NoFile \/ at[p] \in 1..Len(data)
  BY DEF Typed, Numbered, NoFile
<1>3. \A p \in Paths : ContentAt(p) \in Package \cup {Torn}
  BY <1>1, <1>2 DEF ContentAt
<1>4. \A b \in Books : book[b].bytes \in Package /\ book[b].private \in Package
  BY DEF Typed, BookStates
<1>5. ASSUME NEW b \in Books
      PROVE  book[b].map = InMemory \/ book[b].map \in 1..Len(data)
  <2>1. Len(data) \in Nat
    BY DEF Typed
  <2>2. book[b].map \in 0..Len(data)
    BY DEF Numbered
  <2>3. QED
    BY <2>1, <2>2 DEF InMemory
<1>6. \A b \in Books : Source(b) \in Package \cup {Torn}
  BY <1>1, <1>4, <1>5 DEF Source
<1>7. QED
  BY <1>1, <1>2, <1>3, <1>4, <1>6 DEF ContentAt, Target

-----------------------------------------------------------------------------
(* The shape of the state. *)

Shape == Typed /\ Numbered /\ InSteps

LEMMA InitShape == Init => Shape
<1> SUFFICES ASSUME Init PROVE Shape
  OBVIOUS
<1>1. NumPaths \in Nat /\ 1 \in Paths
  BY FilesAssumption DEF Paths
<1>2. \A p \in Paths : [base |-> p, edits |-> {}] \in Package
  BY DEF Package
<1>3. data \in Seq(Package \cup {Torn}) /\ Len(data) = NumPaths
      /\ \A p \in Paths : data[p] \in Package
  <2>1. data = [p \in 1..NumPaths |-> [base |-> p, edits |-> {}]]
    BY DEF Init, Paths
  <2>2. \A p \in 1..NumPaths : [base |-> p, edits |-> {}] \in Package \cup {Torn}
    BY <1>2 DEF Paths
  <2>3. data \in Seq(Package \cup {Torn})
    BY <1>1, <2>1, <2>2, IsASeq
  <2>4. QED
    BY <1>1, <1>2, <2>1, <2>3 DEF Paths
<1>4. at \in [Paths -> Nat] /\ \A p \in Paths : at[p] \in 0..Len(data)
  BY <1>1, <1>3 DEF Init, Paths
<1>5. Closed \in BookStates /\ NoSave \in SaveStates
  BY NothingIsAPackage DEF Closed, NoSave, BookStates, SaveStates, Steps, InMemory, NoFile
<1>6. book \in [Books -> BookStates] /\ save \in [Books -> SaveStates]
  BY <1>5 DEF Init
<1>7. promised \subseteq Package
  BY <1>3, NothingIsAPackage DEF Init
<1>13. session.others \in Nat /\ session.saves \in Nat
  BY SessionFacts DEF Init
<1>8. Typed
  <2>1. others \in 0..session.others
    BY <1>13 DEF Init
  <2>2. QED
    BY <1>3, <1>4, <1>6, <1>7, <2>1 DEF Init, Typed
<1>9. ASSUME NEW b \in Books
      PROVE  /\ book[b].mode = "closed" /\ book[b].map = 0
             /\ save[b].step = "idle" /\ save[b].fd = 0 /\ save[b].put = 0
             /\ save[b].count = 0
  <2>1. book[b] = Closed /\ save[b] = NoSave
    BY DEF Init
  <2>2. QED
    BY <2>1 DEF Closed, NoSave, InMemory, NoFile
<1>10. Numbered
  BY <1>1, <1>3, <1>4, <1>9 DEF Numbered
<1>11. InSteps
  <2>1. ASSUME NEW b \in Books PROVE InStep(b)
    BY <1>9, <1>13 DEF InStep, Idle, IsOpen
  <2>2. QED
    BY <2>1 DEF InSteps
<1>12. QED
  BY <1>8, <1>10, <1>11 DEF Shape

\* An action of b changes the book and the save of b only.
Alters(b) == /\ \A c \in Books \ {b} : book'[c] = book[c] /\ save'[c] = save[c]
             /\ session' = session

\* Files are added, or rewritten in place, but never taken away.
FilesGrow == /\ data' \in Seq(Package \cup {Torn})
             /\ Len(data) <= Len(data')
             /\ at' \in [Paths -> Nat]
             /\ \A p \in Paths : at'[p] \in 0..Len(data')

LEMMA ShapeOfStep ==
  ASSUME Shape, NEW b \in Books, Alters(b), FilesGrow,
         book' \in [Books -> BookStates], save' \in [Books -> SaveStates],
         promised' \subseteq Package, loose' \subseteq Paths, others' = others,
         book'[b].map \in 0..Len(data'), save'[b].fd \in 0..Len(data'),
         save'[b].put \in 0..Len(data'), InStep(b)'
  PROVE  Shape'
<1>1. Typed'
  BY DEF Shape, Typed, Alters, FilesGrow
<1>2. Numbered'
  <2>1. Len(data) \in Nat /\ Len(data') \in Nat
    BY DEF Shape, Typed, FilesGrow
  <2>2. ASSUME NEW c \in Books
        PROVE  /\ book'[c].map \in 0..Len(data')
               /\ save'[c].fd \in 0..Len(data')
               /\ save'[c].put \in 0..Len(data')
    BY <2>1, <2>2 DEF Shape, Numbered, Alters, FilesGrow
  <2>3. QED
    BY <2>2 DEF Numbered, FilesGrow
<1>3. InSteps'
  <2>1. ASSUME NEW c \in Books, c # b PROVE InStep(c)'
    BY <2>1 DEF Shape, InSteps, InStep, Alters, Idle, IsOpen
  <2>2. QED
    BY <2>1 DEF InSteps
<1>4. QED
  BY <1>1, <1>2, <1>3 DEF Shape


(* Every action keeps the shape. *)

LEMMA LoadShape ==
  ASSUME Shape, NEW b \in session.books, NEW p \in session.loads, Load(b, p)
  PROVE  Shape'
<1>1. b \in Books /\ p \in Paths
  BY SessionFacts DEF Shape, Typed
<1>2. at[p] \in 1..Len(data) /\ data[at[p]] \in Package
  BY <1>1, ContentsTyped DEF Shape, Load
<1>3. PICK mode \in session.modes, mapped \in session.mapped :
        book' = [book EXCEPT ![b] =
          [mode |-> mode, origin |-> p,
           map |-> IF mapped THEN at[p] ELSE InMemory,
           bytes |-> IF mapped THEN Nothing ELSE data[at[p]],
           private |-> IF mode = "modify" THEN data[at[p]] ELSE Nothing,
           dirty |-> {}, shows |-> data[at[p]]]]
  BY DEF Load
<1>4. mode \in {"read", "modify"} /\ mapped \in BOOLEAN
  BY SessionFacts DEF Shape, Typed
<1> DEFINE loaded == [mode |-> mode, origin |-> p,
           map |-> IF mapped THEN at[p] ELSE InMemory,
           bytes |-> IF mapped THEN Nothing ELSE data[at[p]],
           private |-> IF mode = "modify" THEN data[at[p]] ELSE Nothing,
           dirty |-> {}, shows |-> data[at[p]]]
<1>5. loaded \in BookStates
  BY <1>1, <1>2, <1>4, NothingIsAPackage DEF BookStates, InMemory
<1>6. loaded.map \in 0..Len(data) /\ loaded.mode # "closed" /\ loaded.origin = p
  BY <1>2, <1>4 DEF InMemory
<1> HIDE DEF loaded
<1>7. book' = [book EXCEPT ![b] = loaded] /\ save' = save
  BY <1>3 DEF loaded, Load
<1>8. book'[b] = loaded /\ book' \in [Books -> BookStates]
  BY <1>1, <1>5, <1>7 DEF Shape, Typed
<1>9. Alters(b)
  BY <1>1, <1>7 DEF Alters, Load, Shape, Typed
<1>10. FilesGrow /\ save' \in [Books -> SaveStates] /\ promised' \subseteq Package
       /\ loose' \subseteq Paths /\ others' = others
  BY DEF FilesGrow, Load, Shape, Typed, Numbered, files, history
<1>11. Idle(b) \/ IsOpen(b)
  BY <1>1 DEF Shape, InSteps, InStep
<1>12. InStep(b)'
  BY <1>1, <1>6, <1>7, <1>8, <1>11 DEF InStep, Idle, IsOpen, Load, Shape, InSteps
<1>13. QED
  BY <1>1, <1>6, <1>7, <1>8, <1>9, <1>10, <1>12, ShapeOfStep
     DEF Load, files, Shape, Numbered

LEMMA EditShape ==
  ASSUME Shape, NEW b \in session.books, NEW kind \in session.kinds, Edit(b, kind)
  PROVE  Shape'
<1>1. b \in Books /\ kind \in Kinds
  BY SessionFacts DEF Shape, Typed
<1> DEFINE edited == [book[b] EXCEPT !.dirty = @ \cup {kind},
                                     !.shows.edits = @ \cup {<<b, kind>>}]
<1>2. book[b] \in BookStates
  BY <1>1 DEF Shape, Typed
<1>3. edited \in BookStates /\ edited.map = book[b].map /\ edited.mode = book[b].mode
      /\ edited.origin = book[b].origin
  <2>1. <<b, kind>> \in Books \X Kinds
    BY <1>1
  <2>2. book[b].shows \in Package /\ book[b].dirty \cup {kind} \in SUBSET Kinds
    BY <1>1, <1>2 DEF BookStates
  <2>3. [book[b].shows EXCEPT !.edits = @ \cup {<<b, kind>>}] \in Package
    BY <2>1, <2>2 DEF Package
  <2>4. edited = [book[b] EXCEPT !.dirty = book[b].dirty \cup {kind},
            !.shows = [book[b].shows EXCEPT !.edits = @ \cup {<<b, kind>>}]]
    BY <1>2 DEF BookStates
  <2>5. QED
    BY <1>2, <2>2, <2>3, <2>4 DEF BookStates
<1>4. book' = [book EXCEPT ![b] = edited] /\ save' = save
  BY <1>1, <1>2 DEF Edit, BookStates, Package, Shape, Typed
<1> HIDE DEF edited
<1>5. book'[b] = edited /\ book' \in [Books -> BookStates]
  BY <1>1, <1>3, <1>4 DEF Shape, Typed
<1>6. Alters(b)
  BY <1>1, <1>4 DEF Alters, Edit, Shape, Typed
<1>7. FilesGrow /\ save' \in [Books -> SaveStates] /\ promised' \subseteq Package
       /\ loose' \subseteq Paths /\ others' = others
  BY DEF FilesGrow, Edit, Shape, Typed, Numbered, files, history
<1>8. InStep(b)'
  BY <1>1, <1>3, <1>4, <1>5 DEF InStep, Idle, IsOpen, Edit, Shape, InSteps
<1>9. QED
  BY <1>1, <1>3, <1>4, <1>5, <1>6, <1>7, <1>8, ShapeOfStep
     DEF Edit, files, Shape, Numbered

LEMMA CloseShape ==
  ASSUME Shape, NEW b \in session.books, Close(b)
  PROVE  Shape'
<1>1. b \in Books
  BY SessionFacts DEF Shape, Typed
<1>2. Closed \in BookStates /\ Closed.map = 0 /\ Closed.mode = "closed"
  BY NothingIsAPackage DEF Closed, BookStates, InMemory
<1>3. book' = [book EXCEPT ![b] = Closed] /\ save' = save
  BY DEF Close
<1>4. book'[b] = Closed /\ book' \in [Books -> BookStates]
  BY <1>1, <1>2, <1>3 DEF Shape, Typed
<1>5. Alters(b)
  BY <1>1, <1>3 DEF Alters, Close, Shape, Typed
<1>6. FilesGrow /\ save' \in [Books -> SaveStates] /\ promised' \subseteq Package
       /\ loose' \subseteq Paths /\ others' = others
  BY DEF FilesGrow, Close, Shape, Typed, Numbered, files, history
<1>7. InStep(b)'
  BY <1>1, <1>2, <1>3, <1>4 DEF InStep, Idle, IsOpen, Close, Shape, InSteps
<1>8. book'[b].map \in 0..Len(data')
  <2>1. Len(data) \in Nat /\ data' = data
    BY DEF Close, files, Shape, Typed
  <2>2. QED
    BY <2>1, <1>2, <1>4
<1>9. QED
  BY <1>1, <1>3, <1>4, <1>5, <1>6, <1>7, <1>8, ShapeOfStep
     DEF Close, files, Shape, Numbered

\* The state in which a save starts.
LEMMA NoSaveTyped ==
  /\ NoSave \in SaveStates
  /\ NoSave.fd = 0 /\ NoSave.put = 0 /\ ~NoSave.mixed /\ ~NoSave.failed
  /\ NoSave.step = "idle" /\ "write" \in Steps
<1>1. NoSave \in SaveStates
  BY DEF NoSave, SaveStates, Steps, NoFile
<1>2. NoSave.fd = 0 /\ NoSave.put = 0 /\ ~NoSave.mixed /\ ~NoSave.failed
      /\ NoSave.step = "idle"
  BY DEF NoSave, NoFile
<1>3. QED
  BY <1>1, <1>2 DEF Steps

LEMMA BeginSaveShape ==
  ASSUME Shape, NEW b \in session.books, NEW d \in session.dests, BeginSave(b, d)
  PROVE  Shape'
<1>1. b \in Books /\ d \in Paths /\ session.saves \in Nat /\ session.unedited \in BOOLEAN
  BY SessionFacts DEF Shape, Typed
<1> DEFINE promoted == book[b].mode = "read" /\ IsPending(b)
           patched == book[b].mode = "modify" \/ promoted
           home == patched /\ (SamePath(d, book[b].origin) \/ MapsFile(b, d))
           saving == [NoSave EXCEPT !.step = "write", !.dest = d,
                                    !.home = home, !.count = save[b].count + 1]
           opened == [book[b] EXCEPT !.mode = "modify", !.private = Source(b)]
<1>2. /\ IsOpen(b) /\ Idle(b) /\ save[b].count < session.saves
      /\ patched \/ session.unedited
      /\ promoted => Source(b) # Torn
      /\ book' = IF promoted
                 THEN [book EXCEPT ![b].mode = "modify", ![b].private = Source(b)]
                 ELSE book
      /\ save' = [save EXCEPT ![b] = saving]
  BY DEF BeginSave
<1>3. book[b] \in BookStates /\ save[b] \in SaveStates
  BY <1>1 DEF Shape, Typed
<1>4. home \in BOOLEAN
  OBVIOUS
<1>5. /\ saving \in SaveStates /\ saving.fd = 0 /\ saving.put = 0 /\ saving.step = "write"
      /\ saving.dest = d /\ saving.home = home /\ saving.count = save[b].count + 1
      /\ ~saving.mixed /\ ~saving.failed
  <2>1. save[b].count + 1 \in Nat
    BY <1>3 DEF SaveStates
  <2>2. ASSUME NEW h \in BOOLEAN, NEW n \in Nat, h = home, n = save[b].count + 1
        PROVE  saving = [NoSave EXCEPT !.step = "write", !.dest = d, !.home = h, !.count = n]
    BY <2>2
  <2> HIDE DEF saving, home
  <2>3. ASSUME NEW h \in BOOLEAN, NEW n \in Nat, h = home, n = save[b].count + 1,
               saving = [NoSave EXCEPT !.step = "write", !.dest = d, !.home = h, !.count = n]
        PROVE  /\ saving \in SaveStates /\ saving.fd = 0 /\ saving.put = 0
               /\ saving.step = "write" /\ saving.dest = d
               /\ saving.home = h /\ saving.count = n /\ ~saving.mixed /\ ~saving.failed
    BY <1>1, <2>3, NoSaveTyped DEF SaveStates
  <2>4. QED
    BY <1>4, <2>1, <2>2, <2>3
<1>6. ASSUME promoted
      PROVE  /\ opened \in BookStates /\ opened.mode = "modify" /\ opened.map = book[b].map
             /\ opened.origin = book[b].origin /\ book' = [book EXCEPT ![b] = opened]
  <2>1. Source(b) \in Package
    BY <1>1, <1>2, <1>6, ContentsTyped DEF Shape
  <2>2. QED
    BY <1>1, <1>2, <1>3, <1>6, <2>1 DEF BookStates, Shape, Typed
<1>7. /\ book' \in [Books -> BookStates]
      /\ book'[b].map = book[b].map /\ book'[b].origin = book[b].origin
      /\ patched => book'[b].mode = "modify"
      /\ book'[b].mode = "read" => session.unedited
      /\ book'[b].mode # "closed"
      /\ \A c \in Books \ {b} : book'[c] = book[c]
  <2>1. CASE promoted
    <3> HIDE DEF opened, promoted
    <3>1. book'[b] = opened /\ book' \in [Books -> BookStates]
          /\ \A c \in Books \ {b} : book'[c] = book[c]
      BY <1>1, <1>6, <2>1 DEF Shape, Typed
    <3>2. QED
      BY <1>6, <3>1, <2>1
  <2>2. CASE ~promoted
    BY <1>1, <1>2, <1>3, <2>2 DEF BookStates, IsOpen, Shape, Typed
  <2>3. QED
    BY <2>1, <2>2
<1>8. home => patched
  OBVIOUS
<1> HIDE DEF saving, opened, promoted, patched, home
<1>9. save'[b] = saving /\ save' \in [Books -> SaveStates]
      /\ \A c \in Books \ {b} : save'[c] = save[c]
  BY <1>1, <1>2, <1>5 DEF Shape, Typed
<1>10. Alters(b)
  BY <1>7, <1>9 DEF Alters, BeginSave
<1>11. FilesGrow /\ others' = others
  BY DEF FilesGrow, BeginSave, Shape, Typed, Numbered, files
<1>12. promised' \subseteq Package /\ loose' \subseteq Paths
  <2>1. promised' = promised \cup {book[b].shows}
    BY DEF BeginSave
  <2>2. book[b].shows \in Package /\ promised \subseteq Package /\ loose \subseteq Paths
    BY <1>3 DEF BookStates, Shape, Typed
  <2>3. loose' \subseteq loose \cup Paths
    BY DEF BeginSave
  <2>4. QED
    BY <2>1, <2>2, <2>3
<1>13. InStep(b)'
  <2>1. session' = session
    BY DEF BeginSave
  <2>2. save[b].count \in Nat
    BY <1>3 DEF SaveStates
  <2>3. b \in session.books /\ book[b].origin \in session.loads
    BY <1>1, <1>2 DEF Shape, InSteps, InStep
  <2>4. QED
    BY <1>1, <1>2, <1>5, <1>7, <1>8, <1>9, <2>1, <2>2, <2>3 DEF InStep, Idle, IsOpen
<1>14. book'[b].map \in 0..Len(data') /\ save'[b].fd \in 0..Len(data')
       /\ save'[b].put \in 0..Len(data')
  <2>1. Len(data) \in Nat /\ data' = data /\ book[b].map \in 0..Len(data)
    BY <1>1 DEF BeginSave, files, Shape, Typed, Numbered
  <2>2. QED
    BY <2>1, <1>5, <1>7, <1>9
<1>15. QED
  BY <1>1, <1>7, <1>9, <1>10, <1>11, <1>12, <1>13, <1>14, ShapeOfStep

-----------------------------------------------------------------------------
(* What the steps of a save do, field by field. *)

\* The save of b goes to its next step.
SaveMoves(b) ==
  /\ save' \in [Books -> SaveStates]
  /\ \A c \in Books \ {b} : save'[c] = save[c]
  /\ save'[b].step = After(b)
  /\ save'[b].dest = save[b].dest /\ save'[b].home = save[b].home
  /\ save'[b].count = save[b].count /\ save'[b].failed = save[b].failed

\* The workbook b stays what it is, but for its private copy, its edits and its source.
BookMoves(b) ==
  /\ book' \in [Books -> BookStates]
  /\ \A c \in Books \ {b} : book'[c] = book[c]
  /\ book'[b].mode = book[b].mode /\ book'[b].origin = book[b].origin
  /\ book'[b].shows = book[b].shows

SameSource(b) == book'[b].map = book[b].map /\ book'[b].bytes = book[b].bytes

\* A new file with content c is all that changes on disk.
Adds(c) ==
  /\ data' \in Seq(Package \cup {Torn})
  /\ Len(data') = Len(data) + 1 /\ data'[Len(data) + 1] = c
  /\ \A i \in 1..Len(data) : data'[i] = data[i]

Names(d, n) == at' \in [Paths -> Nat] /\ at'[d] = n /\ \A p \in Paths \ {d} : at'[p] = at[p]

\* A save at another step.
LEMMA AtStep ==
  ASSUME NEW s \in SaveStates, NEW st \in Steps, NEW r, r = [s EXCEPT !.step = st]
  PROVE  /\ r \in SaveStates /\ r.step = st /\ r.dest = s.dest /\ r.home = s.home
         /\ r.count = s.count /\ r.failed = s.failed
         /\ r.fd = s.fd /\ r.put = s.put /\ r.mixed = s.mixed
BY DEF SaveStates

LEMMA ProceedFacts ==
  ASSUME Shape, NEW b \in Books, ~Idle(b), Proceed(b)
  PROVE  /\ SaveMoves(b) /\ save'[b].fd = save[b].fd
         /\ save'[b].put = save[b].put /\ save'[b].mixed = save[b].mixed
<1>1. save[b] \in SaveStates /\ After(b) \in Steps /\ save \in [Books -> SaveStates]
  BY AfterIsAStep DEF Shape, Typed
<1>2. save' = [save EXCEPT ![b] = [save[b] EXCEPT !.step = After(b)]]
  BY <1>1 DEF Proceed, SaveStates
<1>3. PICK moved : moved = [save[b] EXCEPT !.step = After(b)]
  OBVIOUS
<1>4. /\ moved \in SaveStates /\ moved.step = After(b) /\ moved.dest = save[b].dest
      /\ moved.home = save[b].home /\ moved.count = save[b].count
      /\ moved.failed = save[b].failed /\ moved.fd = save[b].fd
      /\ moved.put = save[b].put /\ moved.mixed = save[b].mixed
  BY <1>1, <1>3, AtStep
<1>5. /\ save' \in [Books -> SaveStates] /\ save'[b] = moved
      /\ \A c \in Books \ {b} : save'[c] = save[c]
  BY <1>1, <1>2, <1>3, <1>4
<1>6. QED
  BY <1>4, <1>5 DEF SaveMoves

LEMMA AddsFacts ==
  ASSUME Shape, NEW c \in Package \cup {Torn}, data' = Append(data, c)
  PROVE  Adds(c) /\ Len(data) \in Nat
BY FilesAppended DEF Shape, Adds

LEMMA ReplaceFacts ==
  ASSUME Shape, NEW b \in Books, ~Idle(b), NEW c \in Package \cup {Torn}, Replace(b, c)
  PROVE  /\ SaveMoves(b) /\ save'[b].fd = save[b].fd
         /\ save'[b].put = Len(data) + 1 /\ save'[b].mixed = save[b].mixed
         /\ Adds(c) /\ Names(save[b].dest, Len(data) + 1) /\ Len(data) \in Nat
<1>1. save[b] \in SaveStates /\ After(b) \in Steps /\ save \in [Books -> SaveStates]
      /\ save[b].dest \in Paths
  BY AfterIsAStep DEF Shape, Typed, InSteps, InStep
<1>2. Adds(c) /\ Len(data) \in Nat
  BY AddsFacts DEF Replace
<1>3. at' = [at EXCEPT ![save[b].dest] = Len(data) + 1] /\ at \in [Paths -> Nat]
  BY <1>2 DEF Replace, Adds, Shape, Typed
<1>4. Names(save[b].dest, Len(data) + 1)
  BY <1>1, <1>2, <1>3 DEF Names
<1>5. PICK n \in Nat : n = Len(data) + 1
  BY <1>2
<1>6. PICK moved : moved = [save[b] EXCEPT !.step = After(b), !.put = n]
  OBVIOUS
<1>7. save' = [save EXCEPT ![b] = moved]
  BY <1>1, <1>2, <1>5, <1>6 DEF Replace, SaveStates, Adds
<1>8. /\ moved \in SaveStates /\ moved.step = After(b) /\ moved.put = n
      /\ moved.dest = save[b].dest /\ moved.home = save[b].home /\ moved.fd = save[b].fd
      /\ moved.count = save[b].count /\ moved.failed = save[b].failed
      /\ moved.mixed = save[b].mixed
  BY <1>1, <1>6 DEF SaveStates
<1>9. /\ save' \in [Books -> SaveStates] /\ save'[b] = moved
      /\ \A x \in Books \ {b} : save'[x] = save[x]
  BY <1>1, <1>7, <1>8
<1>10. SaveMoves(b)
  BY <1>8, <1>9 DEF SaveMoves
<1>11. QED
  BY <1>2, <1>4, <1>5, <1>8, <1>9, <1>10

\* A step of a save that is under way keeps the shape.
LEMMA ShapeOfSaving ==
  ASSUME Shape, NEW b \in Books, ~Idle(b), SaveMoves(b), BookMoves(b), session' = session,
         UNCHANGED <<history, others>>, FilesGrow,
         book'[b].map \in 0..Len(data'), save'[b].fd \in 0..Len(data'),
         save'[b].put \in 0..Len(data'),
         After(b) \in {"layout", "rewrite"} => book[b].mode = "modify",
         After(b) \in {"snapshot", "rename"} => save[b].home,
         After(b) # "fill"
  PROVE  Shape'
<1>1. Alters(b)
  BY DEF Alters, SaveMoves, BookMoves
<1>2. promised' \subseteq Package /\ loose' \subseteq Paths /\ others' = others
  BY DEF Shape, Typed, history
<1>3. InStep(b)'
  BY DEF Shape, InSteps, InStep, SaveMoves, BookMoves, Idle, IsOpen
<1>4. QED
  BY <1>1, <1>2, <1>3, ShapeOfStep DEF SaveMoves, BookMoves

\* What follows the steps of a save.
LEMMA StepsFollow ==
  ASSUME Shape, NEW b \in Books, ~Idle(b)
  PROVE  /\ After(b) \in {"layout", "rewrite"} => book[b].mode = "modify"
         /\ After(b) \in {"snapshot", "rename"} => save[b].home
         /\ After(b) # "fill"
<1>1. save[b].step \in Steps
  BY DEF Shape, Typed, SaveStates
<1>2. QED
  BY <1>1 DEF After, Shape, InSteps, InStep, Idle, Steps

LEMMA GrowingFiles ==
  ASSUME Shape, NEW c \in Package \cup {Torn}, Adds(c), NEW d \in Paths,
         Names(d, Len(data) + 1)
  PROVE  FilesGrow /\ Len(data) \in Nat
<1>1. Len(data) \in Nat
  BY DEF Shape, Typed
<1>2. ASSUME NEW p \in Paths PROVE at'[p] \in 0..Len(data')
  BY <1>1 DEF Names, Adds, Shape, Numbered
<1>3. QED
  BY <1>1, <1>2 DEF FilesGrow, Adds, Names

LEMMA SameFiles ==
  ASSUME Shape, UNCHANGED files
  PROVE  FilesGrow
BY DEF FilesGrow, Shape, Typed, Numbered, files

\* The step in which the package is patched.
PatchFacts(b) ==
  /\ SaveMoves(b) /\ BookMoves(b) /\ SameSource(b)
  /\ save'[b].fd = save[b].fd /\ save'[b].mixed = save[b].mixed
  /\ book'[b].dirty = book[b].dirty
  /\ Patched(b) \in Package
  /\ \/ /\ save[b].home /\ book'[b].private = Patched(b)
        /\ UNCHANGED files /\ save'[b].put = save[b].put
     \/ /\ ~save[b].home /\ book' = book
        /\ Adds(Patched(b)) /\ Names(save[b].dest, Len(data) + 1)
        /\ save'[b].put = Len(data) + 1

LEMMA PatchShape ==
  ASSUME Shape, NEW b \in session.books, Patch(b)
  PROVE  Shape' /\ PatchFacts(b) /\ b \in Books
<1>1. b \in Books /\ ~Idle(b) /\ book[b] \in BookStates /\ book \in [Books -> BookStates]
      /\ save[b].dest \in Paths /\ Len(data) \in Nat
  BY SessionFacts DEF Shape, Typed, Patch, Idle, InSteps, InStep
<1>2. Patched(b) \in Package
  BY <1>1, WithIsAPackage DEF Patched, BookStates
<1>3. CASE save[b].home
  <2>1. book' = [book EXCEPT ![b].private = Patched(b)] /\ Proceed(b) /\ UNCHANGED files
    BY <1>3 DEF Patch
  <2>2. BookMoves(b) /\ SameSource(b) /\ book'[b].private = Patched(b)
        /\ book'[b].dirty = book[b].dirty
    BY <1>1, <1>2, <2>1 DEF BookMoves, SameSource, BookStates
  <2>3. PatchFacts(b)
    BY <1>1, <1>2, <1>3, <2>1, <2>2, ProceedFacts DEF PatchFacts
  <2>4. FilesGrow /\ data' = data
    BY <2>1, SameFiles DEF files
  <2>5. book'[b].map \in 0..Len(data') /\ save'[b].fd \in 0..Len(data')
        /\ save'[b].put \in 0..Len(data')
    BY <1>1, <2>2, <2>4, <2>1, ProceedFacts DEF SameSource, Shape, Numbered
  <2>6. QED
    BY <1>1, <2>3, <2>4, <2>5, ShapeOfSaving, StepsFollow DEF PatchFacts, Patch
<1>4. CASE ~save[b].home
  <2>1. Replace(b, Patched(b)) /\ book' = book
    BY <1>4 DEF Patch
  <2>2. BookMoves(b) /\ SameSource(b) /\ book'[b].dirty = book[b].dirty
    BY <1>1, <2>1 DEF BookMoves, SameSource
  <2>3. PatchFacts(b)
    BY <1>1, <1>2, <1>4, <2>1, <2>2, ReplaceFacts DEF PatchFacts
  <2>4. Adds(Patched(b)) /\ Names(save[b].dest, Len(data) + 1)
    BY <1>4, <2>3 DEF PatchFacts
  <2>5. FilesGrow
    BY <1>1, <1>2, <2>4, GrowingFiles
  <2>6. book'[b].map \in 0..Len(data') /\ save'[b].fd \in 0..Len(data')
        /\ save'[b].put \in 0..Len(data')
    BY <1>1, <1>4, <2>3, <2>4 DEF Adds, PatchFacts, SameSource, Shape, Numbered
  <2>7. QED
    BY <1>1, <2>3, <2>5, <2>6, ShapeOfSaving, StepsFollow DEF PatchFacts, Patch
<1>5. QED
  BY <1>1, <1>3, <1>4

\* A step that leaves the package alone.
StayFacts(b) ==
  /\ SaveMoves(b) /\ book' = book /\ UNCHANGED files
  /\ save'[b].fd = save[b].fd /\ save'[b].put = save[b].put
  /\ save'[b].mixed = save[b].mixed

LEMMA StayShape ==
  ASSUME Shape, NEW b \in Books, ~Idle(b), Proceed(b), UNCHANGED <<files, book>>,
         UNCHANGED <<session, history, others>>
  PROVE  Shape' /\ StayFacts(b)
<1>1. StayFacts(b)
  BY ProceedFacts DEF StayFacts
<1>2. BookMoves(b)
  BY DEF BookMoves, Shape, Typed
<1>3. FilesGrow /\ data' = data
  BY SameFiles DEF files
<1>4. book'[b].map \in 0..Len(data') /\ save'[b].fd \in 0..Len(data')
      /\ save'[b].put \in 0..Len(data')
  BY <1>1, <1>3 DEF StayFacts, Shape, Numbered
<1>5. QED
  BY <1>1, <1>2, <1>3, <1>4, ShapeOfSaving, StepsFollow DEF StayFacts

\* A step that reads the package and adds edits to it.
RewriteFacts(b, kinds, cleared) ==
  /\ SaveMoves(b) /\ BookMoves(b) /\ SameSource(b)
  /\ save'[b].fd = save[b].fd
  /\ Target(b) \in Package
  /\ book'[b].dirty = book[b].dirty \ cleared
  /\ \/ /\ save[b].home /\ book'[b].private = With(Target(b), b, kinds)
        /\ UNCHANGED files /\ save'[b].put = save[b].put
        /\ save'[b].mixed = save[b].mixed
     \/ /\ ~save[b].home /\ book'[b].private = book[b].private
        /\ Adds(With(Target(b), b, kinds)) /\ Names(save[b].dest, Len(data) + 1)
        /\ save'[b].put = Len(data) + 1
        /\ ~save'[b].mixed => ~save[b].mixed /\ at[save[b].dest] = save[b].put

LEMMA RewriteShape ==
  ASSUME Shape, NEW b \in Books, ~Idle(b),
         NEW kinds \in SUBSET Kinds, NEW cleared \in SUBSET Kinds,
         Rewrite(b, kinds, cleared), UNCHANGED <<session, history, others>>
  PROVE  Shape' /\ RewriteFacts(b, kinds, cleared)
<1>1. book[b] \in BookStates /\ book \in [Books -> BookStates]
      /\ save[b] \in SaveStates /\ save \in [Books -> SaveStates] /\ After(b) \in Steps
      /\ save[b].dest \in Paths /\ Len(data) \in Nat
  BY AfterIsAStep DEF Shape, Typed, InSteps, InStep
<1> DEFINE c == With(Target(b), b, kinds)
           cleaned == [book EXCEPT ![b].dirty = @ \ cleared]
<1>2. Target(b) \in Package /\ Target(b) # Torn
  BY <1>1, ContentsTyped DEF Rewrite, Shape
<1>3. c \in Package
  BY <1>2, WithIsAPackage
<1>4. book[b].dirty \ cleared \in SUBSET Kinds
  BY <1>1 DEF BookStates
<1>5. CASE save[b].home
  <2>1. book' = [cleaned EXCEPT ![b].private = c] /\ Proceed(b) /\ UNCHANGED files
    BY <1>5 DEF Rewrite
  <2>2. PICK r : r = [book[b] EXCEPT !.dirty = book[b].dirty \ cleared, !.private = c]
    OBVIOUS
  <2>3. book' = [book EXCEPT ![b] = r]
    BY <1>1, <2>1, <2>2 DEF BookStates
  <2>4. /\ r \in BookStates /\ r.mode = book[b].mode /\ r.origin = book[b].origin
        /\ r.shows = book[b].shows /\ r.map = book[b].map /\ r.bytes = book[b].bytes
        /\ r.dirty = book[b].dirty \ cleared /\ r.private = c
    <3> HIDE DEF c
    <3>1. QED
      BY <1>1, <1>3, <1>4, <2>2 DEF BookStates
  <2>5. /\ BookMoves(b) /\ SameSource(b) /\ book'[b].private = c
        /\ book'[b].dirty = book[b].dirty \ cleared
    <3> HIDE DEF c
    <3>1. QED
      BY <1>1, <2>3, <2>4 DEF BookMoves, SameSource
  <2>6. RewriteFacts(b, kinds, cleared)
    BY <1>2, <1>5, <2>1, <2>5, ProceedFacts DEF RewriteFacts
  <2>7. FilesGrow /\ data' = data
    BY <2>1, SameFiles DEF files
  <2>8. book'[b].map \in 0..Len(data') /\ save'[b].fd \in 0..Len(data')
        /\ save'[b].put \in 0..Len(data')
    BY <2>1, <2>5, <2>7, ProceedFacts DEF SameSource, Shape, Numbered
  <2>9. QED
    BY <2>6, <2>7, <2>8, ShapeOfSaving, StepsFollow DEF RewriteFacts
<1>6. CASE ~save[b].home
  <2>1. /\ book' = cleaned /\ data' = Append(data, c)
        /\ at' = [at EXCEPT ![save[b].dest] = Len(data')]
        /\ save' = [save EXCEPT ![b].step = After(b), ![b].put = Len(data'),
                                ![b].mixed = @ \/ at[save[b].dest] # save[b].put]
    BY <1>6 DEF Rewrite
  <2>2. PICK r : r = [book[b] EXCEPT !.dirty = book[b].dirty \ cleared]
    OBVIOUS
  <2>3. book' = [book EXCEPT ![b] = r]
    BY <1>1, <2>1, <2>2 DEF BookStates
  <2>4. /\ r \in BookStates /\ r.mode = book[b].mode /\ r.origin = book[b].origin
        /\ r.shows = book[b].shows /\ r.map = book[b].map /\ r.bytes = book[b].bytes
        /\ r.dirty = book[b].dirty \ cleared /\ r.private = book[b].private
    BY <1>1, <1>4, <2>2 DEF BookStates
  <2>5. /\ BookMoves(b) /\ SameSource(b) /\ book'[b].private = book[b].private
        /\ book'[b].dirty = book[b].dirty \ cleared
    BY <1>1, <2>3, <2>4 DEF BookMoves, SameSource
  <2>6. Adds(c) /\ Names(save[b].dest, Len(data) + 1)
    <3>1. Adds(c)
      BY <1>3, <2>1, AddsFacts
    <3>2. at' = [at EXCEPT ![save[b].dest] = Len(data) + 1] /\ at \in [Paths -> Nat]
      BY <2>1, <3>1 DEF Adds, Shape, Typed
    <3>3. QED
      BY <1>1, <3>1, <3>2 DEF Names
  <2>7. PICK n \in Nat : n = Len(data) + 1
    BY <1>1
  <2>8. PICK m \in BOOLEAN : m <=> (save[b].mixed \/ at[save[b].dest] # save[b].put)
    OBVIOUS
  <2>9. PICK s : s = [save[b] EXCEPT !.step = After(b), !.put = n, !.mixed = m]
    OBVIOUS
  <2>10. save' = [save EXCEPT ![b] = s]
    BY <1>1, <2>1, <2>6, <2>7, <2>8, <2>9 DEF SaveStates, Adds
  <2>11. /\ s \in SaveStates /\ s.step = After(b) /\ s.dest = save[b].dest
         /\ s.home = save[b].home /\ s.fd = save[b].fd /\ s.count = save[b].count
         /\ s.failed = save[b].failed /\ s.put = n /\ s.mixed = m
    BY <1>1, <2>9 DEF SaveStates
  <2>12. /\ save' \in [Books -> SaveStates] /\ save'[b] = s
         /\ \A x \in Books \ {b} : save'[x] = save[x]
    BY <1>1, <2>10, <2>11
  <2>13. SaveMoves(b)
    BY <2>11, <2>12 DEF SaveMoves
  <2>14. ~save'[b].mixed => ~save[b].mixed /\ at[save[b].dest] = save[b].put
    BY <2>8, <2>11, <2>12
  <2>15. save'[b].put = Len(data) + 1 /\ save'[b].fd = save[b].fd
    BY <2>7, <2>11, <2>12
  <2>16. RewriteFacts(b, kinds, cleared)
    BY <1>2, <1>6, <2>5, <2>6, <2>13, <2>14, <2>15 DEF RewriteFacts
  <2>17. FilesGrow
    BY <1>1, <1>3, <2>6, GrowingFiles
  <2>18. book'[b].map \in 0..Len(data') /\ save'[b].fd \in 0..Len(data')
         /\ save'[b].put \in 0..Len(data')
    BY <1>1, <2>5, <2>6, <2>15 DEF Adds, SameSource, Shape, Numbered
  <2>19. QED
    BY <2>5, <2>13, <2>17, <2>18, <2>16, ShapeOfSaving, StepsFollow
<1>7. QED
  BY <1>5, <1>6

LEMMA RewriteLayoutShape ==
  ASSUME Shape, NEW b \in session.books, RewriteLayout(b)
  PROVE  Shape' /\ RewriteFacts(b, {"layout"}, {}) /\ b \in Books
<1>1. b \in Books /\ ~Idle(b) /\ {"layout"} \in SUBSET Kinds /\ {} \in SUBSET Kinds
  BY SessionFacts DEF Shape, Typed, RewriteLayout, Idle, Kinds
<1>2. QED
  BY <1>1, RewriteShape DEF RewriteLayout

LEMMA ReplayMergesShape ==
  ASSUME Shape, NEW b \in session.books, ReplayMerges(b)
  PROVE  Shape' /\ (RewriteFacts(b, {"merges"}, {}) \/ StayFacts(b)) /\ b \in Books
<1>1. b \in Books /\ ~Idle(b) /\ {"merges"} \in SUBSET Kinds /\ {} \in SUBSET Kinds
  BY SessionFacts DEF Shape, Typed, ReplayMerges, Idle, Kinds
<1>2. Rewrite(b, {"merges"}, {}) \/ (Proceed(b) /\ UNCHANGED <<files, book>>)
  BY DEF ReplayMerges
<1>3. QED
  BY <1>1, <1>2, RewriteShape, StayShape DEF ReplayMerges

LEMMA WritePropsShape ==
  ASSUME Shape, NEW b \in session.books, WriteProps(b)
  PROVE  /\ Shape' /\ b \in Books
         /\ RewriteFacts(b, {"props"}, {"props"}) \/ StayFacts(b)
<1>1. b \in Books /\ ~Idle(b) /\ {"props"} \in SUBSET Kinds
  BY SessionFacts DEF Shape, Typed, WriteProps, Idle, Kinds
<1>2. Rewrite(b, {"props"}, {"props"}) \/ (Proceed(b) /\ UNCHANGED <<files, book>>)
  BY DEF WriteProps
<1>3. QED
  BY <1>1, <1>2, RewriteShape, StayShape DEF WriteProps

\* The layout is taken from the workbook before the package is rewritten.
TakeFacts(b) ==
  /\ SaveMoves(b) /\ BookMoves(b) /\ SameSource(b) /\ UNCHANGED files
  /\ save'[b].fd = save[b].fd /\ save'[b].put = save[b].put
  /\ save'[b].mixed = save[b].mixed
  /\ book'[b].dirty = book[b].dirty \ {"layout"}
  /\ book'[b].private = book[b].private

LEMMA TakeLayoutShape ==
  ASSUME Shape, NEW b \in session.books, TakeLayout(b)
  PROVE  Shape' /\ TakeFacts(b) /\ b \in Books
<1>1. /\ b \in Books /\ ~Idle(b) /\ book[b] \in BookStates /\ book \in [Books -> BookStates]
      /\ Proceed(b) /\ UNCHANGED files
      /\ book' = [book EXCEPT ![b].dirty = @ \ {"layout"}]
  BY SessionFacts DEF Shape, Typed, TakeLayout, Idle
<1>2. /\ BookMoves(b) /\ SameSource(b) /\ book'[b].private = book[b].private
      /\ book'[b].dirty = book[b].dirty \ {"layout"}
  BY <1>1 DEF BookMoves, SameSource, BookStates
<1>3. TakeFacts(b)
  BY <1>1, <1>2, ProceedFacts DEF TakeFacts
<1>4. FilesGrow /\ data' = data
  BY <1>1, SameFiles DEF files
<1>5. book'[b].map \in 0..Len(data') /\ save'[b].fd \in 0..Len(data')
      /\ save'[b].put \in 0..Len(data')
  BY <1>1, <1>3, <1>4 DEF TakeFacts, SameSource, Shape, Numbered
<1>6. QED
  BY <1>1, <1>3, <1>4, <1>5, ShapeOfSaving, StepsFollow DEF TakeFacts, TakeLayout

\* A read workbook is copied from its map.
CopyFacts(b) ==
  /\ SaveMoves(b) /\ book' = book
  /\ save'[b].fd = save[b].fd /\ save'[b].mixed = save[b].mixed
  /\ Source(b) \in Package
  /\ Adds(Source(b)) /\ Names(save[b].dest, Len(data) + 1)
  /\ save'[b].put = Len(data) + 1

LEMMA CopySourceShape ==
  ASSUME Shape, NEW b \in session.books, CopySource(b)
  PROVE  Shape' /\ CopyFacts(b) /\ b \in Books
<1>1. /\ b \in Books /\ ~Idle(b) /\ save[b].dest \in Paths /\ Len(data) \in Nat
      /\ Replace(b, Source(b)) /\ book' = book
  BY SessionFacts DEF Shape, Typed, CopySource, Idle, InSteps, InStep
<1>2. Source(b) \in Package
  BY <1>1, ContentsTyped DEF Shape, CopySource
<1>3. CopyFacts(b)
  BY <1>1, <1>2, ReplaceFacts DEF CopyFacts
<1>4. Adds(Source(b)) /\ Names(save[b].dest, Len(data) + 1)
  BY <1>3 DEF CopyFacts
<1>5. FilesGrow
  BY <1>1, <1>2, <1>4, GrowingFiles
<1>6. BookMoves(b)
  BY <1>1 DEF BookMoves, Shape, Typed
<1>7. book'[b].map \in 0..Len(data') /\ save'[b].fd \in 0..Len(data')
      /\ save'[b].put \in 0..Len(data')
  BY <1>1, <1>3, <1>4 DEF Adds, CopyFacts, Shape, Numbered
<1>8. QED
  BY <1>1, <1>3, <1>5, <1>6, <1>7, ShapeOfSaving, StepsFollow DEF CopyFacts, CopySource

\* A file that was written in place.
InPlace(n, c) ==
  /\ data' \in Seq(Package \cup {Torn}) /\ Len(data') = Len(data)
  /\ n \in 1..Len(data) /\ data'[n] = c
  /\ \A i \in 1..Len(data) \ {n} : data'[i] = data[i]

LEMMA InPlaceFacts ==
  ASSUME Shape, NEW n \in 1..Len(data), NEW c \in Package \cup {Torn},
         data' = [data EXCEPT ![n] = c]
  PROVE  InPlace(n, c)
<1>1. data \in Seq(Package \cup {Torn})
  BY DEF Shape, Typed
<1>2. /\ data' \in Seq(Package \cup {Torn}) /\ Len(data') = Len(data)
      /\ \A i \in 1..Len(data) : data'[i] = IF i = n THEN c ELSE data[i]
  BY <1>1, ExceptSeq
<1>3. QED
  BY <1>2 DEF InPlace

\* The destination is truncated, or made, and is now open.
OpenFacts(b) ==
  LET d == save[b].dest IN
  /\ save' \in [Books -> SaveStates] /\ book' = book
  /\ \A c \in Books \ {b} : save'[c] = save[c]
  /\ save'[b].step = "fill" /\ save'[b].dest = d /\ save'[b].home = save[b].home
  /\ save'[b].count = save[b].count /\ save'[b].failed = save[b].failed
  /\ save'[b].put = save[b].put /\ save'[b].mixed = save[b].mixed
  /\ at'[d] = save'[b].fd
  /\ \/ /\ at[d] = NoFile /\ save'[b].fd = Len(data) + 1
        /\ Adds(Torn) /\ Names(d, Len(data) + 1)
     \/ /\ at[d] # NoFile /\ save'[b].fd = at[d]
        /\ at' = at /\ InPlace(at[d], Torn)

LEMMA OpenTargetShape ==
  ASSUME Shape, NEW b \in session.books, OpenTarget(b)
  PROVE  Shape' /\ OpenFacts(b) /\ b \in Books
<1> DEFINE d == save[b].dest
<1>1. /\ b \in Books /\ ~Idle(b) /\ d \in Paths /\ Len(data) \in Nat
      /\ save[b] \in SaveStates /\ save \in [Books -> SaveStates]
      /\ book' = book /\ book \in [Books -> BookStates] /\ book[b].mode = "read"
  BY SessionFacts DEF Shape, Typed, OpenTarget, Idle, InSteps, InStep
<1>2. ASSUME at[d] = NoFile
      PROVE  /\ OpenFacts(b) /\ FilesGrow /\ save'[b].fd \in 0..Len(data')
             /\ Len(data) <= Len(data')
  <2>1. data' = Append(data, Torn) /\ at' = [at EXCEPT ![d] = Len(data')]
        /\ save' = [save EXCEPT ![b].step = "fill", ![b].fd = at'[d]]
    BY <1>2 DEF OpenTarget
  <2>2. Adds(Torn)
    BY <2>1, AddsFacts
  <2>3. at' = [at EXCEPT ![d] = Len(data) + 1] /\ at \in [Paths -> Nat]
    BY <2>1, <2>2 DEF Adds, Shape, Typed
  <2>4. Names(d, Len(data) + 1)
    BY <1>1, <2>3 DEF Names
  <2>5. PICK n \in Nat : n = Len(data) + 1
    BY <1>1
  <2>6. PICK s : s = [save[b] EXCEPT !.step = "fill", !.fd = n]
    OBVIOUS
  <2>7. save' = [save EXCEPT ![b] = s]
    BY <1>1, <2>1, <2>4, <2>5, <2>6 DEF SaveStates, Names
  <2>8. "fill" \in Steps
    BY DEF Steps
  <2>9. /\ s \in SaveStates /\ s.step = "fill" /\ s.dest = d /\ s.home = save[b].home
        /\ s.fd = n /\ s.count = save[b].count /\ s.failed = save[b].failed
        /\ s.put = save[b].put /\ s.mixed = save[b].mixed
    BY <1>1, <2>6, <2>8 DEF SaveStates
  <2>10. /\ save' \in [Books -> SaveStates] /\ save'[b] = s
         /\ \A x \in Books \ {b} : save'[x] = save[x]
    BY <1>1, <2>7, <2>9
  <2>11. OpenFacts(b)
    BY <1>1, <1>2, <2>2, <2>4, <2>5, <2>9, <2>10 DEF OpenFacts, Names
  <2>12. FilesGrow
    BY <1>1, <2>2, <2>4, GrowingFiles
  <2>13. save'[b].fd \in 0..Len(data')
    BY <1>1, <2>2, <2>5, <2>9, <2>10 DEF Adds
  <2>14. Len(data) <= Len(data')
    BY <1>1, <2>2 DEF Adds
  <2>15. QED
    BY <1>1, <2>11, <2>12, <2>13, <2>14
<1>3. ASSUME at[d] # NoFile
      PROVE  /\ OpenFacts(b) /\ FilesGrow /\ save'[b].fd \in 0..Len(data')
             /\ Len(data) <= Len(data')
  <2>1. /\ data' = [data EXCEPT ![at[d]] = Torn] /\ at' = at
        /\ save' = [save EXCEPT ![b].step = "fill", ![b].fd = at'[d]]
    BY <1>3 DEF OpenTarget
  <2>2. at[d] \in 1..Len(data)
    BY <1>1, <1>3 DEF NoFile, Shape, Numbered
  <2>3. InPlace(at[d], Torn)
    BY <2>1, <2>2, InPlaceFacts
  <2>4. PICK n \in Nat : n = at[d]
    BY <1>1, <2>2
  <2>5. PICK s : s = [save[b] EXCEPT !.step = "fill", !.fd = n]
    OBVIOUS
  <2>6. save' = [save EXCEPT ![b] = s]
    BY <1>1, <2>1, <2>4, <2>5 DEF SaveStates
  <2>7. "fill" \in Steps
    BY DEF Steps
  <2>8. /\ s \in SaveStates /\ s.step = "fill" /\ s.dest = d /\ s.home = save[b].home
        /\ s.fd = n /\ s.count = save[b].count /\ s.failed = save[b].failed
        /\ s.put = save[b].put /\ s.mixed = save[b].mixed
    BY <1>1, <2>5, <2>7 DEF SaveStates
  <2>9. /\ save' \in [Books -> SaveStates] /\ save'[b] = s
        /\ \A x \in Books \ {b} : save'[x] = save[x]
    BY <1>1, <2>6, <2>8
  <2>10. OpenFacts(b)
    BY <1>1, <1>3, <2>1, <2>3, <2>4, <2>8, <2>9 DEF OpenFacts
  <2>11. FilesGrow
    BY <1>1, <2>1, <2>3 DEF FilesGrow, InPlace, Shape, Typed, Numbered
  <2>12. save'[b].fd \in 0..Len(data')
    BY <1>1, <2>2, <2>3, <2>4, <2>8, <2>9 DEF InPlace
  <2>13. Len(data) <= Len(data')
    BY <1>1, <2>3 DEF InPlace
  <2>14. QED
    BY <1>1, <2>10, <2>11, <2>12, <2>13
<1>4. OpenFacts(b) /\ FilesGrow /\ save'[b].fd \in 0..Len(data')
      /\ Len(data) <= Len(data')
  BY <1>2, <1>3
<1>5. Alters(b) /\ UNCHANGED <<history, others>>
  BY <1>1, <1>4 DEF Alters, OpenFacts, OpenTarget
<1>6. promised' \subseteq Package /\ loose' \subseteq Paths /\ others' = others
  BY <1>5 DEF Shape, Typed, history
<1>7. save'[b].fd # NoFile
  BY <1>1, <1>4 DEF OpenFacts, NoFile
<1>8. InStep(b)'
  BY <1>1, <1>4, <1>5, <1>7 DEF InStep, OpenFacts, Alters, Idle, IsOpen, Shape, InSteps
<1>9. Len(data') \in Nat
  BY <1>4 DEF FilesGrow
<1>10. book'[b].map \in 0..Len(data') /\ save'[b].put \in 0..Len(data')
  BY <1>1, <1>4, <1>9 DEF OpenFacts, Shape, Numbered
<1>11. Shape'
  BY <1>1, <1>4, <1>5, <1>6, <1>8, <1>10, ShapeOfStep DEF OpenFacts
<1>12. QED
  BY <1>1, <1>4, <1>11

\* The truncated destination is filled.
FillFacts(b) ==
  /\ SaveMoves(b) /\ book' = book /\ at' = at
  /\ save'[b].fd = save[b].fd /\ save'[b].mixed = save[b].mixed
  /\ save'[b].put = save[b].fd
  /\ Source(b) \in Package /\ InPlace(save[b].fd, Source(b))

LEMMA FillTargetShape ==
  ASSUME Shape, NEW b \in session.books, FillTarget(b)
  PROVE  Shape' /\ FillFacts(b) /\ b \in Books
<1>1. /\ b \in Books /\ ~Idle(b) /\ Len(data) \in Nat /\ After(b) \in Steps
      /\ save[b] \in SaveStates /\ save \in [Books -> SaveStates]
      /\ book' = book /\ book \in [Books -> BookStates] /\ at' = at
  BY SessionFacts, AfterIsAStep DEF Shape, Typed, FillTarget, Idle
<1>2. save[b].fd \in 1..Len(data)
  BY <1>1 DEF FillTarget, NoFile, Shape, Numbered, InSteps, InStep
<1>3. Source(b) \in Package
  BY <1>1, ContentsTyped DEF Shape, FillTarget
<1>4. InPlace(save[b].fd, Source(b))
  BY <1>2, <1>3, InPlaceFacts DEF FillTarget
<1>5. PICK n \in Nat : n = save[b].fd
  BY <1>1, <1>2
<1>6. PICK s : s = [save[b] EXCEPT !.step = After(b), !.put = n]
  OBVIOUS
<1>7. save' = [save EXCEPT ![b] = s]
  BY <1>1, <1>5, <1>6 DEF SaveStates, FillTarget
<1>8. /\ s \in SaveStates /\ s.step = After(b) /\ s.dest = save[b].dest
      /\ s.home = save[b].home /\ s.fd = save[b].fd /\ s.count = save[b].count
      /\ s.failed = save[b].failed /\ s.put = n /\ s.mixed = save[b].mixed
  BY <1>1, <1>6 DEF SaveStates
<1>9. /\ save' \in [Books -> SaveStates] /\ save'[b] = s
      /\ \A x \in Books \ {b} : save'[x] = save[x]
  BY <1>1, <1>7, <1>8
<1>10. SaveMoves(b)
  BY <1>8, <1>9 DEF SaveMoves
<1>11. FillFacts(b)
  BY <1>1, <1>3, <1>4, <1>5, <1>8, <1>9, <1>10 DEF FillFacts
<1>12. FilesGrow
  BY <1>1, <1>4 DEF FilesGrow, InPlace, Shape, Typed, Numbered
<1>13. BookMoves(b)
  BY <1>1 DEF BookMoves
<1>14. book'[b].map \in 0..Len(data') /\ save'[b].fd \in 0..Len(data')
       /\ save'[b].put \in 0..Len(data')
  BY <1>1, <1>4, <1>11 DEF FillFacts, InPlace, Shape, Numbered
<1>15. QED
  BY <1>1, <1>10, <1>11, <1>12, <1>13, <1>14, ShapeOfSaving, StepsFollow DEF FillTarget

\* The private copy is written beside the destination, and is the source from now on.
MapFacts(b) ==
  /\ SaveMoves(b) /\ BookMoves(b) /\ at' = at
  /\ save'[b].fd = save[b].fd /\ save'[b].mixed = save[b].mixed
  /\ save'[b].put = Len(data) + 1
  /\ Adds(book[b].private) /\ book[b].private \in Package
  /\ book'[b].private = book[b].private /\ book'[b].dirty = book[b].dirty
  /\ \/ /\ book[b].map = InMemory
        /\ book'[b].map = InMemory /\ book'[b].bytes = book[b].private
     \/ book[b].map # InMemory /\ book'[b].map = Len(data) + 1

LEMMA MapCopyShape ==
  ASSUME Shape, NEW b \in session.books, MapCopy(b)
  PROVE  Shape' /\ MapFacts(b) /\ b \in Books
<1>1. /\ b \in Books /\ ~Idle(b) /\ Len(data) \in Nat /\ After(b) \in Steps
      /\ save[b] \in SaveStates /\ save \in [Books -> SaveStates]
      /\ book[b] \in BookStates /\ book \in [Books -> BookStates] /\ at' = at
  BY SessionFacts, AfterIsAStep DEF Shape, Typed, MapCopy, Idle
<1>2. book[b].private \in Package
  BY <1>1 DEF BookStates
<1>3. Adds(book[b].private)
  BY <1>2, AddsFacts DEF MapCopy
<1>4. PICK n \in Nat : n = Len(data) + 1
  BY <1>1
<1>5. PICK s : s = [save[b] EXCEPT !.step = After(b), !.put = n]
  OBVIOUS
<1>6. save' = [save EXCEPT ![b] = s]
  BY <1>1, <1>3, <1>4, <1>5 DEF SaveStates, MapCopy, Adds
<1>7. /\ s \in SaveStates /\ s.step = After(b) /\ s.dest = save[b].dest
      /\ s.home = save[b].home /\ s.fd = save[b].fd /\ s.count = save[b].count
      /\ s.failed = save[b].failed /\ s.put = n /\ s.mixed = save[b].mixed
  BY <1>1, <1>5 DEF SaveStates
<1>8. /\ save' \in [Books -> SaveStates] /\ save'[b] = s
      /\ \A x \in Books \ {b} : save'[x] = save[x]
  BY <1>1, <1>6, <1>7
<1>9. SaveMoves(b)
  BY <1>7, <1>8 DEF SaveMoves
<1>10. ASSUME book[b].map = InMemory
       PROVE  /\ BookMoves(b) /\ book'[b].private = book[b].private
              /\ book'[b].dirty = book[b].dirty
              /\ book'[b].map = InMemory /\ book'[b].bytes = book[b].private
  <2>1. book' = [book EXCEPT ![b].bytes = book[b].private]
    BY <1>10 DEF MapCopy
  <2>2. PICK r : r = [book[b] EXCEPT !.bytes = book[b].private]
    OBVIOUS
  <2>3. book' = [book EXCEPT ![b] = r]
    BY <1>1, <2>1, <2>2 DEF BookStates
  <2>4. /\ r \in BookStates /\ r.mode = book[b].mode /\ r.origin = book[b].origin
        /\ r.shows = book[b].shows /\ r.private = book[b].private
        /\ r.dirty = book[b].dirty /\ r.map = book[b].map /\ r.bytes = book[b].private
    BY <1>1, <1>2, <2>2 DEF BookStates
  <2>5. QED
    BY <1>1, <1>10, <2>3, <2>4 DEF BookMoves
<1>11. ASSUME book[b].map # InMemory
       PROVE  /\ BookMoves(b) /\ book'[b].private = book[b].private
              /\ book'[b].dirty = book[b].dirty
              /\ book'[b].map = n
  <2>1. book' = [book EXCEPT ![b].map = n]
    BY <1>3, <1>4, <1>11 DEF MapCopy, Adds
  <2>2. PICK r : r = [book[b] EXCEPT !.map = n]
    OBVIOUS
  <2>3. book' = [book EXCEPT ![b] = r]
    BY <1>1, <2>1, <2>2 DEF BookStates
  <2>4. /\ r \in BookStates /\ r.mode = book[b].mode /\ r.origin = book[b].origin
        /\ r.shows = book[b].shows /\ r.private = book[b].private
        /\ r.dirty = book[b].dirty /\ r.map = n
    BY <1>1, <1>4, <2>2 DEF BookStates
  <2>5. QED
    BY <1>1, <2>3, <2>4 DEF BookMoves
<1>12. save'[b].put = Len(data) + 1 /\ save'[b].fd = save[b].fd
       /\ save'[b].mixed = save[b].mixed
  BY <1>4, <1>7, <1>8
<1>13. MapFacts(b)
  BY <1>1, <1>2, <1>3, <1>4, <1>9, <1>10, <1>11, <1>12 DEF MapFacts
<1>14. FilesGrow
  BY <1>1, <1>3 DEF FilesGrow, Adds, Shape, Typed, Numbered
<1>15. book'[b].map \in 0..Len(data') /\ save'[b].fd \in 0..Len(data')
       /\ save'[b].put \in 0..Len(data')
  BY <1>1, <1>3, <1>4, <1>10, <1>11, <1>12 DEF Adds, InMemory, Shape, Numbered
<1>16. QED
  BY <1>1, <1>9, <1>10, <1>11, <1>13, <1>14, <1>15, ShapeOfSaving, StepsFollow DEF MapCopy

\* The copy takes the destination's name.
PublishFacts(b) ==
  /\ SaveMoves(b) /\ book' = book /\ data' = data
  /\ save'[b].fd = save[b].fd /\ save'[b].put = save[b].put
  /\ save'[b].mixed = save[b].mixed
  /\ Names(save[b].dest, save[b].put)

LEMMA PublishShape ==
  ASSUME Shape, NEW b \in session.books, Publish(b)
  PROVE  Shape' /\ PublishFacts(b) /\ b \in Books
<1>1. /\ b \in Books /\ ~Idle(b) /\ save[b].dest \in Paths /\ Len(data) \in Nat
      /\ book' = book /\ data' = data /\ Proceed(b) /\ at \in [Paths -> Nat]
      /\ book \in [Books -> BookStates] /\ save[b].put \in 0..Len(data)
  BY SessionFacts DEF Shape, Typed, Numbered, Publish, Idle, InSteps, InStep
<1>2. Names(save[b].dest, save[b].put)
  BY <1>1 DEF Publish, Names
<1>3. PublishFacts(b)
  BY <1>1, <1>2, ProceedFacts DEF PublishFacts
<1>4. FilesGrow
  BY <1>1, <1>2 DEF FilesGrow, Names, Shape, Typed, Numbered
<1>5. BookMoves(b)
  BY <1>1 DEF BookMoves
<1>6. book'[b].map \in 0..Len(data') /\ save'[b].fd \in 0..Len(data')
      /\ save'[b].put \in 0..Len(data')
  BY <1>1, <1>3 DEF PublishFacts, Shape, Numbered
<1>7. QED
  BY <1>1, <1>3, <1>4, <1>5, <1>6, ShapeOfSaving, StepsFollow DEF PublishFacts, Publish

\* An exception leaves the workbook and the files as they are.
FailFacts(b) ==
  /\ save' \in [Books -> SaveStates] /\ book' = book /\ UNCHANGED files
  /\ \A c \in Books \ {b} : save'[c] = save[c]
  /\ save'[b].step = "idle" /\ save'[b].failed
  /\ save'[b].dest = save[b].dest /\ save'[b].home = save[b].home
  /\ save'[b].count = save[b].count
  /\ save'[b].fd = save[b].fd /\ save'[b].put = save[b].put

LEMMA FailShape ==
  ASSUME Shape, NEW b \in session.books, Fail(b)
  PROVE  Shape' /\ FailFacts(b) /\ b \in Books
<1>1. /\ b \in Books /\ save[b] \in SaveStates /\ save \in [Books -> SaveStates]
      /\ book' = book /\ UNCHANGED files /\ book \in [Books -> BookStates]
  BY SessionFacts DEF Shape, Typed, Fail
<1>2. PICK t \in BOOLEAN : t
  OBVIOUS
<1>3. PICK s : s = [save[b] EXCEPT !.step = "idle", !.failed = t]
  OBVIOUS
<1>4. save' = [save EXCEPT ![b] = s]
  BY <1>1, <1>2, <1>3 DEF Fail, SaveStates
<1>5. "idle" \in Steps
  BY DEF Steps
<1>6. /\ s \in SaveStates /\ s.step = "idle" /\ s.dest = save[b].dest
      /\ s.home = save[b].home /\ s.fd = save[b].fd /\ s.count = save[b].count
      /\ s.failed = t /\ s.put = save[b].put /\ s.mixed = save[b].mixed
  BY <1>1, <1>3, <1>5 DEF SaveStates
<1>7. /\ save' \in [Books -> SaveStates] /\ save'[b] = s
      /\ \A x \in Books \ {b} : save'[x] = save[x]
  BY <1>1, <1>4, <1>6
<1>8. FailFacts(b)
  BY <1>1, <1>2, <1>6, <1>7 DEF FailFacts
<1>9. FilesGrow /\ data' = data
  BY <1>1, SameFiles DEF files
<1>10. Alters(b)
  BY <1>1, <1>7 DEF Alters, Fail
<1>11. promised' \subseteq Package /\ loose' \subseteq Paths /\ others' = others
  BY DEF Fail, Shape, Typed, history
<1>12. InStep(b)'
  BY <1>1, <1>8, <1>10 DEF InStep, FailFacts, Alters, Idle, IsOpen, Shape, InSteps
<1>13. book'[b].map \in 0..Len(data') /\ save'[b].fd \in 0..Len(data')
       /\ save'[b].put \in 0..Len(data')
  BY <1>1, <1>8, <1>9 DEF FailFacts, Shape, Numbered
<1>14. QED
  BY <1>1, <1>8, <1>9, <1>10, <1>11, <1>12, <1>13, ShapeOfStep DEF FailFacts

\* The process ends with all its workbooks.
CrashFacts ==
  /\ UNCHANGED files
  /\ \A b \in Books : /\ book'[b].mode = "closed" /\ save'[b].step = "idle"
                      /\ book'[b].map = InMemory
                      /\ save'[b].put = NoFile /\ save'[b].fd = NoFile

LEMMA CrashShape ==
  ASSUME Shape, Crash
  PROVE  Shape' /\ CrashFacts
<1>1. session' = session /\ others' = others /\ data' = data /\ at' = at
      /\ promised' = promised /\ loose' = loose /\ UNCHANGED files
  BY DEF Crash, files, history
<1>2. Closed \in BookStates /\ Closed.mode = "closed" /\ Closed.map = InMemory
  BY NothingIsAPackage DEF Closed, BookStates, InMemory
<1>3. book' = [b \in Books |-> Closed]
  BY DEF Crash
<1>4. ASSUME NEW b \in Books
      PROVE  /\ save'[b] \in SaveStates /\ save'[b].step = "idle"
             /\ save'[b].put = NoFile /\ save'[b].fd = NoFile
             /\ save'[b].count = save[b].count
             /\ book'[b] = Closed
  <2>1. PICK n : n = save[b].count
    OBVIOUS
  <2>2. n \in Nat
    BY <2>1 DEF Shape, Typed, SaveStates
  <2>3. save'[b] = [NoSave EXCEPT !.count = n]
    BY <2>1 DEF Crash
  <2>4. NoSave \in SaveStates
    BY NoSaveTyped
  <2>5. /\ save'[b] \in SaveStates /\ save'[b].step = NoSave.step
        /\ save'[b].put = NoSave.put /\ save'[b].fd = NoSave.fd /\ save'[b].count = n
    BY <2>2, <2>3, <2>4 DEF SaveStates
  <2>6. QED
    BY <1>3, <2>1, <2>5, NoSaveTyped DEF NoFile
<1>5. book' \in [Books -> BookStates]
  BY <1>2, <1>3
<1>6. save' \in [Books -> SaveStates]
  <2>1. save' = [b \in Books |-> [NoSave EXCEPT !.count = save[b].count]]
    BY DEF Crash
  <2>2. ASSUME NEW b \in Books PROVE save'[b] = [NoSave EXCEPT !.count = save[b].count]
    BY <2>1
  <2>3. ASSUME NEW b \in Books PROVE [NoSave EXCEPT !.count = save[b].count] \in SaveStates
    BY <1>4, <2>2
  <2>4. QED
    BY <2>1, <2>3
<1>7. Typed'
  BY <1>1, <1>5, <1>6 DEF Shape, Typed
<1>8. Numbered'
  <2>1. Len(data) \in Nat
    BY DEF Shape, Typed
  <2>2. ASSUME NEW b \in Books
        PROVE  /\ book'[b].map \in 0..Len(data')
               /\ save'[b].fd \in 0..Len(data')
               /\ save'[b].put \in 0..Len(data')
    BY <1>1, <1>2, <1>4, <2>1 DEF InMemory, NoFile
  <2>3. QED
    BY <1>1, <2>2 DEF Shape, Numbered
<1>9. ASSUME NEW b \in Books PROVE InStep(b)'
  BY <1>1, <1>2, <1>4 DEF Shape, InSteps, InStep, Idle, IsOpen
<1>10. InSteps'
  BY <1>9 DEF InSteps
<1>11. CrashFacts
  BY <1>1, <1>2, <1>4 DEF CrashFacts
<1>12. QED
  BY <1>7, <1>8, <1>10, <1>11 DEF Shape

\* Another program changes what a path names.
OthersShapeFacts ==
  /\ book' = book /\ save' = save /\ session' = session
  /\ others' \in 0..session.others
  /\ promised' = promised /\ loose' = loose

LEMMA OthersShape ==
  ASSUME Shape, OthersShapeFacts, FilesGrow, Len(data) \in Nat
  PROVE  Shape'
<1>1. Typed'
  BY DEF Shape, Typed, OthersShapeFacts, FilesGrow
<1>2. Numbered'
  <2>1. Len(data') \in Nat
    BY DEF FilesGrow
  <2>2. ASSUME NEW b \in Books
        PROVE  /\ book'[b].map \in 0..Len(data')
               /\ save'[b].fd \in 0..Len(data')
               /\ save'[b].put \in 0..Len(data')
    BY <2>1 DEF Shape, Numbered, OthersShapeFacts, FilesGrow
  <2>3. QED
    BY <2>2 DEF Numbered, FilesGrow
<1>3. ASSUME NEW b \in Books PROVE InStep(b)'
  BY DEF Shape, InSteps, InStep, Idle, IsOpen, OthersShapeFacts
<1>4. QED
  BY <1>1, <1>2, <1>3 DEF Shape, InSteps

OtherFacts(p) ==
  /\ book' = book /\ save' = save
  /\ \/ Adds(Nothing) /\ Names(p, Len(data) + 1)
     \/ data' = data /\ Names(p, NoFile)

LEMMA OtherShape ==
  ASSUME Shape, NEW p \in session.loads, OtherReplaces(p) \/ OtherRemoves(p)
  PROVE  Shape' /\ OtherFacts(p) /\ p \in Paths
<1>1. /\ p \in Paths /\ Len(data) \in Nat /\ session.others \in Nat
      /\ at \in [Paths -> Nat] /\ others \in 0..session.others
  BY SessionFacts DEF Shape, Typed
<1>2. OthersShapeFacts
  BY <1>1 DEF OtherReplaces, OtherRemoves, OthersShapeFacts, history
<1>3. CASE OtherReplaces(p)
  <2>1. data' = Append(data, Nothing) /\ at' = [at EXCEPT ![p] = Len(data')]
    BY <1>3 DEF OtherReplaces
  <2>2. Adds(Nothing)
    BY <2>1, AddsFacts, NothingIsAPackage
  <2>3. at' = [at EXCEPT ![p] = Len(data) + 1]
    BY <2>1, <2>2 DEF Adds
  <2>4. Names(p, Len(data) + 1)
    BY <1>1, <2>3 DEF Names
  <2>5. FilesGrow
    BY <1>1, <2>2, <2>4, GrowingFiles, NothingIsAPackage
  <2>6. QED
    BY <1>1, <1>2, <2>2, <2>4, <2>5, OthersShape DEF OtherFacts, OthersShapeFacts
<1>4. CASE OtherRemoves(p)
  <2>1. data' = data /\ at' = [at EXCEPT ![p] = NoFile]
    BY <1>4 DEF OtherRemoves
  <2>2. Names(p, NoFile)
    BY <1>1, <2>1 DEF Names, NoFile
  <2>3. FilesGrow
    BY <1>1, <2>1, <2>2 DEF FilesGrow, Names, NoFile, Shape, Typed, Numbered
  <2>4. QED
    BY <1>1, <1>2, <2>1, <2>2, <2>3, OthersShape DEF OtherFacts, OthersShapeFacts
<1>5. QED
  BY <1>3, <1>4

\* A step of the system: an action of a workbook, a crash, another program, or nothing.
Acts(b) ==
  \/ \E p \in session.loads : Load(b, p)
  \/ \E kind \in session.kinds : Edit(b, kind)
  \/ Close(b)
  \/ \E d \in session.dests : BeginSave(b, d)
  \/ Patch(b) \/ CopySource(b) \/ OpenTarget(b) \/ FillTarget(b)
  \/ TakeLayout(b) \/ RewriteLayout(b) \/ ReplayMerges(b) \/ WriteProps(b)
  \/ MapCopy(b) \/ Publish(b)
  \/ Fail(b)

LEMMA StepsOfTheSystem ==
  ASSUME [Next]_vars
  PROVE  \/ \E b \in session.books : Acts(b)
         \/ Crash
         \/ \E p \in session.loads : OtherReplaces(p) \/ OtherRemoves(p)
         \/ UNCHANGED vars
BY DEF Next, Acts

LEMMA ShapeStep == Shape /\ [Next]_vars => Shape'
<1> SUFFICES ASSUME Shape, [Next]_vars PROVE Shape'
  OBVIOUS
<1>1. ASSUME NEW b \in session.books, Acts(b) PROVE Shape'
  BY <1>1, LoadShape, EditShape, CloseShape, BeginSaveShape, PatchShape, CopySourceShape,
     OpenTargetShape, FillTargetShape, TakeLayoutShape, RewriteLayoutShape,
     ReplayMergesShape, WritePropsShape, MapCopyShape, PublishShape, FailShape DEF Acts
<1>2. CASE UNCHANGED vars
  <2>1. /\ session' = session /\ at' = at /\ data' = data /\ book' = book /\ save' = save
        /\ promised' = promised /\ loose' = loose /\ others' = others
    BY <1>2 DEF vars
  <2>2. Typed' /\ Numbered'
    BY <2>1 DEF Shape, Typed, Numbered
  <2>3. ASSUME NEW b \in Books PROVE InStep(b)'
    BY <2>1 DEF Shape, InSteps, InStep, Idle, IsOpen
  <2>4. QED
    BY <2>2, <2>3 DEF Shape, InSteps
<1>3. QED
  BY <1>1, <1>2, CrashShape, OtherShape, StepsOfTheSystem

LEMMA AlwaysShape == Spec => []Shape
<1>1. Init => Shape
  BY InitShape
<1>2. Shape /\ [Next]_vars => Shape'
  BY ShapeStep
<1>3. QED
  BY <1>1, <1>2, PTL DEF Spec

\* Every value is of its type: paths, maps and open files name files that there are,
\* and what workbooks hold and saves were to write are packages (SaveFiles).
THEOREM TypeCorrect == Spec => []TypeOK
<1>1. Shape => TypeOK
  <2> SUFFICES ASSUME Shape PROVE TypeOK
    OBVIOUS
  <2>1. at \in [Paths -> 0..Len(data)]
    BY DEF Shape, Typed, Numbered
  <2>2. ASSUME NEW b \in Books
        PROVE  /\ book[b].mode \in {"closed", "read", "modify"}
               /\ book[b].origin \in Paths \cup {0}
               /\ book[b].map \in 0..Len(data)
               /\ {book[b].bytes, book[b].private, book[b].shows} \subseteq Package
               /\ book[b].dirty \subseteq Kinds
    BY DEF Shape, Typed, Numbered, BookStates
  <2>3. ASSUME NEW b \in Books
        PROVE  /\ save[b].dest \in Paths \cup {0}
               /\ save[b].fd \in 0..Len(data) /\ save[b].put \in 0..Len(data)
               /\ save[b].count \in 0..session.saves
    BY SessionFacts DEF Shape, Typed, Numbered, SaveStates, InSteps, InStep
  <2>4. QED
    BY <2>1, <2>2, <2>3 DEF TypeOK, Shape, Typed
<1>2. QED
  BY <1>1, AlwaysShape, PTL

-----------------------------------------------------------------------------
(* The file that a save is about to publish is its own. *)

\* The copy of b is not yet named, nobody else writes it, and b reads from it.
Fresh(b) ==
  save[b].step = "rename" =>
    /\ save[b].put \in 1..Len(data)
    /\ data[save[b].put] = book[b].private
    /\ IF book[b].map = InMemory THEN book[b].bytes = book[b].private
                                 ELSE book[b].map = save[b].put
    /\ \A p \in Paths : at[p] # save[b].put
    /\ \A c \in Books : save[c].step = "fill" => save[c].fd # save[b].put
    /\ \A c \in Books \ {b} : save[c].step = "rename" => save[c].put # save[b].put

AllFresh == \A b \in Books : Fresh(b)

\* An action that leaves the files alone, and no copy to be published.
QuietFacts(b) ==
  /\ Alters(b) /\ UNCHANGED files
  /\ save'[b].step \in {"fill", "rename"} =>
       save'[b] = save[b] /\ book'[b] = book[b]

LEMMA UserActionsAreQuiet ==
  ASSUME Shape, NEW b \in session.books,
         \/ \E p \in session.loads : Load(b, p)
         \/ \E kind \in session.kinds : Edit(b, kind)
         \/ Close(b)
         \/ \E d \in session.dests : BeginSave(b, d)
  PROVE  QuietFacts(b) /\ Idle(b) /\ b \in Books
<1>1. /\ b \in Books /\ book \in [Books -> BookStates] /\ save \in [Books -> SaveStates]
      /\ Idle(b) \/ IsOpen(b)
  BY SessionFacts DEF Shape, Typed, InSteps, InStep
<1>2. ASSUME NEW p \in session.loads, Load(b, p) PROVE QuietFacts(b) /\ Idle(b)
  <2>1. PICK r : book' = [book EXCEPT ![b] = r]
    BY <1>2 DEF Load
  <2>2. /\ save' = save /\ session' = session /\ UNCHANGED files /\ ~IsOpen(b)
    BY <1>2 DEF Load
  <2>3. Idle(b)
    BY <1>1, <2>2
  <2>4. QED
    BY <1>1, <2>1, <2>2, <2>3 DEF QuietFacts, Alters, Idle
<1>3. ASSUME NEW kind \in session.kinds, Edit(b, kind) PROVE QuietFacts(b) /\ Idle(b)
  <2>1. PICK r : r = [book[b] EXCEPT !.dirty = @ \cup {kind},
                                     !.shows.edits = @ \cup {<<b, kind>>}]
    OBVIOUS
  <2>2. book' = [book EXCEPT ![b] = r]
    BY <1>1, <1>3, <2>1, ZenonT(40) DEF Edit, BookStates, Package
  <2>3. save' = save /\ session' = session /\ UNCHANGED files /\ Idle(b)
    BY <1>3 DEF Edit
  <2>4. QED
    BY <1>1, <2>2, <2>3 DEF QuietFacts, Alters, Idle
<1>4. ASSUME Close(b) PROVE QuietFacts(b) /\ Idle(b)
  <2>1. save' = save /\ session' = session /\ UNCHANGED files /\ Idle(b)
        /\ book' = [book EXCEPT ![b] = Closed]
    BY <1>4 DEF Close
  <2>2. QED
    BY <1>1, <2>1 DEF QuietFacts, Alters, Idle
<1>5. ASSUME NEW d \in session.dests, BeginSave(b, d) PROVE QuietFacts(b) /\ Idle(b)
  <2>1. Idle(b) /\ session' = session /\ UNCHANGED files
    BY <1>5 DEF BeginSave
  <2>2. \A c \in Books \ {b} : book'[c] = book[c] /\ save'[c] = save[c]
    BY <1>1, <1>5 DEF BeginSave
  <2>3. PICK s : s.step = "write" /\ save' = [save EXCEPT ![b] = s]
    <3>1. PICK h, n : save' = [save EXCEPT ![b] = [NoSave EXCEPT !.step = "write",
                                !.dest = d, !.home = h, !.count = n]]
      BY <1>5 DEF BeginSave
    <3>2. [NoSave EXCEPT !.step = "write", !.dest = d, !.home = h, !.count = n].step = "write"
      BY DEF NoSave
    <3>3. QED
      BY <3>1, <3>2
  <2>4. save'[b].step = "write"
    BY <1>1, <2>3
  <2>5. QED
    BY <2>1, <2>2, <2>4 DEF QuietFacts, Alters
<1>6. QED
  BY <1>1, <1>2, <1>3, <1>4, <1>5

\* The steps that come after a step that only rewrites, patches or copies.
LEMMA AfterIsNoRename ==
  ASSUME Shape, NEW b \in Books, ~Idle(b), save[b].step # "snapshot"
  PROVE  After(b) # "rename" /\ After(b) # "fill"
<1>1. save[b].step \in Steps
  BY DEF Shape, Typed, SaveStates
<1>2. QED
  BY <1>1 DEF After, Idle, Steps

\* Another workbook's copy is kept by a step that does not write it.
LEMMA FreshKept ==
  ASSUME Shape, NEW x \in Books, Fresh(x), save'[x] = save[x], book'[x] = book[x],
         Len(data) <= Len(data'), Len(data') \in Nat,
         save[x].step = "rename" =>
           /\ data'[save[x].put] = data[save[x].put]
           /\ \A p \in Paths : at'[p] # save[x].put
           /\ \A c \in Books : save'[c].step = "fill" => save'[c].fd # save[x].put
           /\ \A c \in Books \ {x} : save'[c].step = "rename" => save'[c].put # save[x].put
  PROVE  Fresh(x)'
<1>1. Len(data) \in Nat
  BY DEF Shape, Typed
<1>2. QED
  BY <1>1 DEF Fresh

LEMMA QuietKeepsFresh ==
  ASSUME Shape, AllFresh, NEW b \in Books, QuietFacts(b)
  PROVE  AllFresh'
<1>1. Len(data) \in Nat /\ data' = data /\ at' = at
  BY DEF Shape, Typed, QuietFacts, files
<1>2. \A c \in Books \ {b} : book'[c] = book[c] /\ save'[c] = save[c]
  BY DEF QuietFacts, Alters
<1>3. ASSUME NEW c \in Books, save'[c].step \in {"fill", "rename"}
      PROVE  save'[c] = save[c] /\ book'[c] = book[c]
  BY <1>2, <1>3 DEF QuietFacts
<1>4. ASSUME NEW x \in Books, save'[x].step = "rename" PROVE Fresh(x)'
  <2>1. save'[x] = save[x] /\ book'[x] = book[x] /\ Fresh(x)
    BY <1>3, <1>4 DEF AllFresh
  <2>2. QED
    BY <1>1, <1>3, <2>1, FreshKept DEF Fresh
<1>5. QED
  BY <1>4 DEF AllFresh, Fresh

\* The step of b that writes or names files, but not those of the others.
LEMMA DiskStepKeepsFresh ==
  ASSUME Shape, AllFresh, NEW b \in Books, Alters(b),
         Len(data) <= Len(data'), Len(data') \in Nat,
         \A x \in Books \ {b} : save[x].step = "rename" =>
           /\ data'[save[x].put] = data[save[x].put]
           /\ \A p \in Paths : at'[p] # save[x].put
           /\ save'[b].step = "fill" => save'[b].fd # save[x].put
           /\ save'[b].step = "rename" => save'[b].put # save[x].put,
         Fresh(b)'
  PROVE  AllFresh'
<1>1. ASSUME NEW x \in Books, x # b PROVE Fresh(x)'
  <2>1. save'[x] = save[x] /\ book'[x] = book[x] /\ Fresh(x)
    BY <1>1 DEF Alters, AllFresh
  <2>2. ASSUME save[x].step = "rename"
        PROVE  /\ \A c \in Books : save'[c].step = "fill" => save'[c].fd # save[x].put
               /\ \A c \in Books \ {x} : save'[c].step = "rename" => save'[c].put # save[x].put
    BY <1>1, <2>1, <2>2 DEF Alters, Fresh
  <2>3. QED
    BY <1>1, <2>1, <2>2, FreshKept
<1>2. QED
  BY <1>1 DEF AllFresh

\* A new file is nobody else's copy.
LEMMA AddingKeepsFresh ==
  ASSUME Shape, AllFresh, NEW b \in Books, Alters(b), NEW c, Adds(c),
         \A p \in Paths : at'[p] = at[p] \/ at'[p] = Len(data) + 1,
         save'[b].step = "fill" => save'[b].fd = Len(data) + 1,
         save'[b].step = "rename" => save'[b].put = Len(data) + 1,
         Fresh(b)'
  PROVE  AllFresh'
<1>1. Len(data) \in Nat /\ Len(data') = Len(data) + 1
  BY DEF Shape, Typed, Adds
<1>2. ASSUME NEW x \in Books \ {b}, save[x].step = "rename"
      PROVE  /\ data'[save[x].put] = data[save[x].put]
             /\ \A p \in Paths : at'[p] # save[x].put
             /\ save'[b].step = "fill" => save'[b].fd # save[x].put
             /\ save'[b].step = "rename" => save'[b].put # save[x].put
  BY <1>1, <1>2 DEF AllFresh, Fresh, Adds
<1>3. QED
  BY <1>1, <1>2, DiskStepKeepsFresh

LEMMA NotRenaming == ASSUME NEW b, save'[b].step # "rename" PROVE Fresh(b)'
BY DEF Fresh

\* A step of the save of b, as far as the other saves can tell.
LEMMA SavingAlters ==
  ASSUME Shape, NEW b \in Books, ~Idle(b), SaveMoves(b), BookMoves(b) \/ book' = book,
         session' = session
  PROVE  /\ Alters(b)
         /\ save[b].step # "snapshot" =>
              save'[b].step # "fill" /\ save'[b].step # "rename" /\ Fresh(b)'
BY AfterIsNoRename, NotRenaming DEF SaveMoves, BookMoves, Alters

LEMMA FreshStep == Shape /\ Shape' /\ AllFresh /\ [Next]_vars => AllFresh'
<1> SUFFICES ASSUME Shape, Shape', AllFresh, [Next]_vars PROVE AllFresh'
  OBVIOUS
<1>0. Len(data) \in Nat /\ Len(data') \in Nat
  BY DEF Shape, Typed
<1>1. ASSUME NEW b \in session.books,
             \/ \E p \in session.loads : Load(b, p)
             \/ \E kind \in session.kinds : Edit(b, kind)
             \/ Close(b)
             \/ \E d \in session.dests : BeginSave(b, d)
      PROVE  AllFresh'
  BY <1>1, UserActionsAreQuiet, QuietKeepsFresh
<1>2. ASSUME NEW b \in session.books, Patch(b) PROVE AllFresh'
  <2>1. b \in Books /\ PatchFacts(b) /\ session' = session /\ ~Idle(b)
        /\ save[b].step # "snapshot"
    BY <1>2, PatchShape DEF Patch, Idle
  <2>2. Alters(b) /\ Fresh(b)' /\ save'[b].step # "fill" /\ save'[b].step # "rename"
    BY <2>1, SavingAlters DEF PatchFacts
  <2>3. CASE UNCHANGED files
    BY <2>1, <2>2, <2>3, QuietKeepsFresh DEF QuietFacts
  <2>4. CASE Adds(Patched(b)) /\ Names(save[b].dest, Len(data) + 1)
    BY <2>1, <2>2, <2>4, AddingKeepsFresh DEF Names
  <2>5. QED
    BY <2>1, <2>3, <2>4 DEF PatchFacts
<1>3. ASSUME NEW b \in session.books, CopySource(b) PROVE AllFresh'
  <2>1. b \in Books /\ CopyFacts(b) /\ session' = session /\ ~Idle(b)
        /\ save[b].step # "snapshot"
    BY <1>3, CopySourceShape DEF CopySource, Idle
  <2>2. Alters(b) /\ Fresh(b)' /\ save'[b].step # "fill" /\ save'[b].step # "rename"
    BY <2>1, SavingAlters DEF CopyFacts
  <2>3. QED
    BY <2>1, <2>2, AddingKeepsFresh DEF CopyFacts, Names
<1>4. ASSUME NEW b \in session.books, OpenTarget(b) PROVE AllFresh'
  <2>1. b \in Books /\ OpenFacts(b) /\ session' = session /\ save[b].dest \in Paths
    BY <1>4, OpenTargetShape DEF OpenTarget, Idle, Shape, InSteps, InStep
  <2>2. Alters(b) /\ Fresh(b)' /\ save'[b].step = "fill"
    BY <2>1, NotRenaming DEF OpenFacts, Alters
  <2>3. CASE Adds(Torn) /\ Names(save[b].dest, Len(data) + 1)
             /\ save'[b].fd = Len(data) + 1
    BY <2>1, <2>2, <2>3, AddingKeepsFresh DEF Names
  <2>4. ASSUME at' = at, InPlace(at[save[b].dest], Torn), save'[b].fd = at[save[b].dest]
        PROVE  AllFresh'
    <3>1. Len(data) <= Len(data')
      BY <1>0, <2>4 DEF InPlace
    <3>2. ASSUME NEW x \in Books \ {b}, save[x].step = "rename"
          PROVE  /\ data'[save[x].put] = data[save[x].put]
                 /\ \A p \in Paths : at'[p] # save[x].put
                 /\ save'[b].step = "fill" => save'[b].fd # save[x].put
                 /\ save'[b].step = "rename" => save'[b].put # save[x].put
      <4>1. /\ save[x].put \in 1..Len(data)
            /\ \A p \in Paths : at[p] # save[x].put
        BY <3>2 DEF AllFresh, Fresh
      <4>2. at[save[b].dest] # save[x].put
        BY <2>1, <4>1
      <4>3. QED
        BY <2>2, <2>4, <4>1, <4>2 DEF InPlace
    <3>3. QED
      BY <1>0, <2>1, <2>2, <3>1, <3>2, DiskStepKeepsFresh
  <2>5. QED
    BY <2>1, <2>3, <2>4 DEF OpenFacts
<1>5. ASSUME NEW b \in session.books, FillTarget(b) PROVE AllFresh'
  <2>1. b \in Books /\ FillFacts(b) /\ session' = session /\ ~Idle(b)
        /\ save[b].step = "fill"
    BY <1>5, FillTargetShape DEF FillTarget, Idle
  <2>2. Alters(b) /\ Fresh(b)' /\ save'[b].step # "fill" /\ save'[b].step # "rename"
    BY <2>1, SavingAlters DEF FillFacts
  <2>3. InPlace(save[b].fd, Source(b)) /\ at' = at /\ Len(data) <= Len(data')
    BY <1>0, <2>1 DEF FillFacts, InPlace
  <2>4. ASSUME NEW x \in Books \ {b}, save[x].step = "rename"
        PROVE  /\ data'[save[x].put] = data[save[x].put]
               /\ \A p \in Paths : at'[p] # save[x].put
    BY <2>1, <2>3, <2>4 DEF AllFresh, Fresh, InPlace
  <2>5. QED
    BY <1>0, <2>1, <2>2, <2>3, <2>4, DiskStepKeepsFresh
<1>6. ASSUME NEW b \in session.books, TakeLayout(b) PROVE AllFresh'
  <2>1. b \in Books /\ TakeFacts(b) /\ session' = session /\ ~Idle(b)
        /\ save[b].step # "snapshot"
    BY <1>6, TakeLayoutShape DEF TakeLayout, Idle
  <2>2. Alters(b) /\ save'[b].step # "fill" /\ save'[b].step # "rename"
    BY <2>1, SavingAlters DEF TakeFacts
  <2>3. QED
    BY <2>1, <2>2, QuietKeepsFresh DEF QuietFacts, TakeFacts
<1>7. ASSUME NEW b \in Books, NEW kinds, NEW cleared, RewriteFacts(b, kinds, cleared),
             session' = session, ~Idle(b), save[b].step # "snapshot"
      PROVE  AllFresh'
  <2>1. Alters(b) /\ Fresh(b)' /\ save'[b].step # "fill" /\ save'[b].step # "rename"
    BY <1>7, SavingAlters DEF RewriteFacts
  <2>2. CASE UNCHANGED files
    BY <2>1, <2>2, QuietKeepsFresh DEF QuietFacts
  <2>3. CASE Adds(With(Target(b), b, kinds)) /\ Names(save[b].dest, Len(data) + 1)
    BY <2>1, <2>3, AddingKeepsFresh DEF Names
  <2>4. QED
    BY <1>7, <2>2, <2>3 DEF RewriteFacts
<1>8. ASSUME NEW b \in Books, StayFacts(b), session' = session, ~Idle(b),
             save[b].step # "snapshot"
      PROVE  AllFresh'
  <2>1. Alters(b) /\ save'[b].step # "fill" /\ save'[b].step # "rename"
    BY <1>8, SavingAlters DEF StayFacts
  <2>2. QED
    BY <1>8, <2>1, QuietKeepsFresh DEF QuietFacts, StayFacts
<1>9. ASSUME NEW b \in session.books, RewriteLayout(b) \/ ReplayMerges(b) \/ WriteProps(b)
      PROVE  AllFresh'
  <2>1. session' = session /\ ~Idle(b) /\ save[b].step # "snapshot"
    BY <1>9 DEF RewriteLayout, ReplayMerges, WriteProps, Idle
  <2>2. b \in Books /\ (\/ StayFacts(b)
                        \/ RewriteFacts(b, {"layout"}, {}) \/ RewriteFacts(b, {"merges"}, {})
                        \/ RewriteFacts(b, {"props"}, {"props"}))
    BY <1>9, RewriteLayoutShape, ReplayMergesShape, WritePropsShape
  <2>3. QED
    BY <1>7, <1>8, <2>1, <2>2
<1>10. ASSUME NEW b \in session.books, MapCopy(b) PROVE AllFresh'
  <2>1. b \in Books /\ MapFacts(b) /\ session' = session /\ ~Idle(b)
        /\ save[b].step = "snapshot"
    BY <1>10, MapCopyShape DEF MapCopy, Idle
  <2>2. Alters(b)
    BY <2>1, SavingAlters DEF MapFacts
  <2>3. save'[b].step = "rename"
    BY <2>1 DEF MapFacts, SaveMoves, After
  <2>4. Fresh(b)'
    <3>1. save'[b].put = Len(data) + 1 /\ Len(data') = Len(data) + 1
          /\ data'[Len(data) + 1] = book[b].private /\ book'[b].private = book[b].private
      BY <2>1 DEF MapFacts, Adds
    <3>2. IF book'[b].map = InMemory THEN book'[b].bytes = book'[b].private
                                     ELSE book'[b].map = save'[b].put
      BY <1>0, <2>1, <3>1 DEF MapFacts, InMemory
    <3>3. \A p \in Paths : at'[p] # save'[b].put
      BY <1>0, <2>1, <3>1 DEF MapFacts, Shape, Numbered
    <3>4. ASSUME NEW c \in Books, save'[c].step = "fill"
          PROVE  save'[c].fd # save'[b].put
      BY <1>0, <2>1, <2>2, <2>3, <3>1, <3>4 DEF Alters, Shape, Numbered
    <3>5. ASSUME NEW c \in Books \ {b}, save'[c].step = "rename"
          PROVE  save'[c].put # save'[b].put
      BY <1>0, <2>1, <2>2, <3>1, <3>5 DEF Alters, Shape, Numbered
    <3>6. QED
      BY <1>0, <3>1, <3>2, <3>3, <3>4, <3>5 DEF Fresh
  <2>5. QED
    BY <2>1, <2>2, <2>3, <2>4, AddingKeepsFresh DEF MapFacts
<1>11. ASSUME NEW b \in session.books, Publish(b) PROVE AllFresh'
  <2>1. b \in Books /\ PublishFacts(b) /\ session' = session /\ ~Idle(b)
        /\ save[b].step = "rename"
    BY <1>11, PublishShape DEF Publish, Idle
  <2>2. Alters(b) /\ Fresh(b)' /\ save'[b].step # "fill" /\ save'[b].step # "rename"
    BY <2>1, SavingAlters DEF PublishFacts
  <2>3. data' = data /\ Names(save[b].dest, save[b].put)
    BY <2>1 DEF PublishFacts
  <2>4. ASSUME NEW x \in Books \ {b}, save[x].step = "rename"
        PROVE  /\ data'[save[x].put] = data[save[x].put]
               /\ \A p \in Paths : at'[p] # save[x].put
    BY <2>1, <2>3, <2>4 DEF AllFresh, Fresh, Names
  <2>5. QED
    BY <1>0, <2>1, <2>2, <2>3, <2>4, DiskStepKeepsFresh
<1>12. ASSUME NEW b \in session.books, Fail(b) PROVE AllFresh'
  <2>1. b \in Books /\ FailFacts(b) /\ session' = session
    BY <1>12, FailShape DEF Fail
  <2>2. QED
    BY <2>1, QuietKeepsFresh DEF QuietFacts, FailFacts, Alters
<1>13. ASSUME Crash PROVE AllFresh'
  BY <1>13, CrashShape DEF CrashFacts, AllFresh, Fresh
<1>14. ASSUME NEW q \in session.loads, OtherReplaces(q) \/ OtherRemoves(q) PROVE AllFresh'
  <2>1. OtherFacts(q) /\ q \in Paths
    BY <1>14, OtherShape
  <2>2. ASSUME NEW x \in Books PROVE Fresh(x)'
    <3>1. Len(data) <= Len(data')
      BY <1>0, <2>1 DEF OtherFacts, Adds
    <3>2. ASSUME save[x].step = "rename"
          PROVE  /\ data'[save[x].put] = data[save[x].put]
                 /\ \A p \in Paths : at'[p] # save[x].put
      BY <1>0, <2>1, <3>2 DEF OtherFacts, Adds, Names, NoFile, AllFresh, Fresh
    <3>3. save' = save /\ book' = book /\ Fresh(x)
      BY <2>1 DEF OtherFacts, AllFresh
    <3>4. QED
      BY <1>0, <3>1, <3>2, <3>3, FreshKept DEF Fresh
  <2>3. QED
    BY <2>2 DEF AllFresh
<1>15. ASSUME UNCHANGED vars PROVE AllFresh'
  <2>1. at' = at /\ data' = data /\ book' = book /\ save' = save
    BY <1>15 DEF vars
  <2>2. ASSUME NEW x \in Books PROVE Fresh(x)'
    BY <2>1 DEF AllFresh, Fresh
  <2>3. QED
    BY <2>2 DEF AllFresh
<1>16. ASSUME NEW b \in session.books, Acts(b) PROVE AllFresh'
  BY <1>1, <1>2, <1>3, <1>4, <1>5, <1>6, <1>9, <1>10, <1>11, <1>12, <1>16 DEF Acts
<1>17. QED
  BY <1>13, <1>14, <1>15, <1>16, StepsOfTheSystem

LEMMA AlwaysFresh == Spec => []AllFresh
<1>1. Init => AllFresh
  BY DEF Init, AllFresh, Fresh, NoSave
<1>2. Shape /\ Shape' /\ AllFresh /\ [Next]_vars => AllFresh'
  BY FreshStep
<1>3. QED
  BY <1>1, <1>2, AlwaysShape, PTL DEF Spec

\* Only the last step of a save returns: the properties are written, or the copy is
\* published if the save goes back to the loaded file.
LEMMA ReturningSteps ==
  ASSUME Shape, [Next]_vars, NEW b \in Books, Returns(b)
  PROVE  \/ b \in session.books /\ Publish(b)
         \/ b \in session.books /\ WriteProps(b) /\ ~save[b].home
<1>1. ~Idle(b) /\ save'[b].step = "idle" /\ book'[b].mode # "closed" /\ ~save'[b].failed
  BY DEF Returns, Idle, IsOpen
<1>2. ASSUME NEW c \in session.books, Acts(c)
      PROVE  c = b /\ (Publish(b) \/ (WriteProps(b) /\ ~save[b].home))
  <2>1. c \in Books
    BY SessionFacts DEF Shape, Typed
  <2>2. save[b].step \in Steps
    BY DEF Shape, Typed, SaveStates
  <2>3. CASE \/ \E p \in session.loads : Load(c, p)
             \/ \E kind \in session.kinds : Edit(c, kind)
             \/ Close(c)
             \/ \E d \in session.dests : BeginSave(c, d)
    <3>1. QuietFacts(c) /\ Idle(c)
      BY <2>3, UserActionsAreQuiet
    <3>2. c # b
      BY <1>1, <3>1
    <3>3. QED
      BY <1>1, <3>1, <3>2 DEF QuietFacts, Alters, Idle
  <2>4. ASSUME ~Idle(c), SaveMoves(c)
        PROVE  c = b /\ (save[b].step = "rename" \/ (save[b].step = "props" /\ ~save[b].home))
    BY <1>1, <2>1, <2>2, <2>4 DEF SaveMoves, After, Idle, Steps
  <2>5. CASE Patch(c) \/ CopySource(c) \/ FillTarget(c) \/ TakeLayout(c) \/ RewriteLayout(c)
             \/ ReplayMerges(c) \/ MapCopy(c)
    <3>1. ~Idle(c) /\ SaveMoves(c)
      BY <2>5, PatchShape, CopySourceShape, FillTargetShape, TakeLayoutShape,
         RewriteLayoutShape, ReplayMergesShape, MapCopyShape
         DEF PatchFacts, CopyFacts, FillFacts, TakeFacts, RewriteFacts, StayFacts, MapFacts,
             Patch, CopySource, FillTarget, TakeLayout, RewriteLayout, ReplayMerges, MapCopy,
             Idle
    <3>2. save[c].step \notin {"rename", "props"}
      BY <2>5 DEF Patch, CopySource, FillTarget, TakeLayout, RewriteLayout, ReplayMerges,
         MapCopy
    <3>3. QED
      BY <2>4, <3>1, <3>2
  <2>6. CASE OpenTarget(c)
    BY <1>1, <2>1, <2>6, OpenTargetShape DEF OpenFacts, Idle
  <2>7. CASE WriteProps(c) \/ Publish(c)
    <3>1. ~Idle(c) /\ SaveMoves(c)
      BY <2>7, WritePropsShape, PublishShape DEF RewriteFacts, StayFacts, PublishFacts,
         WriteProps, Publish, Idle
    <3>2. WriteProps(c) => save[c].step = "props"
      BY DEF WriteProps
    <3>3. QED
      BY <2>4, <2>7, <3>1, <3>2
  <2>8. CASE Fail(c)
    BY <1>1, <2>1, <2>8, FailShape DEF FailFacts, Idle
  <2>9. QED
    BY <1>2, <2>3, <2>5, <2>6, <2>7, <2>8 DEF Acts
<1>3. ~Crash
  BY <1>1, CrashShape DEF CrashFacts
<1>4. ASSUME NEW q \in session.loads PROVE ~(OtherReplaces(q) \/ OtherRemoves(q))
  BY <1>1, OtherShape DEF OtherFacts, Idle
<1>5. ~UNCHANGED vars
  BY <1>1 DEF vars, Idle
<1>6. QED
  BY <1>2, <1>3, <1>4, <1>5, StepsOfTheSystem

\* Whatever other workbooks, programs and failures do in between: when a save back to
\* the loaded file returns, the buffer that metadata is read from and the private copy
\* that the next save patches are the same package (publish_modify_source).
THEOREM BufferAgreesWithCopy == Spec => BufferFollowsSave
<1>1. ASSUME Shape, Shape', AllFresh, [Next]_vars, NEW b \in Books, Returns(b), save[b].home
      PROVE  Source(b)' = book'[b].private
  <2>1. b \in session.books /\ Publish(b)
    BY <1>1, ReturningSteps
  <2>2. book' = book /\ data' = data /\ save[b].step = "rename"
    BY <1>1, <2>1, PublishShape DEF PublishFacts, Publish
  <2>3. QED
    BY <1>1, <2>2 DEF Source, AllFresh, Fresh
<1>2. Shape /\ Shape' /\ AllFresh /\ [Next]_vars =>
        [\A b \in Books : Returns(b) /\ save[b].home => Source(b)' = book'[b].private]_vars
  BY <1>1
<1>3. QED
  BY <1>2, AlwaysShape, AlwaysFresh, PTL DEF Spec, BufferFollowsSave

-----------------------------------------------------------------------------
(* What a workbook reads from its map. *)

Undisturbed == Len(data) <= Len(data') /\ \A i \in 1..Len(data) : data'[i] = data[i]

\* Only a save of an unedited workbook writes a file in place.
LEMMA DiskChanges ==
  ASSUME Shape, [Next]_vars
  PROVE  \/ Undisturbed
         \/ \E c \in session.books : /\ OpenTarget(c) /\ at[save[c].dest] # NoFile
                                     /\ InPlace(at[save[c].dest], Torn)
         \/ \E c \in session.books : FillTarget(c) /\ InPlace(save[c].fd, Source(c))
<1>0. Len(data) \in Nat
  BY DEF Shape, Typed
<1>1. UNCHANGED files => Undisturbed
  BY <1>0 DEF files, Undisturbed
<1>2. ASSUME NEW c, Adds(c) PROVE Undisturbed
  BY <1>0, <1>2 DEF Adds, Undisturbed
<1>3. ASSUME NEW c \in session.books, Acts(c), ~OpenTarget(c), ~FillTarget(c)
      PROVE  Undisturbed
  <2>1. CASE \/ \E p \in session.loads : Load(c, p)
             \/ \E kind \in session.kinds : Edit(c, kind)
             \/ Close(c)
             \/ \E d \in session.dests : BeginSave(c, d)
    BY <1>1, <2>1, UserActionsAreQuiet DEF QuietFacts
  <2>2. CASE Patch(c) \/ CopySource(c)
    BY <1>1, <1>2, <2>2, PatchShape, CopySourceShape DEF PatchFacts, CopyFacts
  <2>3. CASE TakeLayout(c) \/ Publish(c) \/ Fail(c)
    <3>1. data' = data
      BY <2>3, TakeLayoutShape, PublishShape, FailShape
         DEF TakeFacts, PublishFacts, FailFacts, files
    <3>2. QED
      BY <1>0, <3>1 DEF Undisturbed
  <2>4. CASE RewriteLayout(c) \/ ReplayMerges(c) \/ WriteProps(c)
    BY <1>1, <1>2, <2>4, RewriteLayoutShape, ReplayMergesShape, WritePropsShape
       DEF RewriteFacts, StayFacts
  <2>5. CASE MapCopy(c)
    BY <1>2, <2>5, MapCopyShape DEF MapFacts
  <2>6. QED
    BY <1>3, <2>1, <2>2, <2>3, <2>4, <2>5 DEF Acts
<1>4. ASSUME NEW c \in session.books, OpenTarget(c)
      PROVE  \/ Undisturbed
             \/ at[save[c].dest] # NoFile /\ InPlace(at[save[c].dest], Torn)
  BY <1>2, <1>4, OpenTargetShape DEF OpenFacts
<1>5. ASSUME NEW c \in session.books, FillTarget(c) PROVE InPlace(save[c].fd, Source(c))
  BY <1>5, FillTargetShape DEF FillFacts
<1>6. Crash => Undisturbed
  BY <1>1, CrashShape DEF CrashFacts
<1>7. ASSUME NEW p \in session.loads, OtherReplaces(p) \/ OtherRemoves(p) PROVE Undisturbed
  BY <1>0, <1>2, <1>7, OtherShape DEF OtherFacts, Undisturbed
<1>8. UNCHANGED vars => Undisturbed
  BY <1>0 DEF vars, Undisturbed
<1>9. QED
  BY <1>3, <1>4, <1>5, <1>6, <1>7, <1>8, StepsOfTheSystem

\* A workbook does not fill the file that it reads.
SourceApart ==
  \A b \in Books : save[b].step = "fill" /\ book[b].map # InMemory
                     => save[b].fd # book[b].map

\* An action of one workbook leaves the others and their saves alone.
LEMMA LeavesOthersAlone ==
  ASSUME Shape, NEW c \in session.books, Acts(c), NEW b \in Books, c # b
  PROVE  save'[b] = save[b] /\ book'[b] = book[b]
<1>1. CASE \/ \E p \in session.loads : Load(c, p)
           \/ \E kind \in session.kinds : Edit(c, kind)
           \/ Close(c)
           \/ \E d \in session.dests : BeginSave(c, d)
  BY <1>1, UserActionsAreQuiet DEF QuietFacts, Alters
<1>2. QED
  BY <1>1, PatchShape, CopySourceShape, OpenTargetShape, FillTargetShape,
     TakeLayoutShape, RewriteLayoutShape, ReplayMergesShape, WritePropsShape,
     MapCopyShape, PublishShape, FailShape, SMTT(30)
     DEF Acts, PatchFacts, CopyFacts, OpenFacts, FillFacts, TakeFacts, RewriteFacts,
         StayFacts, MapFacts, PublishFacts, FailFacts, SaveMoves, BookMoves

\* Which step of a save begins to fill a file.
LEMMA FillingSteps ==
  ASSUME Shape, [Next]_vars, NEW b \in Books, save'[b].step = "fill"
  PROVE  \/ save'[b] = save[b] /\ book'[b] = book[b]
         \/ b \in session.books /\ OpenTarget(b) /\ OpenFacts(b)
<1>1. ASSUME NEW c \in session.books, Acts(c), c # b
      PROVE  save'[b] = save[b] /\ book'[b] = book[b]
  BY <1>1, LeavesOthersAlone
<1>2. ASSUME b \in session.books, Acts(b)
      PROVE  \/ save'[b] = save[b] /\ book'[b] = book[b]
             \/ OpenTarget(b) /\ OpenFacts(b)
  <2>1. CASE \/ \E p \in session.loads : Load(b, p)
             \/ \E kind \in session.kinds : Edit(b, kind)
             \/ Close(b)
             \/ \E d \in session.dests : BeginSave(b, d)
    BY <1>2, <2>1, UserActionsAreQuiet DEF QuietFacts
  <2>2. ASSUME SaveMoves(b), ~Idle(b) PROVE FALSE
    BY <2>2, StepsFollow DEF SaveMoves
  <2>3. CASE Patch(b) \/ CopySource(b) \/ FillTarget(b) \/ TakeLayout(b) \/ RewriteLayout(b)
             \/ ReplayMerges(b) \/ WriteProps(b) \/ MapCopy(b) \/ Publish(b)
    <3>1. ~Idle(b)
      BY <2>3 DEF Patch, CopySource, FillTarget, TakeLayout, RewriteLayout, ReplayMerges,
         WriteProps, MapCopy, Publish, Idle
    <3>2. SaveMoves(b)
      BY <1>2, <2>3, PatchShape, CopySourceShape, FillTargetShape,
         TakeLayoutShape, RewriteLayoutShape, ReplayMergesShape, WritePropsShape,
         MapCopyShape, PublishShape
         DEF PatchFacts, CopyFacts, FillFacts, TakeFacts, RewriteFacts,
             StayFacts, MapFacts, PublishFacts
    <3>3. QED
      BY <2>2, <3>1, <3>2
  <2>4. CASE OpenTarget(b)
    BY <1>2, <2>4, OpenTargetShape
  <2>5. CASE Fail(b)
    BY <1>2, <2>5, FailShape DEF FailFacts
  <2>6. QED
    BY <1>2, <2>1, <2>3, <2>4, <2>5 DEF Acts
<1>3. ~Crash
  BY CrashShape DEF CrashFacts
<1>4. ASSUME NEW p \in session.loads, OtherReplaces(p) \/ OtherRemoves(p)
      PROVE  save'[b] = save[b] /\ book'[b] = book[b]
  BY <1>4, OtherShape DEF OtherFacts
<1>5. UNCHANGED vars => save'[b] = save[b] /\ book'[b] = book[b]
  BY DEF vars
<1>6. QED
  BY <1>1, <1>2, <1>3, <1>4, <1>5, StepsOfTheSystem

LEMMA AlwaysApart == Spec => []SourceApart
<1>1. Init => SourceApart
  BY DEF Init, SourceApart, NoSave
<1>2. ASSUME Shape, SourceApart, [Next]_vars, NEW b \in Books,
             save'[b].step = "fill", book'[b].map # InMemory
      PROVE  save'[b].fd # book'[b].map
  <2>1. CASE save'[b] = save[b] /\ book'[b] = book[b]
    BY <1>2, <2>1 DEF SourceApart
  <2>2. CASE OpenTarget(b) /\ OpenFacts(b)
    <3>1. Len(data) \in Nat /\ book[b].map \in 0..Len(data) /\ book' = book
      BY <1>2, <2>2 DEF Shape, Typed, Numbered, OpenFacts
    <3>2. at[save[b].dest] # book[b].map
      BY <1>2, <2>2, <3>1 DEF OpenTarget, MapsFile
    <3>3. save'[b].fd = at[save[b].dest] \/ save'[b].fd = Len(data) + 1
      BY <2>2 DEF OpenFacts
    <3>4. QED
      BY <3>1, <3>2, <3>3
  <2>3. QED
    BY <1>2, <2>1, <2>2, FillingSteps
<1>3. Shape /\ SourceApart /\ [Next]_vars => SourceApart'
  BY <1>2 DEF SourceApart
<1>4. QED
  BY <1>1, <1>3, AlwaysShape, PTL DEF Spec

\* Sessions in which no workbook truncates what another one may have mapped.
NoTruncation == ~session.unedited \/ \E b \in Books : session.books \subseteq {b}

LEMMA SessionStays == [Next]_vars => session' = session
BY ZenonT(40) DEF Next, vars, Load, Edit, Close, BeginSave, Patch, CopySource, OpenTarget, FillTarget,
   TakeLayout, RewriteLayout, ReplayMerges, WriteProps, MapCopy, Publish, Fail, Crash,
   OtherReplaces, OtherRemoves

LEMMA MapStays ==
  ASSUME Shape, SourceApart, NoTruncation, [Next]_vars, NEW b \in Books,
         IsOpen(b), book[b].map # InMemory
  PROVE  data'[book[b].map] = data[book[b].map]
<1>1. book[b].map \in 1..Len(data) /\ b \in session.books
  <2>1. Len(data) \in Nat /\ book[b].map \in 0..Len(data)
    BY DEF Shape, Typed, Numbered
  <2>2. QED
    BY <2>1 DEF InMemory, Shape, InSteps, InStep
<1>2. CASE Undisturbed
  BY <1>1, <1>2 DEF Undisturbed
<1>3. ASSUME NEW c \in session.books, save[c].step \in {"write", "fill"},
             book[c].mode = "read"
      PROVE  c = b
  <2>1. c \in Books /\ session.unedited
    BY <1>3, SessionFacts DEF Shape, Typed, InSteps, InStep, Idle
  <2>2. QED
    BY <1>1, <2>1 DEF NoTruncation
<1>4. ASSUME NEW c \in session.books, OpenTarget(c), InPlace(at[save[c].dest], Torn)
      PROVE  data'[book[b].map] = data[book[b].map]
  <2>1. c = b
    BY <1>3, <1>4 DEF OpenTarget
  <2>2. at[save[b].dest] # book[b].map
    BY <1>4, <2>1 DEF OpenTarget, MapsFile
  <2>3. QED
    BY <1>1, <1>4, <2>1, <2>2 DEF InPlace
<1>5. ASSUME NEW c \in session.books, FillTarget(c), InPlace(save[c].fd, Source(c))
      PROVE  data'[book[b].map] = data[book[b].map]
  <2>1. c \in Books /\ save[c].step = "fill"
    BY <1>5, SessionFacts DEF Shape, Typed, FillTarget
  <2>2. c = b
    BY <1>3, <2>1 DEF Shape, InSteps, InStep
  <2>3. save[b].fd # book[b].map
    BY <2>1, <2>2 DEF SourceApart
  <2>4. QED
    BY <1>1, <1>5, <2>2, <2>3 DEF InPlace
<1>6. QED
  BY <1>2, <1>4, <1>5, DiskChanges

\* Other workbooks that save to the same files, and other programs that replace or remove
\* them, never change what an open workbook reads, unless some workbook other than it is
\* written unedited over a mapped file (_source_buffer.py: snapshot_file, maps_file).
THEOREM SourcesAreKept == Spec /\ NoTruncation => KeepsItsSource
<1>1. NoTruncation /\ [Next]_vars => NoTruncation'
  BY SessionStays DEF NoTruncation
<1>2. ASSUME Shape, SourceApart, NoTruncation, [Next]_vars, NEW b \in Books,
             IsOpen(b), book[b].map = book'[b].map, book[b].map # InMemory
      PROVE  Source(b)' = Source(b)
  BY <1>2, MapStays DEF Source
<1>3. Shape /\ SourceApart /\ NoTruncation /\ [Next]_vars =>
        [\A b \in Books :
           IsOpen(b) /\ IsOpen(b)' /\ book[b].map = book[b].map' /\ book[b].map # InMemory
             => Source(b)' = Source(b)]_vars
  BY <1>2
<1>4. QED
  BY <1>1, <1>3, AlwaysShape, AlwaysApart, PTL DEF Spec, KeepsItsSource

-----------------------------------------------------------------------------
(* The paths that saves write to. *)

LEMMA HistoryGrows == [Next]_vars => promised \subseteq promised' /\ loose \subseteq loose'
BY ZenonT(40) DEF Next, vars, history, Load, Edit, Close, BeginSave, Patch, CopySource, OpenTarget,
   FillTarget, TakeLayout, RewriteLayout, ReplayMerges, WriteProps, MapCopy, Publish, Fail,
   Crash, OtherReplaces, OtherRemoves

\* A save that does not go back to the loaded file gives its destination a new file.
Renamed(c) == /\ ~Idle(c) /\ ~save[c].home /\ Len(data') = Len(data) + 1
              /\ Names(save[c].dest, Len(data) + 1)

LEMMA NameChanges ==
  ASSUME Shape, [Next]_vars
  PROVE  \/ at' = at
         \/ \E c \in session.books : Renamed(c)
         \/ \E c \in session.books : Publish(c) /\ PublishFacts(c)
         \/ \E p \in Paths : OtherFacts(p)
<1>1. ASSUME NEW c \in session.books, Acts(c)
      PROVE  at' = at \/ Renamed(c) \/ (Publish(c) /\ PublishFacts(c))
  <2>1. CASE \/ \E p \in session.loads : Load(c, p)
             \/ \E kind \in session.kinds : Edit(c, kind)
             \/ Close(c)
             \/ \E d \in session.dests : BeginSave(c, d)
    BY <2>1, UserActionsAreQuiet DEF QuietFacts, files
  <2>2. CASE Patch(c)
    BY <2>2, PatchShape DEF PatchFacts, Patch, Renamed, Idle, Adds, files
  <2>3. CASE CopySource(c) \/ OpenTarget(c)
    <3>1. c \in Books /\ ~Idle(c) /\ book[c].mode = "read"
      BY <2>3, SessionFacts DEF Shape, Typed, CopySource, OpenTarget, Idle
    <3>2. ~save[c].home
      BY <3>1 DEF Shape, InSteps, InStep
    <3>3. QED
      BY <2>3, <3>1, <3>2, CopySourceShape, OpenTargetShape
         DEF CopyFacts, OpenFacts, Renamed, Adds
  <2>4. CASE TakeLayout(c) \/ FillTarget(c) \/ MapCopy(c) \/ Fail(c)
    BY <2>4, TakeLayoutShape, FillTargetShape, MapCopyShape, FailShape
       DEF TakeFacts, FillFacts, MapFacts, FailFacts, files
  <2>5. CASE RewriteLayout(c) \/ ReplayMerges(c) \/ WriteProps(c)
    <3>1. ~Idle(c)
      BY <2>5 DEF RewriteLayout, ReplayMerges, WriteProps, Idle
    <3>2. ASSUME NEW kinds, NEW cleared, RewriteFacts(c, kinds, cleared)
          PROVE  at' = at \/ Renamed(c)
      BY <3>1, <3>2 DEF RewriteFacts, Renamed, Adds, files
    <3>3. QED
      BY <2>5, <3>2, RewriteLayoutShape, ReplayMergesShape, WritePropsShape
         DEF StayFacts, files
  <2>6. CASE Publish(c)
    BY <2>6, PublishShape
  <2>7. QED
    BY <1>1, <2>1, <2>2, <2>3, <2>4, <2>5, <2>6 DEF Acts
<1>2. Crash => at' = at
  BY CrashShape DEF CrashFacts, files
<1>3. UNCHANGED vars => at' = at
  BY DEF vars
<1>4. QED
  BY <1>1, <1>2, <1>3, OtherShape, StepsOfTheSystem

\* Two paths never come to name one file, and none comes to name one that is being filled.
LEMMA LinksOnlyBreak ==
  ASSUME Shape, AllFresh, [Next]_vars
  PROVE  /\ \A p, q \in Paths : p # q /\ at'[p] = at'[q] /\ at'[p] # NoFile => at[p] = at[q]
         /\ \A p \in Paths, b \in Books :
              save[b].step = "fill" /\ at'[p] = save[b].fd => at[p] = save[b].fd
<1>1. /\ Len(data) \in Nat /\ \A p \in Paths : at[p] \in 0..Len(data)
      /\ \A b \in Books : save[b].step = "fill" => save[b].fd \in 1..Len(data)
  BY DEF Shape, Typed, Numbered, InSteps, InStep, NoFile
<1>2. CASE at' = at
  BY <1>2
<1>3. ASSUME NEW c \in session.books, Renamed(c)
      PROVE  /\ \A p, q \in Paths : p # q /\ at'[p] = at'[q] => at[p] = at[q]
             /\ \A p \in Paths, b \in Books :
                  save[b].step = "fill" /\ at'[p] = save[b].fd => at[p] = save[b].fd
  BY <1>1, <1>3 DEF Renamed, Names
<1>4. ASSUME NEW c \in session.books, Publish(c), PublishFacts(c)
      PROVE  /\ \A p, q \in Paths : p # q /\ at'[p] = at'[q] => at[p] = at[q]
             /\ \A p \in Paths, b \in Books :
                  save[b].step = "fill" /\ at'[p] = save[b].fd => at[p] = save[b].fd
  <2>1. c \in Books /\ save[c].step = "rename"
    BY <1>4, SessionFacts DEF Shape, Typed, Publish
  <2>2. /\ \A p \in Paths : at[p] # save[c].put
        /\ \A b \in Books : save[b].step = "fill" => save[b].fd # save[c].put
    BY <2>1 DEF AllFresh, Fresh
  <2>3. QED
    BY <1>4, <2>2 DEF PublishFacts, Names
<1>5. ASSUME NEW r \in Paths, OtherFacts(r)
      PROVE  /\ \A p, q \in Paths : p # q /\ at'[p] = at'[q] /\ at'[p] # NoFile => at[p] = at[q]
             /\ \A p \in Paths, b \in Books :
                  save[b].step = "fill" /\ at'[p] = save[b].fd => at[p] = save[b].fd
  <2>1. PICK n : Names(r, n) /\ (n = NoFile \/ n = Len(data) + 1)
    BY <1>5 DEF OtherFacts
  <2>2. QED
    BY <1>1, <2>1 DEF Names, NoFile
<1>6. QED
  BY <1>2, <1>3, <1>4, <1>5, NameChanges

\* How the save of a workbook may go on.
LEMMA SaveChanges ==
  ASSUME Shape, [Next]_vars, NEW x \in Books
  PROVE  \/ save'[x] = save[x]
         \/ x \in session.books /\ \E d \in session.dests : BeginSave(x, d)
         \/ x \in session.books /\ OpenTarget(x) /\ OpenFacts(x)
         \/ ~Idle(x) /\ SaveMoves(x)
         \/ save'[x].step = "idle"
<1>1. ASSUME NEW c \in session.books, Acts(c), c # x PROVE save'[x] = save[x]
  BY <1>1, LeavesOthersAlone
<1>2. ASSUME x \in session.books, Acts(x),
             ~\E d \in session.dests : BeginSave(x, d)
      PROVE  \/ save'[x] = save[x]
             \/ OpenTarget(x) /\ OpenFacts(x)
             \/ ~Idle(x) /\ SaveMoves(x)
             \/ save'[x].step = "idle"
  <2>1. CASE \/ \E p \in session.loads : Load(x, p)
             \/ \E kind \in session.kinds : Edit(x, kind)
             \/ Close(x)
    BY <2>1 DEF Load, Edit, Close
  <2>2. CASE Patch(x) \/ CopySource(x) \/ FillTarget(x) \/ TakeLayout(x) \/ RewriteLayout(x)
             \/ ReplayMerges(x) \/ WriteProps(x) \/ MapCopy(x) \/ Publish(x)
    <3>1. ~Idle(x)
      BY <2>2 DEF Patch, CopySource, FillTarget, TakeLayout, RewriteLayout, ReplayMerges,
         WriteProps, MapCopy, Publish, Idle
    <3>2. SaveMoves(x)
      BY <1>2, <2>2, PatchShape, CopySourceShape, FillTargetShape,
         TakeLayoutShape, RewriteLayoutShape, ReplayMergesShape, WritePropsShape,
         MapCopyShape, PublishShape
         DEF PatchFacts, CopyFacts, FillFacts, TakeFacts, RewriteFacts,
             StayFacts, MapFacts, PublishFacts
    <3>3. QED
      BY <3>1, <3>2
  <2>3. CASE OpenTarget(x)
    BY <1>2, <2>3, OpenTargetShape
  <2>4. CASE Fail(x)
    BY <1>2, <2>4, FailShape DEF FailFacts
  <2>5. QED
    BY <1>2, <2>1, <2>2, <2>3, <2>4 DEF Acts
<1>3. Crash => save'[x].step = "idle"
  BY CrashShape DEF CrashFacts
<1>4. ASSUME NEW p \in session.loads, OtherReplaces(p) \/ OtherRemoves(p)
      PROVE  save'[x] = save[x]
  BY <1>4, OtherShape DEF OtherFacts
<1>5. UNCHANGED vars => save'[x] = save[x]
  BY DEF vars
<1>6. QED
  BY <1>1, <1>2, <1>3, <1>4, <1>5, StepsOfTheSystem DEF Acts

\* What a save that does not go back to the loaded file writes is loose, and so is every
\* path that names the file it writes in place.
WritesLoose(b) ==
  ~Idle(b) /\ ~save[b].home =>
    /\ save[b].dest \in loose
    /\ save[b].step = "write" =>
         \A q \in Paths : at[q] = at[save[b].dest] /\ at[q] # NoFile => q \in loose
    /\ save[b].step = "fill" => \A q \in Paths : at[q] = save[b].fd => q \in loose

AllWriteLoose == \A b \in Books : WritesLoose(b)

\* What starting a save records.
BeginFacts(b, d) ==
  /\ save'[b].dest = d /\ save'[b].step = "write"
  /\ save'[b].home <=>
       /\ book[b].mode = "modify" \/ IsPending(b)
       /\ SamePath(d, book[b].origin) \/ MapsFile(b, d)
  /\ UNCHANGED files /\ Idle(b) /\ IsOpen(b)
  /\ ~save'[b].home => {p \in Paths : SamePath(p, d)} \subseteq loose'
  /\ promised' = promised \cup {book[b].shows}

LEMMA BeginSaveFacts ==
  ASSUME Shape, NEW b \in session.books, NEW d \in session.dests, BeginSave(b, d)
  PROVE  BeginFacts(b, d) /\ b \in Books /\ d \in Paths
<1>1. b \in Books /\ d \in Paths /\ save \in [Books -> SaveStates] /\ book[b] \in BookStates
  BY SessionFacts DEF Shape, Typed
<1> DEFINE promoted == book[b].mode = "read" /\ IsPending(b)
           patched == book[b].mode = "modify" \/ promoted
           home == patched /\ (SamePath(d, book[b].origin) \/ MapsFile(b, d))
<1>2. PICK h \in BOOLEAN : h <=> home
  OBVIOUS
<1>3. PICK n : n = save[b].count + 1
  OBVIOUS
<1>4. save' = [save EXCEPT ![b] = [NoSave EXCEPT !.step = "write", !.dest = d,
                                                 !.home = home, !.count = save[b].count + 1]]
  BY DEF BeginSave
<1>5. h = home
  BY <1>2
<1>6. save' = [save EXCEPT ![b] = [NoSave EXCEPT !.step = "write", !.dest = d,
                                                 !.home = h, !.count = n]]
  BY <1>3, <1>4, <1>5
<1>7. PICK s : s = [NoSave EXCEPT !.step = "write", !.dest = d, !.home = h, !.count = n]
  OBVIOUS
<1>8. s.step = "write" /\ s.dest = d /\ s.home = h
  BY <1>7 DEF NoSave
<1>9. save'[b] = s
  BY <1>1, <1>6, <1>7
<1>10. IsOpen(b) => (patched <=> (book[b].mode = "modify" \/ IsPending(b)))
  BY <1>1 DEF BookStates, IsOpen
<1>11. /\ UNCHANGED files /\ Idle(b) /\ IsOpen(b)
       /\ promised' = promised \cup {book[b].shows}
       /\ loose' = loose \cup (IF patched /\ d = book[b].origin THEN {}
                               ELSE {p \in Paths : SamePath(p, d)})
  BY DEF BeginSave
<1>12. ~home => {p \in Paths : SamePath(p, d)} \subseteq loose'
  BY <1>1, <1>11 DEF SamePath
<1>13. QED
  BY <1>1, <1>2, <1>8, <1>9, <1>10, <1>11, <1>12 DEF BeginFacts

LEMMA WritesLooseStep ==
  Shape /\ Shape' /\ AllFresh /\ AllWriteLoose /\ [Next]_vars => AllWriteLoose'
<1> SUFFICES ASSUME Shape, Shape', AllFresh, AllWriteLoose, [Next]_vars, NEW x \in Books
             PROVE  WritesLoose(x)'
  BY DEF AllWriteLoose
<1>1. WritesLoose(x) /\ loose \subseteq loose'
  BY HistoryGrows DEF AllWriteLoose
<1>2. /\ \A p, q \in Paths : p # q /\ at'[p] = at'[q] /\ at'[p] # NoFile => at[p] = at[q]
      /\ \A p \in Paths : save[x].step = "fill" /\ at'[p] = save[x].fd => at[p] = save[x].fd
  BY LinksOnlyBreak
<1>3. ~Idle(x) => save[x].dest \in Paths
  BY DEF Shape, InSteps, InStep
<1>4. ASSUME ~Idle(x), ~save[x].home, save[x].step = "write",
             NEW q \in Paths, at'[q] = at'[save[x].dest], at'[q] # NoFile
      PROVE  q \in loose
  <2>1. CASE q = save[x].dest
    BY <1>1, <1>4, <2>1 DEF WritesLoose
  <2>2. CASE q # save[x].dest
    <3>1. at[q] = at[save[x].dest]
      BY <1>2, <1>3, <1>4, <2>2
    <3>2. CASE at[q] # NoFile
      BY <1>1, <1>4, <3>1, <3>2 DEF WritesLoose
    <3>3. CASE at[q] = NoFile
      <4>1. at'[q] # at[q] /\ at'[save[x].dest] # at[save[x].dest]
        BY <1>4, <3>1, <3>3
      <4>2. ASSUME NEW r \in Paths, NEW n, Names(r, n) PROVE FALSE
        BY <1>3, <1>4, <2>2, <4>1, <4>2 DEF Names
      <4>3. ASSUME NEW c \in session.books, Renamed(c) \/ PublishFacts(c),
                   save[c].dest \in Paths
            PROVE  FALSE
        BY <4>2, <4>3 DEF Renamed, PublishFacts
      <4>4. ASSUME NEW c \in session.books, Renamed(c) \/ Publish(c)
            PROVE  save[c].dest \in Paths
        BY <4>4, SessionFacts DEF Shape, Typed, Renamed, Publish, Idle, InSteps, InStep
      <4>5. QED
        BY <4>1, <4>2, <4>3, <4>4, NameChanges DEF OtherFacts
    <3>4. QED
      BY <3>2, <3>3
  <2>3. QED
    BY <2>1, <2>2
<1>5. CASE save'[x] = save[x]
  BY <1>1, <1>2, <1>3, <1>4, <1>5 DEF WritesLoose, Idle
<1>6. ASSUME x \in session.books, NEW d \in session.dests, BeginSave(x, d)
      PROVE  WritesLoose(x)'
  <2>1. BeginFacts(x, d) /\ d \in Paths
    BY <1>6, BeginSaveFacts
  <2>2. ~save'[x].home => \A p \in Paths : SamePath(p, d) => p \in loose'
    BY <2>1 DEF BeginFacts
  <2>3. at' = at /\ save'[x].dest = d /\ save'[x].step = "write"
    BY <2>1 DEF BeginFacts, files
  <2>4. QED
    BY <2>1, <2>2, <2>3 DEF WritesLoose, SamePath
<1>7. CASE OpenTarget(x) /\ OpenFacts(x)
  <2>1. /\ save[x].step = "write" /\ ~Idle(x) /\ save'[x].step = "fill"
        /\ save'[x].home = save[x].home /\ save'[x].dest = save[x].dest
        /\ save'[x].fd = at'[save[x].dest]
    BY <1>7 DEF OpenTarget, OpenFacts, Idle
  <2>2. save'[x].fd # NoFile
    BY <2>1 DEF Shape, InSteps, InStep
  <2>3. QED
    BY <1>1, <1>4, <2>1, <2>2 DEF WritesLoose
<1>8. CASE ~Idle(x) /\ SaveMoves(x)
  <2>1. /\ save'[x].dest = save[x].dest /\ save'[x].home = save[x].home
        /\ save'[x].step # "fill" /\ save'[x].step # "write"
    <3>1. save[x].step \in Steps
      BY DEF Shape, Typed, SaveStates
    <3>2. After(x) # "fill" /\ After(x) # "write"
      BY <1>8, <3>1 DEF After, Idle, Steps
    <3>3. QED
      BY <1>8, <3>2 DEF SaveMoves
  <2>2. QED
    BY <1>1, <1>8, <2>1 DEF WritesLoose
<1>9. CASE save'[x].step = "idle"
  BY <1>9 DEF WritesLoose, Idle
<1>10. QED
  BY <1>5, <1>6, <1>7, <1>8, <1>9, SaveChanges

LEMMA AlwaysWritesLoose == Spec => []AllWriteLoose
<1>1. Init => AllWriteLoose
  BY DEF Init, AllWriteLoose, WritesLoose, Idle, NoSave
<1>2. Shape /\ Shape' /\ AllFresh /\ AllWriteLoose /\ [Next]_vars => AllWriteLoose'
  BY WritesLooseStep
<1>3. QED
  BY <1>1, <1>2, AlwaysShape, AlwaysFresh, PTL DEF Spec

-----------------------------------------------------------------------------
(* What the private copy, or the source, of a workbook lacks of what it shows. *)

\* Sessions that keep the edits whose flags a save clears: they are saved back to the one
\* path they are loaded from, and the layout is edited only if no step fails.
FlagsKept ==
  /\ session.kinds \cap {"layout", "props"} # {} =>
       \E p \in Paths : session.loads = {p} /\ session.dests = {p}
  /\ "layout" \in session.kinds => ~session.faults

\* The terms on which a save runs.
Terms(b) ==
  /\ book[b].dirty \subseteq session.kinds
  /\ save[b].step = "rewrite" => "layout" \in session.kinds
  /\ ~Idle(b) => /\ save[b].dest \in session.dests
                 /\ book[b].shows \in promised
                 /\ book[b].mode = "modify" /\ save[b].dest = book[b].origin => save[b].home
                 /\ book[b].mode = "read" => ~IsPending(b)

\* The edits still to be written: those marked, and the layout that was taken.
Owed(b) == book[b].dirty \cup (IF save[b].step = "rewrite" THEN {"layout"} ELSE {})

Lacks(b, c) == /\ c.base = book[b].shows.base
               /\ book[b].shows.edits = c.edits \cup ({b} \X Owed(b))

Owes(b) ==
  /\ book[b].mode = "modify" => Lacks(b, book[b].private)
  /\ book[b].mode = "read" => Source(b) # Torn /\ Lacks(b, Source(b))

\* What a save back has already written to the private copy.
Done(b) ==
  ~Idle(b) /\ save[b].home =>
    /\ save[b].step # "write" /\ "cells" \in book[b].dirty =>
         <<b, "cells">> \in book[b].private.edits
    /\ save[b].step \in {"rewrite", "merges", "props", "snapshot", "rename"} =>
         "layout" \notin book[b].dirty
    /\ save[b].step \in {"props", "snapshot", "rename"} /\ "merges" \in book[b].dirty =>
         <<b, "merges">> \in book[b].private.edits
    /\ save[b].step \in {"snapshot", "rename"} => "props" \notin book[b].dirty

Accounted(b) == Terms(b) /\ Owes(b) /\ Done(b)

LEMMA FlagsGoHome ==
  ASSUME Shape, FlagsKept, NEW b \in Books, Terms(b), ~Idle(b), book[b].mode = "modify",
         Owed(b) \cap {"layout", "props"} # {}
  PROVE  save[b].home
<1>1. session.kinds \cap {"layout", "props"} # {}
  BY DEF Terms, Owed
<1>2. PICK p \in Paths : session.loads = {p} /\ session.dests = {p}
  BY <1>1 DEF FlagsKept
<1>3. book[b].origin \in session.loads /\ save[b].dest \in session.dests
  BY DEF Terms, Shape, InSteps, InStep
<1>4. QED
  BY <1>2, <1>3 DEF Terms

LEMMA EditsMove ==
  ASSUME NEW b, NEW s, NEW e, NEW kinds, NEW o, NEW r,
         s = e \cup ({b} \X o), kinds \cup r = o
  PROVE  s = (e \cup ({b} \X kinds)) \cup ({b} \X r)
OBVIOUS

\* A step that leaves the workbook b and its save alone.
LEMMA AccountedKept ==
  ASSUME Shape, SourceApart, NoTruncation, [Next]_vars, NEW b \in Books, Accounted(b),
         save'[b] = save[b], book'[b] = book[b]
  PROVE  Accounted(b)'
<1>1. session' = session /\ promised \subseteq promised'
  BY SessionStays, HistoryGrows
<1>2. Terms(b)' /\ Done(b)'
  BY <1>1 DEF Accounted, Terms, Done, Idle, IsPending
<1>3. book[b].mode = "read" => Source(b)' = Source(b)
  BY MapStays DEF Source, IsOpen
<1>4. Owes(b)'
  BY <1>3 DEF Accounted, Owes, Lacks, Owed
<1>5. QED
  BY <1>2, <1>4 DEF Accounted

\* The terms of a save outlast its steps.
LEMMA TermsKept ==
  ASSUME Shape, NEW b \in Books, Terms(b), ~Idle(b), SaveMoves(b),
         BookMoves(b) \/ book' = book,
         session' = session, promised \subseteq promised',
         book'[b].dirty \subseteq book[b].dirty,
         After(b) = "rewrite" => "layout" \in book[b].dirty
  PROVE  Terms(b)'
<1>1. /\ book'[b].mode = book[b].mode /\ book'[b].origin = book[b].origin
      /\ book'[b].shows = book[b].shows
  BY DEF BookMoves
<1>2. IsPending(b)' => IsPending(b)
  BY DEF IsPending
<1>3. QED
  BY <1>1, <1>2 DEF Terms, SaveMoves, Idle

\* Which step follows, for the steps that change a package.
LEMMA AfterTheStep ==
  ASSUME NEW b
  PROVE  /\ save[b].step = "write" => After(b) = IF book[b].mode = "modify" THEN "layout"
                                                                           ELSE "merges"
         /\ save[b].step = "layout" =>
              After(b) = IF "layout" \in book[b].dirty THEN "rewrite" ELSE "merges"
         /\ save[b].step \in {"fill", "rewrite"} => After(b) = "merges"
         /\ save[b].step = "merges" => After(b) = "props"
         /\ save[b].step = "props" => After(b) = IF save[b].home THEN "snapshot" ELSE "idle"
         /\ save[b].step = "snapshot" => After(b) = "rename"
         /\ save[b].step = "rename" => After(b) = "idle"
BY DEF After

LEMMA ReplayMergesFacts ==
  ASSUME Shape, NEW b \in session.books, ReplayMerges(b)
  PROVE  \/ RewriteFacts(b, {"merges"}, {}) /\ "merges" \in book[b].dirty
         \/ /\ StayFacts(b)
            /\ "merges" \in book[b].dirty => /\ Target(b) # Torn
                                             /\ <<b, "merges">> \in Target(b).edits
<1>1. b \in Books /\ ~Idle(b) /\ {"merges"} \in SUBSET Kinds /\ {} \in SUBSET Kinds
  BY SessionFacts DEF Shape, Typed, ReplayMerges, Idle, Kinds
<1>2. \/ Rewrite(b, {"merges"}, {}) /\ "merges" \in book[b].dirty
      \/ /\ Proceed(b) /\ UNCHANGED <<files, book>>
         /\ "merges" \in book[b].dirty => /\ Target(b) # Torn
                                          /\ <<b, "merges">> \in Target(b).edits
  BY DEF ReplayMerges
<1>3. QED
  BY <1>1, <1>2, RewriteShape, StayShape DEF ReplayMerges

LEMMA WritePropsFacts ==
  ASSUME Shape, NEW b \in session.books, WriteProps(b)
  PROVE  \/ RewriteFacts(b, {"props"}, {"props"}) /\ "props" \in book[b].dirty
         \/ StayFacts(b) /\ ("props" \in book[b].dirty => Target(b) = Torn)
<1>1. b \in Books /\ ~Idle(b) /\ {"props"} \in SUBSET Kinds
  BY SessionFacts DEF Shape, Typed, WriteProps, Idle, Kinds
<1>2. \/ Rewrite(b, {"props"}, {"props"}) /\ "props" \in book[b].dirty
      \/ /\ Proceed(b) /\ UNCHANGED <<files, book>>
         /\ "props" \in book[b].dirty => Target(b) = Torn
  BY DEF WriteProps
<1>3. QED
  BY <1>1, <1>2, RewriteShape, StayShape DEF WriteProps

\* What a private copy lacks after edits were written to it.
LEMMA LacksLess ==
  ASSUME Shape, NEW b \in Books, NEW kinds \in SUBSET Kinds, NEW c \in Package,
         Lacks(b, c), book'[b].shows = book[b].shows, kinds \cup Owed(b)' = Owed(b)
  PROVE  Lacks(b, With(c, b, kinds))'
<1>1. /\ With(c, b, kinds).base = c.base
      /\ With(c, b, kinds).edits = c.edits \cup ({b} \X kinds)
  BY WithIsAPackage
<1>2. book[b].shows.edits = (c.edits \cup ({b} \X kinds)) \cup ({b} \X Owed(b)')
  BY EditsMove DEF Lacks
<1>3. QED
  BY <1>1, <1>2 DEF Lacks

LEMMA LacksTheSame ==
  ASSUME NEW b, NEW c, Lacks(b, c), book'[b].shows = book[b].shows, Owed(b)' = Owed(b)
  PROVE  Lacks(b, c)'
BY DEF Lacks

LEMMA LoadAccounted ==
  ASSUME Shape, NEW b \in session.books, NEW p \in session.loads, Load(b, p)
  PROVE  Accounted(b)'
<1>1. b \in Books /\ p \in Paths /\ book \in [Books -> BookStates]
  BY SessionFacts DEF Shape, Typed
<1>2. at[p] \in 1..Len(data) /\ data[at[p]] \in Package /\ data[at[p]] # Torn
  <2>1. ContentAt(p) # Torn
    BY DEF Load
  <2>2. QED
    BY <1>1, <2>1, ContentsTyped DEF Shape
<1>3. PICK mode \in session.modes, mapped \in session.mapped :
        book' = [book EXCEPT ![b] =
          [mode |-> mode, origin |-> p,
           map |-> IF mapped THEN at[p] ELSE InMemory,
           bytes |-> IF mapped THEN Nothing ELSE data[at[p]],
           private |-> IF mode = "modify" THEN data[at[p]] ELSE Nothing,
           dirty |-> {}, shows |-> data[at[p]]]]
  BY DEF Load
<1>4. /\ book'[b].dirty = {} /\ book'[b].shows = data[at[p]]
      /\ book'[b].mode = "modify" => book'[b].private = data[at[p]]
      /\ book'[b].map = at[p] \/ (book'[b].map = InMemory /\ book'[b].bytes = data[at[p]])
  BY <1>1, <1>3
<1>5. save' = save /\ data' = data /\ save[b].step = "idle" /\ session' = session
  BY <1>1 DEF Load, files, Shape, InSteps, InStep, Idle
<1>6. Source(b)' = data[at[p]]
  BY <1>2, <1>4, <1>5 DEF Source, InMemory
<1>7. Owed(b)' = {}
  BY <1>4, <1>5 DEF Owed
<1>8. Lacks(b, data[at[p]])'
  <2>1. ASSUME NEW c, c = data[at[p]], book'[b].shows = c PROVE Lacks(b, c)'
    BY <1>7, <2>1 DEF Lacks
  <2>2. data'[at'[p]] = data[at[p]] /\ book'[b].shows = data[at[p]]
    BY <1>4, <1>5 DEF Load, files
  <2>3. QED
    BY <2>1, <2>2 DEF Lacks
<1>9. Terms(b)' /\ Done(b)'
  BY <1>4, <1>5 DEF Terms, Done, Idle
<1>10. QED
  BY <1>2, <1>4, <1>5, <1>6, <1>8, <1>9 DEF Accounted, Owes, Lacks, Load, files

LEMMA EditAccounted ==
  ASSUME Shape, NEW b \in session.books, NEW kind \in session.kinds, Edit(b, kind),
         Accounted(b)
  PROVE  Accounted(b)'
<1>1. /\ b \in Books /\ book \in [Books -> BookStates] /\ book[b] \in BookStates
      /\ save' = save /\ data' = data /\ save[b].step = "idle" /\ session' = session
  BY SessionFacts DEF Shape, Typed, Edit, files, Idle
<1> DEFINE sh == [book[b].shows EXCEPT !.edits = @ \cup {<<b, kind>>}]
           ds == book[b].dirty \cup {kind}
<1>2. PICK r : r = [book[b] EXCEPT !.dirty = ds, !.shows = sh]
  OBVIOUS
<1>3. book' = [book EXCEPT ![b] = r]
  BY <1>1, <1>2 DEF Edit, BookStates, Package
<1>4. /\ book'[b].dirty = book[b].dirty \cup {kind}
      /\ book'[b].shows = [book[b].shows EXCEPT !.edits = @ \cup {<<b, kind>>}]
      /\ book'[b].mode = book[b].mode /\ book'[b].private = book[b].private
      /\ book'[b].map = book[b].map /\ book'[b].bytes = book[b].bytes
  <2>1. PICK s, t : s = sh /\ t = ds
    OBVIOUS
  <2>2. r = [book[b] EXCEPT !.dirty = t, !.shows = s]
    BY <1>2, <2>1
  <2>3. /\ r.dirty = t /\ r.shows = s /\ r.mode = book[b].mode
        /\ r.private = book[b].private /\ r.map = book[b].map /\ r.bytes = book[b].bytes
    BY <1>1, <2>2 DEF BookStates
  <2>4. book'[b] = r
    BY <1>1, <1>3
  <2>5. QED
    BY <2>1, <2>3, <2>4
<1>5. /\ book'[b].shows.base = book[b].shows.base
      /\ book'[b].shows.edits = book[b].shows.edits \cup {<<b, kind>>}
  BY <1>1, <1>4 DEF BookStates, Package
<1>6. Source(b)' = Source(b)
  BY <1>1, <1>4 DEF Source
<1>7. Owed(b)' = Owed(b) \cup {kind}
  BY <1>1, <1>4 DEF Owed
<1>8. ASSUME NEW c, Lacks(b, c)
      PROVE  /\ c.base = book'[b].shows.base
             /\ book'[b].shows.edits = c.edits \cup ({b} \X Owed(b)')
  <2>1. ASSUME NEW o PROVE ({b} \X o) \cup {<<b, kind>>} = {b} \X (o \cup {kind})
    OBVIOUS
  <2>2. book'[b].shows.edits = c.edits \cup (({b} \X Owed(b)) \cup {<<b, kind>>})
    BY <1>5, <1>8 DEF Lacks
  <2>3. QED
    BY <1>5, <1>7, <1>8, <2>1, <2>2 DEF Lacks
<1>9. Terms(b)' /\ Done(b)'
  BY <1>1, <1>4 DEF Accounted, Terms, Done, Idle
<1>10. Owes(b)'
  BY <1>4, <1>6, <1>8 DEF Accounted, Owes, Lacks
<1>11. QED
  BY <1>9, <1>10 DEF Accounted

LEMMA CloseAccounted ==
  ASSUME Shape, NEW b \in session.books, Close(b)
  PROVE  Accounted(b)'
<1>1. /\ b \in Books /\ book \in [Books -> BookStates]
      /\ save' = save /\ save[b].step = "idle"
  BY SessionFacts DEF Shape, Typed, Close, Idle
<1>2. book'[b].mode = "closed" /\ book'[b].dirty = {}
  BY <1>1 DEF Close, Closed
<1>3. QED
  BY <1>1, <1>2 DEF Accounted, Terms, Done, Owes, Idle

LEMMA BeginSaveAccounted ==
  ASSUME Shape, NEW b \in session.books, NEW d \in session.dests, BeginSave(b, d),
         Accounted(b)
  PROVE  Accounted(b)'
<1>1. /\ b \in Books /\ book \in [Books -> BookStates] /\ book[b] \in BookStates
      /\ data' = data /\ session' = session /\ BeginFacts(b, d) /\ d \in Paths
  BY SessionFacts, BeginSaveFacts DEF Shape, Typed, BeginSave, files
<1> DEFINE promoted == book[b].mode = "read" /\ IsPending(b)
<1>2. book' = IF promoted
              THEN [book EXCEPT ![b].mode = "modify", ![b].private = Source(b)]
              ELSE book
  BY DEF BeginSave
<1>3. /\ book'[b].dirty = book[b].dirty /\ book'[b].shows = book[b].shows
      /\ book'[b].origin = book[b].origin
      /\ book'[b].map = book[b].map /\ book'[b].bytes = book[b].bytes
      /\ promoted => book'[b].mode = "modify" /\ book'[b].private = Source(b)
      /\ ~promoted => book'[b].mode = book[b].mode /\ book'[b].private = book[b].private
  <2>1. CASE promoted
    <3>1. PICK r : r = [book[b] EXCEPT !.mode = "modify", !.private = Source(b)]
      OBVIOUS
    <3>2. book' = [book EXCEPT ![b] = r]
      BY <1>1, <1>2, <2>1, <3>1 DEF BookStates
    <3> HIDE DEF promoted
    <3>3. QED
      BY <1>1, <2>1, <3>1, <3>2 DEF BookStates
  <2>2. CASE ~promoted
    BY <1>2, <2>2
  <2>3. QED
    BY <2>1, <2>2
<1>4. Source(b)' = Source(b)
  BY <1>1, <1>3 DEF Source
<1>5. /\ save'[b].step = "write" /\ save'[b].dest = d /\ Idle(b) /\ IsOpen(b)
      /\ promised' = promised \cup {book[b].shows}
      /\ (book[b].mode = "modify" \/ IsPending(b)) /\ d = book[b].origin => save'[b].home
  BY <1>1 DEF BeginFacts, SamePath
<1>6. Owed(b)' = Owed(b) /\ (IsPending(b)' <=> IsPending(b))
  BY <1>3, <1>5 DEF Owed, Idle, IsPending
<1>7. Terms(b)'
  <2>1. book'[b].mode = "modify" => book[b].mode = "modify" \/ IsPending(b)
    BY <1>3
  <2>2. book'[b].mode = "read" => ~IsPending(b)
    BY <1>1, <1>3
  <2>3. QED
    BY <1>1, <1>3, <1>5, <1>6, <2>1, <2>2 DEF Accounted, Terms, Idle
<1>8. Done(b)'
  BY <1>5 DEF Done
<1>9. Owes(b)'
  <2>1. CASE promoted
    BY <1>3, <1>6, <2>1 DEF Accounted, Owes, Lacks
  <2>2. CASE ~promoted
    BY <1>3, <1>4, <1>6, <2>2 DEF Accounted, Owes, Lacks
  <2>3. QED
    BY <2>1, <2>2
<1>10. QED
  BY <1>7, <1>8, <1>9 DEF Accounted

\* The step of a save keeps the account of a workbook that is patched, if it writes what
\* it takes off the edits owed.
LEMMA PatchedAccounted ==
  ASSUME Shape, NEW b \in Books, Terms(b)', book[b].mode = "modify",
         book'[b].mode = "modify", book'[b].shows = book[b].shows, Owes(b),
         \/ book'[b].private = book[b].private /\ Owed(b)' = Owed(b)
         \/ \E kinds \in SUBSET Kinds :
              /\ book'[b].private = With(book[b].private, b, kinds)
              /\ kinds \cup Owed(b)' = Owed(b)
  PROVE  Owes(b)'
<1>1. PICK c : c = book[b].private
  OBVIOUS
<1>2. c \in Package /\ Lacks(b, c)
  BY <1>1 DEF Shape, Typed, BookStates, Owes
<1>3. CASE book'[b].private = c /\ Owed(b)' = Owed(b)
  BY <1>2, <1>3 DEF Owes, Lacks
<1>4. ASSUME NEW kinds \in SUBSET Kinds, book'[b].private = With(c, b, kinds),
             kinds \cup Owed(b)' = Owed(b)
      PROVE  Owes(b)'
  <2>1. Lacks(b, With(c, b, kinds))'
    BY <1>2, <1>4, LacksLess
  <2>2. QED
    BY <1>4, <2>1 DEF Owes, Lacks
<1>5. QED
  BY <1>1, <1>3, <1>4

\* A read workbook is kept on account as long as its source is.
LEMMA ReadAccounted ==
  ASSUME Shape, SourceApart, NoTruncation, [Next]_vars, NEW b \in Books, Owes(b),
         book[b].mode = "read", book'[b].mode = "read", book'[b].shows = book[b].shows,
         book'[b].map = book[b].map, book'[b].bytes = book[b].bytes, Owed(b)' = Owed(b)
  PROVE  Owes(b)'
<1>1. Source(b)' = Source(b)
  BY MapStays DEF Source, IsOpen
<1>2. QED
  BY <1>1 DEF Owes, Lacks

LEMMA PatchAccounted ==
  ASSUME Shape, Shape', NEW b \in session.books, Patch(b), Accounted(b), [Next]_vars
  PROVE  Accounted(b)'
<1>1. /\ b \in Books /\ PatchFacts(b) /\ session' = session /\ ~Idle(b)
      /\ save[b].step = "write" /\ book[b].mode = "modify" /\ promised' = promised
      /\ Terms(b) /\ Owes(b) /\ book[b].private \in Package
  BY PatchShape DEF Patch, Idle, Accounted, history, Shape, Typed, BookStates
<1>2. /\ book'[b].dirty = book[b].dirty /\ book'[b].shows = book[b].shows
      /\ book'[b].mode = "modify" /\ save'[b].step = "layout" /\ save'[b].home = save[b].home
      /\ SaveMoves(b) /\ BookMoves(b) /\ After(b) = "layout"
  BY <1>1, AfterTheStep DEF PatchFacts, SaveMoves, BookMoves
<1>3. Terms(b)'
  BY <1>1, <1>2, TermsKept
<1>4. Owed(b)' = Owed(b) /\ Owed(b) = book[b].dirty
  BY <1>1, <1>2 DEF Owed
<1> DEFINE cells == book[b].dirty \cap {"cells"}
<1>5. cells \in SUBSET Kinds /\ cells \cup Owed(b)' = Owed(b)
  BY <1>4 DEF Kinds
<1>6. \/ save[b].home /\ book'[b].private = With(book[b].private, b, cells)
      \/ ~save[b].home /\ book'[b].private = book[b].private
  BY <1>1 DEF PatchFacts, Patched
<1>7. Owes(b)'
  BY <1>1, <1>2, <1>3, <1>4, <1>5, <1>6, PatchedAccounted
<1>8. Done(b)'
  <2>1. ASSUME save[b].home, "cells" \in book[b].dirty
        PROVE  <<b, "cells">> \in book'[b].private.edits
    <3>1. book'[b].private.edits = book[b].private.edits \cup ({b} \X cells)
      BY <1>1, <1>5, <1>6, <2>1, WithIsAPackage
    <3>2. QED
      BY <2>1, <3>1
  <2>2. QED
    BY <1>2, <2>1 DEF Done
<1>9. QED
  BY <1>3, <1>7, <1>8 DEF Accounted

LEMMA CopySourceAccounted ==
  ASSUME Shape, Shape', SourceApart, NoTruncation, NEW b \in session.books,
         CopySource(b) \/ FillTarget(b), Accounted(b), [Next]_vars
  PROVE  Accounted(b)'
<1>1. /\ b \in Books /\ SaveMoves(b) /\ book' = book /\ session' = session /\ ~Idle(b)
      /\ save[b].step \in {"write", "fill"} /\ book[b].mode = "read" /\ promised' = promised
      /\ Terms(b) /\ Owes(b)
  BY CopySourceShape, FillTargetShape
     DEF CopySource, FillTarget, Idle, Accounted, history, CopyFacts, FillFacts,
         Shape, InSteps, InStep
<1>2. After(b) = "merges" /\ ~save'[b].home /\ save'[b].step = "merges"
  BY <1>1, AfterTheStep DEF SaveMoves, Shape, InSteps, InStep
<1>3. Terms(b)'
  BY <1>1, <1>2, TermsKept
<1>4. Owed(b)' = Owed(b)
  BY <1>1, <1>2 DEF Owed
<1>5. Owes(b)'
  BY <1>1, <1>4, ReadAccounted
<1>6. Done(b)'
  BY <1>2 DEF Done
<1>7. QED
  BY <1>3, <1>5, <1>6 DEF Accounted

LEMMA OpenTargetAccounted ==
  ASSUME Shape, Shape', SourceApart, NoTruncation, NEW b \in session.books,
         OpenTarget(b), Accounted(b), [Next]_vars
  PROVE  Accounted(b)'
<1>1. /\ b \in Books /\ OpenFacts(b) /\ book' = book /\ session' = session /\ ~Idle(b)
      /\ save[b].step = "write" /\ book[b].mode = "read" /\ promised' = promised
      /\ Terms(b) /\ Owes(b)
  BY OpenTargetShape DEF OpenTarget, Idle, Accounted, history
<1>2. save'[b].step = "fill" /\ save'[b].dest = save[b].dest /\ ~save'[b].home
  BY <1>1 DEF OpenFacts, Shape, InSteps, InStep
<1>3. Terms(b)'
  BY <1>1, <1>2 DEF Terms, IsPending, Idle
<1>4. Owed(b)' = Owed(b)
  BY <1>1, <1>2 DEF Owed
<1>5. Owes(b)'
  BY <1>1, <1>4, ReadAccounted
<1>6. Done(b)'
  BY <1>2 DEF Done
<1>7. QED
  BY <1>3, <1>5, <1>6 DEF Accounted

LEMMA TakeLayoutAccounted ==
  ASSUME Shape, Shape', NEW b \in session.books, TakeLayout(b), Accounted(b), [Next]_vars
  PROVE  Accounted(b)'
<1>1. /\ b \in Books /\ TakeFacts(b) /\ session' = session /\ ~Idle(b)
      /\ save[b].step = "layout" /\ book[b].mode = "modify" /\ promised' = promised
      /\ Terms(b) /\ Owes(b) /\ Done(b)
  BY TakeLayoutShape DEF TakeLayout, Idle, Accounted, history, Shape, InSteps, InStep
<1>2. /\ book'[b].dirty = book[b].dirty \ {"layout"} /\ book'[b].shows = book[b].shows
      /\ book'[b].mode = "modify" /\ save'[b].home = save[b].home
      /\ book'[b].private = book[b].private /\ save'[b].step = After(b)
      /\ SaveMoves(b) /\ BookMoves(b)
      /\ After(b) = IF "layout" \in book[b].dirty THEN "rewrite" ELSE "merges"
  BY <1>1, AfterTheStep DEF TakeFacts, SaveMoves, BookMoves
<1>3. Terms(b)'
  BY <1>1, <1>2, TermsKept
<1>4. Owed(b)' = Owed(b)
  BY <1>1, <1>2 DEF Owed
<1>5. Owes(b)'
  BY <1>1, <1>2, <1>3, <1>4, PatchedAccounted
<1>6. Done(b)'
  BY <1>1, <1>2 DEF Done
<1>7. QED
  BY <1>3, <1>5, <1>6 DEF Accounted

LEMMA RewriteLayoutAccounted ==
  ASSUME Shape, Shape', FlagsKept, NEW b \in session.books, RewriteLayout(b), Accounted(b),
         [Next]_vars
  PROVE  Accounted(b)'
<1>1. /\ b \in Books /\ RewriteFacts(b, {"layout"}, {}) /\ session' = session /\ ~Idle(b)
      /\ save[b].step = "rewrite" /\ book[b].mode = "modify" /\ promised' = promised
      /\ Terms(b) /\ Owes(b) /\ Done(b)
  BY RewriteLayoutShape DEF RewriteLayout, Idle, Accounted, history, Shape, InSteps, InStep
<1>2. save[b].home
  BY <1>1, FlagsGoHome DEF Owed
<1>3. /\ book'[b].dirty = book[b].dirty /\ book'[b].shows = book[b].shows
      /\ book'[b].mode = "modify" /\ save'[b].home = save[b].home
      /\ book'[b].private = With(book[b].private, b, {"layout"})
      /\ SaveMoves(b) /\ BookMoves(b) /\ After(b) = "merges" /\ save'[b].step = "merges"
  BY <1>1, <1>2, AfterTheStep DEF RewriteFacts, SaveMoves, BookMoves, Target
<1>4. Terms(b)'
  BY <1>1, <1>3, TermsKept
<1>5. {"layout"} \in SUBSET Kinds /\ {"layout"} \cup Owed(b)' = Owed(b)
  BY <1>1, <1>3 DEF Owed, Kinds
<1>6. Owes(b)'
  BY <1>1, <1>3, <1>4, <1>5, PatchedAccounted
<1>7. Done(b)'
  <2>1. book[b].private \in Package
    BY <1>1 DEF Shape, Typed, BookStates
  <2>2. book'[b].private.edits = book[b].private.edits \cup ({b} \X {"layout"})
    BY <1>1, <1>3, <1>5, <2>1, WithIsAPackage
  <2>3. QED
    BY <1>1, <1>2, <1>3, <2>2 DEF Done
<1>8. QED
  BY <1>4, <1>6, <1>7 DEF Accounted

LEMMA ReplayMergesAccounted ==
  ASSUME Shape, Shape', SourceApart, NoTruncation, NEW b \in session.books,
         ReplayMerges(b), Accounted(b), [Next]_vars
  PROVE  Accounted(b)'
<1>1. /\ b \in Books /\ session' = session /\ ~Idle(b) /\ save[b].step = "merges"
      /\ promised' = promised /\ IsOpen(b)
      /\ Terms(b) /\ Owes(b) /\ Done(b)
  BY SessionFacts
     DEF ReplayMerges, Idle, Accounted, history, Shape, Typed, InSteps, InStep
<1>2. /\ RewriteFacts(b, {"merges"}, {}) \/ StayFacts(b)
      /\ SaveMoves(b) /\ (BookMoves(b) \/ book' = book)
      /\ save[b].home => book[b].mode = "modify"
      /\ book[b].private \in Package
  BY <1>1, ReplayMergesShape
     DEF RewriteFacts, StayFacts, Shape, Typed, BookStates, InSteps, InStep
<1>3. /\ book'[b].dirty = book[b].dirty /\ book'[b].shows = book[b].shows
      /\ book'[b].mode = book[b].mode /\ save'[b].home = save[b].home
      /\ book'[b].map = book[b].map /\ book'[b].bytes = book[b].bytes
      /\ After(b) = "props" /\ save'[b].step = "props"
  BY <1>1, <1>2, AfterTheStep DEF RewriteFacts, StayFacts, SaveMoves, BookMoves, SameSource
<1>4. Terms(b)'
  BY <1>1, <1>2, <1>3, TermsKept
<1>5. Owed(b)' = Owed(b) /\ Owed(b) = book[b].dirty
  BY <1>1, <1>3 DEF Owed
<1>6. \/ book'[b].private = book[b].private
      \/ /\ save[b].home /\ "merges" \in book[b].dirty
         /\ book'[b].private = With(book[b].private, b, {"merges"})
  BY <1>2, ReplayMergesFacts DEF RewriteFacts, StayFacts, Target
<1>7. {"merges"} \in SUBSET Kinds
  BY DEF Kinds
<1>8. Owes(b)'
  <2>1. CASE book[b].mode = "modify"
    <3>1. CASE book'[b].private = book[b].private
      BY <1>1, <1>3, <1>4, <1>5, <2>1, <3>1, PatchedAccounted
    <3>2. CASE "merges" \in book[b].dirty
               /\ book'[b].private = With(book[b].private, b, {"merges"})
      <4>1. {"merges"} \cup Owed(b)' = Owed(b)
        BY <1>5, <3>2
      <4>2. QED
        BY <1>1, <1>3, <1>4, <1>7, <2>1, <3>2, <4>1, PatchedAccounted
    <3>3. QED
      BY <1>6, <3>1, <3>2
  <2>2. CASE book[b].mode = "read"
    BY <1>1, <1>3, <1>5, <2>2, ReadAccounted
  <2>3. QED
    BY <1>1, <2>1, <2>2 DEF IsOpen, Shape, Typed, BookStates
<1>9. Done(b)'
  <2>1. ASSUME save[b].home, "merges" \in book[b].dirty
        PROVE  <<b, "merges">> \in book'[b].private.edits
    <3>1. CASE book'[b].private = With(book[b].private, b, {"merges"})
      BY <1>1, <1>2, <1>7, <3>1, WithIsAPackage
    <3>2. CASE RewriteFacts(b, {"merges"}, {})
      BY <2>1, <3>1, <3>2 DEF RewriteFacts, Target
    <3>3. CASE StayFacts(b) /\ <<b, "merges">> \in Target(b).edits
      BY <2>1, <3>3 DEF StayFacts, Target
    <3>4. QED
      BY <2>1, <3>2, <3>3, ReplayMergesFacts
  <2>2. ASSUME save[b].home, "cells" \in book[b].dirty
        PROVE  <<b, "cells">> \in book'[b].private.edits
    <3>1. <<b, "cells">> \in book[b].private.edits
      BY <1>1, <2>2 DEF Done
    <3>2. QED
      BY <1>1, <1>2, <1>6, <1>7, <3>1, WithIsAPackage
  <2>3. QED
    BY <1>1, <1>3, <2>1, <2>2 DEF Done
<1>10. QED
  BY <1>4, <1>8, <1>9 DEF Accounted

LEMMA WritePropsAccounted ==
  ASSUME Shape, Shape', SourceApart, NoTruncation, FlagsKept, NEW b \in session.books,
         WriteProps(b), Accounted(b), [Next]_vars
  PROVE  Accounted(b)'
<1>1. /\ b \in Books /\ session' = session /\ ~Idle(b) /\ save[b].step = "props"
      /\ promised' = promised /\ IsOpen(b)
      /\ Terms(b) /\ Owes(b) /\ Done(b)
  BY SessionFacts
     DEF WriteProps, Idle, Accounted, history, Shape, Typed, InSteps, InStep
<1>2. /\ save[b].home => book[b].mode = "modify"
      /\ book[b].private \in Package /\ book[b].mode \in {"read", "modify"}
      /\ "props" \in book[b].dirty => save[b].home
  <2>1. book[b].mode \in {"read", "modify"} /\ book[b].private \in Package
    BY <1>1 DEF Shape, Typed, BookStates, IsOpen
  <2>2. "props" \in book[b].dirty => book[b].mode = "modify"
    BY <1>1, <2>1 DEF Terms, IsPending
  <2>3. QED
    BY <1>1, <2>1, <2>2, FlagsGoHome DEF Owed, Shape, InSteps, InStep
<1>3. \/ /\ RewriteFacts(b, {"props"}, {"props"}) /\ "props" \in book[b].dirty
         /\ save[b].home
      \/ StayFacts(b) /\ "props" \notin book[b].dirty
  <2>1. Torn \notin Package
    BY FilesAssumption
  <2>2. QED
    BY <1>2, <2>1, WritePropsFacts DEF Target
<1>4. /\ SaveMoves(b) /\ (BookMoves(b) \/ book' = book)
      /\ book'[b].dirty = book[b].dirty \ {"props"} /\ book'[b].shows = book[b].shows
      /\ book'[b].mode = book[b].mode /\ save'[b].home = save[b].home
      /\ book'[b].map = book[b].map /\ book'[b].bytes = book[b].bytes
      /\ save'[b].step = After(b) /\ After(b) \in {"snapshot", "idle"}
      /\ After(b) # "idle" => save[b].home
  BY <1>1, <1>3, AfterTheStep DEF RewriteFacts, StayFacts, SaveMoves, BookMoves, SameSource
<1>5. Terms(b)'
  BY <1>1, <1>4, TermsKept
<1>6. Owed(b) = book[b].dirty /\ Owed(b)' = book[b].dirty \ {"props"}
  BY <1>1, <1>4 DEF Owed
<1>7. {"props"} \in SUBSET Kinds
  BY DEF Kinds
<1>8. CASE RewriteFacts(b, {"props"}, {"props"}) /\ "props" \in book[b].dirty /\ save[b].home
  <2>1. book'[b].private = With(book[b].private, b, {"props"})
    BY <1>8 DEF RewriteFacts, Target
  <2>2. {"props"} \cup Owed(b)' = Owed(b)
    BY <1>6, <1>8
  <2>3. Owes(b)'
    BY <1>1, <1>2, <1>4, <1>5, <1>7, <1>8, <2>1, <2>2, PatchedAccounted
  <2>4. book'[b].private.edits = book[b].private.edits \cup ({b} \X {"props"})
    BY <1>1, <1>2, <1>7, <2>1, WithIsAPackage
  <2>5. Done(b)'
    BY <1>1, <1>4, <1>8, <2>4 DEF Done, Idle
  <2>6. QED
    BY <1>5, <2>3, <2>5 DEF Accounted
<1>9. CASE StayFacts(b) /\ "props" \notin book[b].dirty
  <2>1. Owed(b)' = Owed(b) /\ book'[b].private = book[b].private
        /\ book'[b].dirty = book[b].dirty
    BY <1>6, <1>9 DEF StayFacts
  <2>2. Owes(b)'
    <3>1. CASE book[b].mode = "modify"
      BY <1>1, <1>4, <1>5, <2>1, <3>1, PatchedAccounted
    <3>2. CASE book[b].mode = "read"
      BY <1>1, <1>4, <2>1, <3>2, ReadAccounted
    <3>3. QED
      BY <1>2, <3>1, <3>2
  <2>3. Done(b)'
    BY <1>1, <1>4, <1>9, <2>1 DEF Done, Idle
  <2>4. QED
    BY <1>5, <2>2, <2>3 DEF Accounted
<1>10. QED
  BY <1>3, <1>8, <1>9

LEMMA MapCopyAccounted ==
  ASSUME Shape, Shape', NEW b \in session.books, MapCopy(b) \/ Publish(b), Accounted(b),
         [Next]_vars
  PROVE  Accounted(b)'
<1>1. /\ b \in Books /\ session' = session /\ ~Idle(b)
      /\ save[b].step \in {"snapshot", "rename"} /\ promised' = promised
      /\ save[b].home /\ book[b].mode = "modify"
      /\ Terms(b) /\ Owes(b) /\ Done(b)
  BY MapCopyShape, PublishShape
     DEF MapCopy, Publish, Idle, Accounted, history, Shape, InSteps, InStep
<1>2. /\ SaveMoves(b) /\ (BookMoves(b) \/ book' = book)
      /\ book'[b].private = book[b].private /\ book'[b].dirty = book[b].dirty
  BY MapCopyShape, PublishShape DEF MapFacts, PublishFacts
<1>3. /\ book'[b].shows = book[b].shows /\ book'[b].mode = "modify"
      /\ save'[b].home = save[b].home /\ save'[b].step = After(b)
      /\ After(b) \in {"rename", "idle"}
  BY <1>1, <1>2, AfterTheStep DEF SaveMoves, BookMoves
<1>4. Terms(b)'
  BY <1>1, <1>2, <1>3, TermsKept
<1>5. Owed(b)' = Owed(b)
  BY <1>1, <1>2, <1>3 DEF Owed
<1>6. Owes(b)'
  BY <1>1, <1>2, <1>3, <1>4, <1>5, PatchedAccounted
<1>7. Done(b)'
  BY <1>1, <1>2, <1>3 DEF Done, Idle
<1>8. QED
  BY <1>4, <1>6, <1>7 DEF Accounted

LEMMA FailAccounted ==
  ASSUME Shape, Shape', SourceApart, NoTruncation, FlagsKept, NEW b \in session.books,
         Fail(b), Accounted(b), [Next]_vars
  PROVE  Accounted(b)'
<1>1. /\ b \in Books /\ FailFacts(b) /\ session' = session /\ ~Idle(b)
      /\ Terms(b) /\ Owes(b) /\ IsOpen(b) /\ book' = book /\ save'[b].step = "idle"
      /\ book[b] \in BookStates
  BY FailShape DEF Fail, FailFacts, Accounted, Shape, Typed, InSteps, InStep
<1>2. save[b].step # "rewrite"
  <2> SUFFICES ASSUME save[b].step = "rewrite" PROVE FALSE
    OBVIOUS
  <2>1. ~session.faults /\ book[b].mode = "modify" /\ "layout" \in session.kinds
    BY <1>1 DEF Terms, FlagsKept, Shape, InSteps, InStep
  <2>2. save[b].home
    BY <1>1, <2>1, FlagsGoHome DEF Owed
  <2>3. Target(b) # Torn
    BY <1>1, <2>2, FilesAssumption DEF Target, BookStates
  <2>4. QED
    BY <2>1, <2>3 DEF Fail
<1>3. Terms(b)' /\ Done(b)'
  BY <1>1 DEF Terms, Done, Idle
<1>4. Owed(b)' = Owed(b)
  BY <1>1, <1>2 DEF Owed
<1>5. Owes(b)'
  <2>1. CASE book[b].mode = "modify"
    BY <1>1, <1>3, <1>4, <2>1, PatchedAccounted
  <2>2. CASE book[b].mode = "read"
    BY <1>1, <1>4, <2>2, ReadAccounted
  <2>3. QED
    BY <1>1, <2>1, <2>2 DEF IsOpen, BookStates
<1>6. QED
  BY <1>3, <1>5 DEF Accounted

AllAccounted == \A b \in Books : Accounted(b)

LEMMA AccountedStep ==
  Shape /\ Shape' /\ SourceApart /\ NoTruncation /\ FlagsKept /\ AllAccounted /\ [Next]_vars
    => AllAccounted'
<1> SUFFICES ASSUME Shape, Shape', SourceApart, NoTruncation, FlagsKept, AllAccounted,
                    [Next]_vars, NEW b \in Books
             PROVE  Accounted(b)'
  BY DEF AllAccounted
<1>1. Accounted(b)
  BY DEF AllAccounted
<1>2. CASE save'[b] = save[b] /\ book'[b] = book[b]
  BY <1>1, <1>2, AccountedKept
<1>3. ASSUME b \in session.books, Acts(b) PROVE Accounted(b)'
  <2>1. CASE \/ \E p \in session.loads : Load(b, p)
             \/ \E kind \in session.kinds : Edit(b, kind)
             \/ Close(b)
             \/ \E d \in session.dests : BeginSave(b, d)
    BY <1>1, <1>3, <2>1, LoadAccounted, EditAccounted, CloseAccounted, BeginSaveAccounted
  <2>2. CASE Patch(b) \/ CopySource(b) \/ FillTarget(b) \/ OpenTarget(b)
    BY <1>1, <1>3, <2>2, PatchAccounted, CopySourceAccounted, OpenTargetAccounted
  <2>3. CASE TakeLayout(b) \/ RewriteLayout(b)
    BY <1>1, <1>3, <2>3, TakeLayoutAccounted, RewriteLayoutAccounted
  <2>4. CASE ReplayMerges(b) \/ WriteProps(b)
    BY <1>1, <1>3, <2>4, ReplayMergesAccounted, WritePropsAccounted
  <2>5. CASE MapCopy(b) \/ Publish(b) \/ Fail(b)
    BY <1>1, <1>3, <2>5, MapCopyAccounted, FailAccounted
  <2>6. QED
    BY <1>3, <2>1, <2>2, <2>3, <2>4, <2>5 DEF Acts
<1>4. ASSUME Crash PROVE Accounted(b)'
  <2>1. book'[b] = Closed /\ save'[b].step = "idle"
    BY <1>4, CrashShape DEF Crash, CrashFacts
  <2>2. book'[b].mode = "closed" /\ book'[b].dirty = {}
    BY <2>1 DEF Closed
  <2>3. QED
    BY <2>1, <2>2 DEF Accounted, Terms, Done, Owes, Idle
<1>5. ASSUME NEW p \in session.loads, OtherReplaces(p) \/ OtherRemoves(p)
      PROVE  Accounted(b)'
  BY <1>2, <1>5, OtherShape DEF OtherFacts
<1>6. UNCHANGED vars => Accounted(b)'
  BY <1>2 DEF vars
<1>7. QED
  BY <1>2, <1>3, <1>4, <1>5, <1>6, LeavesOthersAlone, StepsOfTheSystem

LEMMA AlwaysAccounted ==
  Spec /\ NoTruncation /\ FlagsKept => [](AllAccounted /\ NoTruncation /\ FlagsKept)
<1>1. Init => AllAccounted
  <2> SUFFICES ASSUME Init, NEW b \in Books PROVE Accounted(b)
    BY DEF AllAccounted
  <2>1. book[b] = Closed /\ save[b] = NoSave
    BY DEF Init
  <2>2. book[b].mode = "closed" /\ book[b].dirty = {} /\ save[b].step = "idle"
    BY <2>1 DEF Closed, NoSave
  <2>3. QED
    BY <2>2 DEF Accounted, Terms, Done, Owes, Idle
<1>2. NoTruncation /\ FlagsKept /\ [Next]_vars => NoTruncation' /\ FlagsKept'
  BY SessionStays DEF NoTruncation, FlagsKept
<1>3. QED
  BY <1>1, <1>2, AccountedStep, AlwaysShape, AlwaysApart, PTL DEF Spec

-----------------------------------------------------------------------------
(* The packages that paths name. *)

\* What a save back has put into its private copy when it is about to publish it.
LEMMA CopyIsWhole ==
  ASSUME Shape, NEW b \in Books, Accounted(b), save[b].step \in {"snapshot", "rename"}
  PROVE  book[b].private = book[b].shows /\ book[b].shows \in promised
<1>1. /\ ~Idle(b) /\ save[b].home /\ book[b].mode = "modify"
      /\ book[b].private \in Package /\ book[b].shows \in Package
      /\ book[b].dirty \subseteq Kinds
  BY DEF Idle, Shape, Typed, InSteps, InStep, BookStates
<1>2. /\ Lacks(b, book[b].private) /\ Owed(b) = book[b].dirty
      /\ \A kind \in book[b].dirty : <<b, kind>> \in book[b].private.edits
  BY <1>1 DEF Accounted, Owes, Owed, Done, Kinds
<1>3. book[b].private.base = book[b].shows.base
      /\ book[b].private.edits = book[b].shows.edits
  BY <1>2 DEF Lacks
<1>4. book[b].private = book[b].shows
  BY <1>1, <1>3 DEF Package
<1>5. QED
  BY <1>1, <1>4 DEF Accounted, Terms

\* A path that only saves back write to names the file it named, with what was in it, or
\* a package that a save was to write or another program wrote.
LEMMA TightPaths ==
  ASSUME Shape, Shape', AllFresh, AllWriteLoose, AllAccounted, Nothing \in promised,
         [Next]_vars, NEW p \in Paths, p \notin loose', at'[p] # NoFile
  PROVE  \/ at[p] = at'[p] /\ data'[at'[p]] = data[at[p]]
         \/ data'[at'[p]] \in promised'
<1>1. /\ p \notin loose /\ promised \subseteq promised'
      /\ Len(data) \in Nat /\ at[p] \in 0..Len(data) /\ at'[p] \in 0..Len(data')
  BY HistoryGrows DEF Shape, Typed, Numbered
<1>2. ASSUME at'[p] = at[p] PROVE data'[at'[p]] = data[at[p]]
  <2>1. at[p] \in 1..Len(data)
    BY <1>1, <1>2 DEF NoFile
  <2>2. CASE Undisturbed
    BY <1>2, <2>1, <2>2 DEF Undisturbed
  <2>3. ASSUME NEW c \in session.books, save[c].step \in {"write", "fill"},
               book[c].mode = "read",
               at[p] = IF save[c].step = "write" THEN at[save[c].dest] ELSE save[c].fd
        PROVE  FALSE
    <3>1. c \in Books /\ ~Idle(c) /\ ~save[c].home
      BY <2>3, SessionFacts DEF Shape, Typed, Idle, InSteps, InStep
    <3>2. WritesLoose(c)
      BY <3>1 DEF AllWriteLoose
    <3>3. QED
      BY <1>1, <1>2, <2>3, <3>1, <3>2 DEF WritesLoose
  <2>4. ASSUME NEW c \in session.books, OpenTarget(c), InPlace(at[save[c].dest], Torn)
        PROVE  data'[at[p]] = data[at[p]]
    <3>1. at[p] # at[save[c].dest]
      BY <2>3, <2>4 DEF OpenTarget
    <3>2. QED
      BY <2>1, <2>4, <3>1 DEF InPlace
  <2>5. ASSUME NEW c \in session.books, FillTarget(c), InPlace(save[c].fd, Source(c))
        PROVE  data'[at[p]] = data[at[p]]
    <3>1. c \in Books /\ save[c].step = "fill"
      BY <2>5, SessionFacts DEF Shape, Typed, FillTarget
    <3>2. at[p] # save[c].fd
      BY <2>3, <3>1 DEF Shape, InSteps, InStep
    <3>3. QED
      BY <2>1, <2>5, <3>2 DEF InPlace
  <2>6. QED
    BY <1>2, <2>2, <2>4, <2>5, DiskChanges
<1>3. CASE at' = at
  BY <1>2, <1>3
<1>4. ASSUME NEW c \in session.books, Renamed(c) PROVE at'[p] = at[p]
  <2>1. c \in Books /\ ~Idle(c) /\ ~save[c].home
    BY <1>4, SessionFacts DEF Shape, Typed, Renamed
  <2>2. save[c].dest \in loose
    BY <2>1 DEF AllWriteLoose, WritesLoose
  <2>3. QED
    BY <1>1, <1>4, <2>2 DEF Renamed, Names
<1>5. ASSUME NEW c \in session.books, Publish(c), PublishFacts(c)
      PROVE  at'[p] = at[p] \/ data'[at'[p]] \in promised'
  <2>1. c \in Books /\ save[c].step = "rename"
    BY <1>5, SessionFacts DEF Shape, Typed, Publish
  <2>2. data[save[c].put] = book[c].private
    BY <2>1 DEF AllFresh, Fresh
  <2>3. data[save[c].put] \in promised
    BY <2>1, <2>2, CopyIsWhole DEF AllAccounted
  <2>4. QED
    BY <1>1, <1>5, <2>3 DEF PublishFacts, Names
<1>6. ASSUME NEW q \in Paths, OtherFacts(q)
      PROVE  at'[p] = at[p] \/ data'[at'[p]] \in promised'
  BY <1>1, <1>6 DEF OtherFacts, Names, Adds
<1>7. QED
  BY <1>2, <1>3, <1>4, <1>5, <1>6, NameChanges

\* Whatever step of a save fails or is interrupted, and whatever other workbooks and
\* programs do in between, a path that is only saved back to names a package as it was
\* before the save or with all the edits of the workbook that saved it (save_workbook).
\* The sessions left out are those in which edits get lost: their flags were cleared by
\* a save that failed or went elsewhere.
THEOREM PathsAreWhole == Spec /\ NoTruncation /\ FlagsKept => []PathsHoldWhole
<1> DEFINE Whole == PathsHoldWhole /\ Nothing \in promised
<1>1. Init => Whole
  <2> SUFFICES ASSUME Init PROVE Whole
    OBVIOUS
  <2>1. NumPaths \in Nat \ {0}
    BY FilesAssumption
  <2>2. PICK linked \in session.linked : at = [p \in Paths |-> IF linked THEN 1 ELSE p]
    BY DEF Init
  <2>3. \A p \in Paths : at[p] \in Paths
    BY <2>1, <2>2 DEF Paths
  <2>4. \A p \in Paths : data[p] \in promised
    BY DEF Init
  <2>5. Nothing \in promised
    BY DEF Init
  <2>6. QED
    BY <2>3, <2>4, <2>5 DEF PathsHoldWhole
<1>2. Shape /\ Shape' /\ AllFresh /\ AllWriteLoose /\ AllAccounted /\ Whole /\ [Next]_vars
        => Whole'
  <2> SUFFICES ASSUME Shape, Shape', AllFresh, AllWriteLoose, AllAccounted, Whole, [Next]_vars
               PROVE  Whole'
    OBVIOUS
  <2>1. loose \subseteq loose' /\ promised \subseteq promised'
    BY HistoryGrows
  <2>2. ASSUME NEW p \in Paths, p \notin loose', at'[p] # NoFile
        PROVE  data'[at'[p]] \in promised'
    <3>1. at[p] # NoFile => data[at[p]] \in promised
      BY <2>1, <2>2 DEF PathsHoldWhole
    <3>2. QED
      BY <2>1, <2>2, <3>1, TightPaths
  <2>3. QED
    BY <2>1, <2>2 DEF PathsHoldWhole
<1>3. QED
  BY <1>1, <1>2, AlwaysShape, AlwaysFresh, AlwaysWritesLoose, AlwaysAccounted, PTL DEF Spec

-----------------------------------------------------------------------------
(* The package that a save to another place writes. *)

\* Sessions with one workbook, beside which other programs may run.
Alone == \E b \in Books : session.books \subseteq {b}

\* Sessions in which workbooks are only saved back, and only when they were edited.
AllBack == ~session.unedited /\ \E p \in Paths : session.loads = {p} /\ session.dests = {p}

\* The edits that the save has still to write; a save elsewhere writes cells and merges.
Left(b) == IF save[b].step = "props" THEN {} ELSE book[b].dirty \cap {"merges"}

LacksOnly(b, c, left) == /\ c \in Package
                         /\ c.base = book[b].shows.base
                         /\ book[b].shows.edits = c.edits \cup ({b} \X left)

\* The file that a save elsewhere writes, unless another program replaced it.
Writing(b) == IF save[b].step = "fill" THEN save[b].fd ELSE save[b].put

Carries(b) ==
  ~Idle(b) /\ ~save[b].home =>
    /\ save[b].step # "write" =>
         \/ at[save[b].dest] \in {NoFile, Writing(b)}
         \/ data[at[save[b].dest]] = Nothing
    /\ save[b].step \notin {"write", "fill"} /\ ~save[b].mixed =>
         /\ save[b].put \in 1..Len(data)
         /\ LacksOnly(b, data[save[b].put], Left(b))

AllCarry == \A b \in Books : Carries(b)

LEMMA AwayFromHome ==
  ASSUME Shape, FlagsKept, NEW b \in Books, Terms(b), ~Idle(b), ~save[b].home
  PROVE  /\ book[b].mode \in {"read", "modify"}
         /\ book[b].dirty \cap {"layout", "props"} = {}
         /\ book[b].dirty \subseteq Kinds
         /\ save[b].step \notin {"rewrite", "snapshot", "rename"}
         /\ book[b].mode = "read" => "cells" \notin book[b].dirty
<1>1. /\ book[b].mode \in {"read", "modify"} /\ book[b].dirty \subseteq Kinds
      /\ save[b].step = "rewrite" => book[b].mode = "modify"
      /\ save[b].step \notin {"snapshot", "rename"}
  BY DEF Shape, Typed, InSteps, InStep, BookStates, IsOpen
<1>2. CASE book[b].mode = "read"
  BY <1>1, <1>2 DEF Terms, IsPending
<1>3. CASE book[b].mode = "modify"
  <2>1. Owed(b) \cap {"layout", "props"} = {}
    BY <1>3, FlagsGoHome
  <2>2. QED
    BY <1>1, <1>3, <2>1 DEF Owed
<1>4. QED
  BY <1>1, <1>2, <1>3

\* What a save elsewhere writes first lacks the merges at most.
LEMMA FirstWritten ==
  ASSUME Shape, FlagsKept, NEW b \in Books, Terms(b), Owes(b), ~Idle(b), ~save[b].home
  PROVE  /\ book[b].mode = "modify" =>
              LacksOnly(b, Patched(b), book[b].dirty \cap {"merges"})
         /\ book[b].mode = "read" =>
              LacksOnly(b, Source(b), book[b].dirty \cap {"merges"})
<1>1. /\ book[b].dirty \subseteq {"cells", "merges"}
      /\ book[b].mode = "read" => book[b].dirty \subseteq {"merges"}
      /\ Owed(b) = book[b].dirty
  BY AwayFromHome DEF Kinds, Owed
<1>2. ASSUME book[b].mode = "modify"
      PROVE  LacksOnly(b, Patched(b), book[b].dirty \cap {"merges"})
  <2>1. /\ book[b].private \in Package /\ book[b].dirty \cap {"cells"} \in SUBSET Kinds
        /\ book[b].private.base = book[b].shows.base
        /\ book[b].shows.edits = book[b].private.edits \cup ({b} \X book[b].dirty)
    BY <1>1, <1>2 DEF Owes, Lacks, Shape, Typed, BookStates, Kinds
  <2>2. PICK c : c = Patched(b)
    OBVIOUS
  <2>3. /\ c \in Package /\ c.base = book[b].private.base
        /\ c.edits = book[b].private.edits \cup ({b} \X (book[b].dirty \cap {"cells"}))
    BY <2>1, <2>2, WithIsAPackage DEF Patched
  <2>4. (book[b].dirty \cap {"cells"}) \cup (book[b].dirty \cap {"merges"}) = book[b].dirty
    BY <1>1
  <2>5. book[b].shows.edits = c.edits \cup ({b} \X (book[b].dirty \cap {"merges"}))
    BY <2>1, <2>3, <2>4, EditsMove
  <2>6. QED
    BY <2>1, <2>2, <2>3, <2>5 DEF LacksOnly
<1>3. ASSUME book[b].mode = "read"
      PROVE  LacksOnly(b, Source(b), book[b].dirty \cap {"merges"})
  <2>1. Source(b) \in Package /\ Lacks(b, Source(b))
    BY <1>3, ContentsTyped DEF Owes, Shape
  <2>2. book[b].dirty \cap {"merges"} = book[b].dirty
    BY <1>1, <1>3
  <2>3. QED
    BY <1>1, <2>1, <2>2 DEF LacksOnly, Lacks
<1>4. QED
  BY <1>2, <1>3

\* The first write of a save.
LEMMA WriteCarries ==
  ASSUME Shape, Shape', FlagsKept, NEW b \in session.books,
         Patch(b) \/ CopySource(b) \/ OpenTarget(b) \/ FillTarget(b), Accounted(b), Carries(b)
  PROVE  Carries(b)'
<1>1. /\ b \in Books /\ ~Idle(b) /\ Terms(b) /\ Owes(b) /\ save[b].dest \in Paths
      /\ Len(data) \in Nat /\ at[save[b].dest] \in 0..Len(data)
  BY SessionFacts DEF Patch, CopySource, OpenTarget, FillTarget, Idle, Accounted, Shape,
     Typed, InSteps, InStep, Numbered
<1>2. CASE Patch(b) /\ ~save[b].home
  <2>1. /\ PatchFacts(b) /\ SaveMoves(b) /\ BookMoves(b) /\ After(b) = "layout"
    BY <1>2, PatchShape, AfterTheStep DEF PatchFacts, Patch
  <2>2. /\ book' = book /\ Adds(Patched(b)) /\ Names(save[b].dest, Len(data) + 1)
        /\ save'[b].put = Len(data) + 1
    BY <1>2, <2>1 DEF PatchFacts
  <2>3. LacksOnly(b, Patched(b), book[b].dirty \cap {"merges"})
    BY <1>1, <1>2, FirstWritten DEF Patch
  <2>4. /\ save'[b].step = "layout" /\ save'[b].dest = save[b].dest
        /\ at'[save'[b].dest] = save'[b].put /\ save'[b].put \in 1..Len(data')
        /\ data'[save'[b].put] = Patched(b)
    BY <1>1, <2>1, <2>2 DEF SaveMoves, Adds, Names
  <2>5. QED
    BY <2>2, <2>3, <2>4 DEF Carries, Left, LacksOnly, Writing
<1>3. CASE CopySource(b)
  <2>1. /\ CopyFacts(b) /\ SaveMoves(b) /\ After(b) = "merges" /\ book[b].mode = "read"
    BY <1>3, CopySourceShape, AfterTheStep DEF CopyFacts, CopySource
  <2>2. ~save[b].home
    BY <1>1, <2>1 DEF Shape, InSteps, InStep
  <2>3. LacksOnly(b, Source(b), book[b].dirty \cap {"merges"})
    BY <1>1, <2>1, <2>2, FirstWritten
  <2>4. /\ save'[b].step = "merges" /\ save'[b].dest = save[b].dest /\ book' = book
        /\ at'[save'[b].dest] = save'[b].put /\ save'[b].put \in 1..Len(data')
        /\ data'[save'[b].put] = Source(b)
    BY <1>1, <2>1 DEF SaveMoves, CopyFacts, Adds, Names
  <2>5. QED
    BY <2>3, <2>4 DEF Carries, Left, LacksOnly, Writing
<1>4. CASE OpenTarget(b)
  <2>1. /\ save'[b].step = "fill" /\ save'[b].dest = save[b].dest
        /\ at'[save[b].dest] = save'[b].fd
    BY <1>4, OpenTargetShape DEF OpenFacts
  <2>2. QED
    BY <2>1 DEF Carries, Writing
<1>5. CASE FillTarget(b)
  <2>1. /\ FillFacts(b) /\ SaveMoves(b) /\ After(b) = "merges" /\ save[b].step = "fill"
        /\ book[b].mode = "read"
    BY <1>1, <1>5, FillTargetShape, AfterTheStep
       DEF FillFacts, FillTarget, Shape, InSteps, InStep
  <2>2. ~save[b].home
    BY <1>1, <2>1 DEF Shape, InSteps, InStep
  <2>3. LacksOnly(b, Source(b), book[b].dirty \cap {"merges"})
    BY <1>1, <2>1, <2>2, FirstWritten
  <2>4. /\ save'[b].step = "merges" /\ save'[b].dest = save[b].dest /\ book' = book
        /\ save'[b].put = save[b].fd /\ save'[b].put \in 1..Len(data')
        /\ data'[save'[b].put] = Source(b) /\ at' = at
        /\ \A i \in 1..Len(data) \ {save[b].fd} : data'[i] = data[i]
    BY <1>1, <2>1 DEF SaveMoves, FillFacts, InPlace
  <2>5. \/ at[save[b].dest] \in {NoFile, save[b].fd}
        \/ data[at[save[b].dest]] = Nothing
    BY <1>1, <2>1, <2>2 DEF Carries, Writing
  <2>6. \/ at'[save'[b].dest] \in {NoFile, save'[b].put}
        \/ data'[at'[save'[b].dest]] = Nothing
    BY <1>1, <2>4, <2>5 DEF NoFile
  <2>7. QED
    BY <2>3, <2>4, <2>6 DEF Carries, Left, LacksOnly, Writing
<1>6. CASE Patch(b) /\ save[b].home
  BY <1>6, PatchShape DEF PatchFacts, SaveMoves, Carries
<1>7. QED
  BY <1>2, <1>3, <1>4, <1>5, <1>6

\* The replay of the merges: they are in the package, or are added to it.
LEMMA ReplayCarries ==
  ASSUME Shape, Shape', FlagsKept, NEW b \in session.books, ReplayMerges(b), Accounted(b),
         Carries(b), ~save[b].home
  PROVE  Carries(b)'
<1>1. /\ b \in Books /\ ~Idle(b) /\ Terms(b) /\ save[b].dest \in Paths
      /\ save[b].step = "merges" /\ After(b) = "props"
      /\ Len(data) \in Nat /\ at[save[b].dest] \in 0..Len(data)
  BY SessionFacts, AfterTheStep
     DEF ReplayMerges, Idle, Accounted, Shape, Typed, InSteps, InStep, Numbered
<1>2. /\ at[save[b].dest] \in {NoFile, save[b].put} \/ data[at[save[b].dest]] = Nothing
      /\ ~save[b].mixed =>
           /\ save[b].put \in 1..Len(data)
           /\ LacksOnly(b, data[save[b].put], book[b].dirty \cap {"merges"})
  BY <1>1 DEF Carries, Writing, Left
<1>3. CASE RewriteFacts(b, {"merges"}, {}) /\ "merges" \in book[b].dirty
  <2>1. /\ SaveMoves(b) /\ BookMoves(b) /\ Target(b) \in Package
        /\ Adds(With(Target(b), b, {"merges"})) /\ Names(save[b].dest, Len(data) + 1)
        /\ save'[b].put = Len(data) + 1
        /\ ~save'[b].mixed => ~save[b].mixed /\ at[save[b].dest] = save[b].put
    BY <1>3 DEF RewriteFacts
  <2>2. /\ save'[b].step = "props" /\ save'[b].dest = save[b].dest
        /\ book'[b].shows = book[b].shows
        /\ at'[save'[b].dest] = save'[b].put /\ save'[b].put \in 1..Len(data')
        /\ data'[save'[b].put] = With(Target(b), b, {"merges"})
    BY <1>1, <2>1 DEF SaveMoves, BookMoves, Adds, Names
  <2>3. ASSUME ~save'[b].mixed PROVE LacksOnly(b, data[save[b].put], {})'
    <3>1. Target(b) = data[save[b].put] /\ LacksOnly(b, Target(b), {"merges"})
      <4>1. Target(b) = ContentAt(save[b].dest) /\ at[save[b].dest] = save[b].put
        BY <2>1, <2>3 DEF Target
      <4>2. save[b].put # NoFile /\ book[b].dirty \cap {"merges"} = {"merges"}
        BY <1>2, <1>3, <2>1, <2>3 DEF NoFile
      <4>3. QED
        BY <1>2, <2>1, <2>3, <4>1, <4>2 DEF ContentAt
    <3>2. PICK c : c = With(Target(b), b, {"merges"})
      OBVIOUS
    <3>3. {"merges"} \in SUBSET Kinds
      BY DEF Kinds
    <3>4. /\ c \in Package /\ c.base = Target(b).base
          /\ c.edits = Target(b).edits \cup ({b} \X {"merges"})
      BY <1>1, <2>1, <3>2, <3>3, WithIsAPackage
    <3>5. c.base = book[b].shows.base /\ book[b].shows.edits = c.edits \cup ({b} \X {})
      BY <3>1, <3>4 DEF LacksOnly
    <3>6. data'[save'[b].put] = c
      BY <2>2, <3>2
    <3>7. QED
      BY <2>2, <3>4, <3>5, <3>6 DEF LacksOnly
  <2>4. QED
    BY <2>2, <2>3 DEF Carries, Writing, Left, LacksOnly
<1>4. ASSUME StayFacts(b),
             \/ "merges" \notin book[b].dirty
             \/ Target(b) # Torn /\ <<b, "merges">> \in Target(b).edits
      PROVE  Carries(b)'
  <2>1. /\ book' = book /\ UNCHANGED files /\ SaveMoves(b) /\ save'[b].put = save[b].put
        /\ save'[b].mixed = save[b].mixed
    BY <1>4 DEF StayFacts
  <2>2. /\ save'[b].step = "props" /\ save'[b].dest = save[b].dest
    BY <1>1, <2>1 DEF SaveMoves
  <2>3. ASSUME ~save[b].mixed PROVE LacksOnly(b, data[save[b].put], {})
    <3>1. CASE "merges" \notin book[b].dirty
      <4>1. book[b].dirty \cap {"merges"} = {}
        BY <3>1
      <4>2. QED
        BY <1>2, <2>3, <4>1
    <3>2. CASE Target(b) # Torn /\ <<b, "merges">> \in Target(b).edits
      <4>1. at[save[b].dest] # NoFile /\ data[at[save[b].dest]] # Nothing
            /\ Target(b) = data[at[save[b].dest]]
        BY <3>2 DEF Target, ContentAt, Nothing
      <4>2. Target(b) = data[save[b].put]
        BY <1>2, <4>1
      <4>3. <<b, "merges">> \in data[save[b].put].edits
        BY <3>2, <4>2
      <4>4. LacksOnly(b, data[save[b].put], book[b].dirty \cap {"merges"})
        BY <1>2, <2>3
      <4>5. QED
        BY <4>3, <4>4 DEF LacksOnly
    <3>3. QED
      BY <1>4, <3>1, <3>2
  <2>4. at'[save'[b].dest] \in {NoFile, save'[b].put} \/ data'[at'[save'[b].dest]] = Nothing
    BY <1>2, <2>1, <2>2 DEF files
  <2>5. QED
    BY <1>2, <2>1, <2>2, <2>3, <2>4 DEF Carries, Writing, Left, LacksOnly, files
<1>5. QED
  BY <1>3, <1>4, ReplayMergesFacts

LEMMA SaveCarries ==
  ASSUME Shape, Shape', FlagsKept, NEW b \in session.books, Acts(b), Accounted(b), Carries(b)
  PROVE  Carries(b)'
<1>1. b \in Books /\ Terms(b)
  BY SessionFacts DEF Shape, Typed, Accounted
<1>2. CASE \/ \E p \in session.loads : Load(b, p)
           \/ \E kind \in session.kinds : Edit(b, kind)
           \/ Close(b)
  <2>1. save'[b].step = "idle"
    BY <1>1, <1>2, UserActionsAreQuiet DEF Load, Edit, Close, Idle, Shape, InSteps, InStep
  <2>2. QED
    BY <2>1 DEF Carries, Idle
<1>3. ASSUME NEW d \in session.dests, BeginSave(b, d) PROVE Carries(b)'
  BY <1>3, BeginSaveFacts DEF BeginFacts, Carries
<1>4. CASE Patch(b) \/ CopySource(b) \/ OpenTarget(b) \/ FillTarget(b)
  BY <1>4, WriteCarries
<1>5. CASE TakeLayout(b)
  <2>1. TakeFacts(b) /\ SaveMoves(b) /\ BookMoves(b) /\ ~Idle(b) /\ save[b].step = "layout"
    BY <1>5, TakeLayoutShape DEF TakeFacts, TakeLayout, Idle
  <2>2. ASSUME ~save[b].home
        PROVE  /\ After(b) = "merges"
               /\ book'[b].dirty \cap {"merges"} = book[b].dirty \cap {"merges"}
    BY <1>1, <2>1, <2>2, AwayFromHome, AfterTheStep DEF TakeFacts
  <2>3. /\ save'[b].dest = save[b].dest /\ save'[b].home = save[b].home
        /\ save'[b].step = After(b) /\ save'[b].put = save[b].put
        /\ save'[b].mixed = save[b].mixed
        /\ at' = at /\ data' = data /\ book'[b].shows = book[b].shows
    BY <2>1 DEF TakeFacts, SaveMoves, BookMoves, files
  <2>4. QED
    BY <2>1, <2>2, <2>3 DEF Carries, Left, LacksOnly, Writing
<1>6. CASE RewriteLayout(b)
  <2>1. save[b].step = "rewrite" /\ ~Idle(b)
    BY <1>6 DEF RewriteLayout, Idle
  <2>2. save[b].home
    BY <1>1, <2>1, AwayFromHome
  <2>3. QED
    BY <1>6, <2>2, RewriteLayoutShape DEF RewriteFacts, SaveMoves, Carries
<1>7. CASE ReplayMerges(b)
  <2>1. SaveMoves(b)
    BY <1>7, ReplayMergesShape DEF RewriteFacts, StayFacts
  <2>2. QED
    BY <1>7, <2>1, ReplayCarries DEF SaveMoves, Carries
<1>8. CASE WriteProps(b)
  <2>1. SaveMoves(b) /\ After(b) = IF save[b].home THEN "snapshot" ELSE "idle"
    BY <1>8, WritePropsShape, AfterTheStep DEF RewriteFacts, StayFacts, WriteProps
  <2>2. QED
    BY <2>1 DEF SaveMoves, Carries, Idle
<1>9. CASE MapCopy(b) \/ Publish(b)
  <2>1. SaveMoves(b) /\ save[b].home
    BY <1>1, <1>9, MapCopyShape, PublishShape
       DEF MapFacts, PublishFacts, MapCopy, Publish, Shape, InSteps, InStep
  <2>2. QED
    BY <2>1 DEF SaveMoves, Carries
<1>10. CASE Fail(b)
  BY <1>10, FailShape DEF FailFacts, Carries, Idle
<1>11. QED
  BY <1>2, <1>3, <1>4, <1>5, <1>6, <1>7, <1>8, <1>9, <1>10 DEF Acts

LEMMA CarriesStep ==
  Shape /\ Shape' /\ Alone /\ FlagsKept /\ AllAccounted /\ AllCarry /\ [Next]_vars => AllCarry'
<1> SUFFICES ASSUME Shape, Shape', Alone, FlagsKept, AllAccounted, AllCarry, [Next]_vars,
                    NEW b \in Books
             PROVE  Carries(b)'
  BY DEF AllCarry
<1>1. Accounted(b) /\ Carries(b)
  BY DEF AllAccounted, AllCarry
<1>2. Idle(b)' => Carries(b)'
  BY DEF Carries
<1>3. ASSUME NEW c \in session.books, Acts(c) PROVE Carries(b)'
  <2>1. CASE c = b
    BY <1>1, <1>3, <2>1, SaveCarries
  <2>2. CASE c # b
    <3>1. Idle(b)
      BY <1>3, <2>2 DEF Alone, Shape, InSteps, InStep
    <3>2. save'[b] = save[b]
      BY <1>3, <2>2, LeavesOthersAlone
    <3>3. QED
      BY <1>2, <3>1, <3>2 DEF Idle
  <2>3. QED
    BY <2>1, <2>2
<1>4. Crash => Carries(b)'
  BY <1>2, CrashShape DEF CrashFacts, Idle
<1>5. ASSUME NEW p \in session.loads, OtherReplaces(p) \/ OtherRemoves(p)
      PROVE  Carries(b)'
  <2>1. OtherFacts(p) /\ p \in Paths /\ book' = book /\ save' = save
    BY <1>5, OtherShape DEF OtherFacts
  <2>2. /\ Len(data) \in Nat /\ (at[save[b].dest] \in 0..Len(data) \/ save[b].dest \notin Paths)
        /\ ~Idle(b) => save[b].dest \in Paths
    BY DEF Shape, Typed, Numbered, InSteps, InStep
  <2>3. /\ \A i \in 1..Len(data) : data'[i] = data[i]
        /\ save[b].put \in 1..Len(data) => save[b].put \in 1..Len(data')
    BY <2>1, <2>2 DEF OtherFacts, Adds, Shape, Typed
  <2>4. ASSUME save[b].dest \in Paths, 
               \/ at[save[b].dest] \in {NoFile, Writing(b)}
               \/ data[at[save[b].dest]] = Nothing
        PROVE  \/ at'[save[b].dest] \in {NoFile, Writing(b)}
               \/ data'[at'[save[b].dest]] = Nothing
    <3>1. CASE p = save[b].dest
      BY <2>1, <2>4, <3>1 DEF OtherFacts, Names, Adds
    <3>2. CASE p # save[b].dest
      <4>1. at'[save[b].dest] = at[save[b].dest] /\ at[save[b].dest] \in 0..Len(data)
        BY <2>1, <2>2, <2>4, <3>2 DEF OtherFacts, Names
      <4>2. QED
        BY <2>2, <2>3, <2>4, <4>1 DEF NoFile, Shape, Typed
    <3>3. QED
      BY <3>1, <3>2
  <2>5. QED
    BY <1>1, <2>1, <2>2, <2>3, <2>4 DEF Carries, Left, LacksOnly, Writing, Idle
<1>6. UNCHANGED vars => Carries(b)'
  BY <1>1 DEF vars, Carries, Left, LacksOnly, Writing, Idle
<1>7. QED
  BY <1>3, <1>4, <1>5, <1>6, StepsOfTheSystem

LEMMA AlwaysCarry == Spec /\ Alone /\ FlagsKept => []AllCarry
<1>1. Init => AllCarry
  BY DEF Init, AllCarry, Carries, Idle, NoSave
<1>2. Alone /\ [Next]_vars => Alone'
  BY SessionStays DEF Alone
<1>3. Alone => NoTruncation
  BY DEF Alone, NoTruncation
<1>4. QED
  BY <1>1, <1>2, <1>3, CarriesStep, AlwaysShape, AlwaysAccounted, PTL DEF Spec

\* A save that returns wrote all that its workbook shows: the edits that earlier saves,
\* failed ones included, wrote or left marked, and those made since (save_workbook). It
\* holds of several workbooks that are saved back, and of one that is saved anywhere.
THEOREM SavesAreComplete ==
  Spec /\ FlagsKept /\ (Alone \/ AllBack) => SavesWhatIsShown
<1>1. (Alone \/ AllBack) => NoTruncation
  BY DEF Alone, AllBack, NoTruncation
<1>2. AllBack /\ [Next]_vars => AllBack'
  BY SessionStays DEF AllBack
<1>3. ASSUME Shape, AllFresh, AllAccounted, [Next]_vars, NEW b \in Books, Publish(b),
             b \in session.books
      PROVE  data'[save'[b].put] = book[b].shows
  <2>1. /\ PublishFacts(b) /\ save[b].step = "rename"
    BY <1>3, PublishShape DEF Publish
  <2>2. data[save[b].put] = book[b].private
    BY <1>3, <2>1 DEF AllFresh, Fresh
  <2>3. book[b].private = book[b].shows
    BY <1>3, <2>1, CopyIsWhole DEF AllAccounted
  <2>4. QED
    BY <2>1, <2>2, <2>3 DEF PublishFacts
<1>4. ASSUME Shape, AllAccounted, AllBack, NEW b \in Books, ~Idle(b), ~save[b].home
      PROVE  FALSE
  <2>1. /\ IsOpen(b) /\ save[b].dest \in session.dests /\ book[b].origin \in session.loads
        /\ book[b].mode = "modify" /\ save[b].dest = book[b].origin => save[b].home
        /\ book[b].mode # "read" /\ book[b].mode \in {"closed", "read", "modify"}
    BY <1>4 DEF AllAccounted, Accounted, Terms, Shape, Typed, BookStates, InSteps, InStep,
       AllBack
  <2>2. QED
    BY <1>4, <2>1 DEF AllBack, IsOpen
<1>5. ASSUME Shape, AllAccounted, FlagsKept, AllCarry, [Next]_vars, NEW b \in Books,
             b \in session.books, WriteProps(b), ~save[b].home, ~save'[b].mixed
      PROVE  data'[save'[b].put] = book[b].shows
  <2>1. /\ save[b].step = "props" /\ ~Idle(b) /\ Terms(b) /\ Carries(b)
        /\ book[b].shows \in Package /\ book[b].mode \in {"read", "modify"}
    BY <1>5 DEF WriteProps, Idle, AllAccounted, Accounted, AllCarry, Shape, Typed, BookStates,
       InSteps, InStep, IsOpen
  <2>2. "props" \notin book[b].dirty
    BY <1>5, <2>1, AwayFromHome
  <2>3. StayFacts(b)
    BY <1>5, <2>2, WritePropsFacts
  <2>4. LacksOnly(b, data[save[b].put], {})
    BY <1>5, <2>1, <2>3 DEF Carries, Left, StayFacts
  <2>5. data[save[b].put] = book[b].shows
    <3>1. PICK c : c = data[save[b].put]
      OBVIOUS
    <3>2. c \in Package /\ c.base = book[b].shows.base /\ c.edits = book[b].shows.edits
      BY <2>4, <3>1 DEF LacksOnly
    <3>3. QED
      BY <2>1, <3>1, <3>2 DEF Package
  <2>6. QED
    BY <2>3, <2>5 DEF StayFacts, files
<1>6. Shape /\ AllFresh /\ AllAccounted /\ FlagsKept /\ (AllBack \/ AllCarry) /\ [Next]_vars
        => [\A b \in Books : Returns(b) /\ ~save'[b].mixed
              => data'[save'[b].put] = book[b].shows]_vars
  BY <1>3, <1>4, <1>5, ReturningSteps DEF Returns
<1>7. QED
  BY <1>1, <1>2, <1>6, AlwaysShape, AlwaysFresh, AlwaysAccounted, AlwaysCarry, PTL
     DEF Spec, SavesWhatIsShown
=============================================================================
