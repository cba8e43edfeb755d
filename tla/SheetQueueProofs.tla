-------------------------- MODULE SheetQueueProofs --------------------------
(* For every workbook, every offset and every kind of session: no part that
   waits to be added is in the source already; without copies no call on a shown
   sheet and no save is turned down; and while additions reach the source, every
   sheet has a part of its own. *)
EXTENDS SheetQueue, SequenceLemmas, FiniteSetTheorems

-----------------------------------------------------------------------------
(* Sequences of tabs and titles. *)

\* A moved entry stays within the list.
LEMMA TargetInRange ==
  ASSUME NEW D, NEW s \in Seq(D), NEW i \in 1..Len(s), NEW offset \in Int
  PROVE  Target(s, i, offset) \in 1..Len(s)
<1> DEFINE low  == Min({i + offset, Len(s)})
           high == Max({1, low})
<1>1. Len(s) \in Nat /\ 1 <= Len(s) /\ i + offset \in Int
  OBVIOUS
<1>2. \E x \in {i + offset, Len(s)} : \A y \in {i + offset, Len(s)} : x =< y
  BY <1>1
<1>3. low \in Int /\ low <= Len(s)
  BY <1>1, <1>2 DEF Min
<1> HIDE DEF low
<1>4. \E x \in {1, low} : \A y \in {1, low} : x >= y
  BY <1>3
<1>5. high \in {1, low} /\ high >= 1
  BY <1>3, <1>4 DEF Max
<1> HIDE DEF high
<1>6. high \in 1..Len(s)
  BY <1>1, <1>3, <1>5
<1>7. QED
  BY <1>6 DEF Target, high, low

\* The elements after an append.
LEMMA ToSetAppend ==
  ASSUME NEW D, NEW s \in Seq(D), NEW e \in D
  PROVE  ToSet(Append(s, e)) = ToSet(s) \cup {e}
<1>1. /\ Append(s, e) \in Seq(D)
      /\ Len(Append(s, e)) = Len(s) + 1
      /\ \A i \in 1..Len(s) : Append(s, e)[i] = s[i]
      /\ Append(s, e)[Len(s) + 1] = e
  BY AppendProperties
<1>2. Len(s) \in Nat /\ DOMAIN s = 1..Len(s) /\ DOMAIN Append(s, e) = 1..(Len(s) + 1)
  BY <1>1
<1>3. QED
  BY <1>1, <1>2 DEF ToSet

\* A sequence, whatever its elements are.
IsList(s) == s \in Seq(ToSet(s))

\* A sequence over any set is a list of its elements.
LEMMA ListOf ==
  ASSUME NEW D, NEW s \in Seq(D)
  PROVE  IsList(s) /\ ToSet(s) \subseteq D
<1>1. DOMAIN s = 1..Len(s) /\ Len(s) \in Nat /\ \A i \in 1..Len(s) : s[i] \in D
  OBVIOUS
<1>2. \A i \in 1..Len(s) : s[i] \in ToSet(s)
  BY <1>1 DEF ToSet
<1>3. s = [i \in 1..Len(s) |-> s[i]]
  OBVIOUS
<1>4. s \in [1..Len(s) -> ToSet(s)]
  BY <1>1, <1>2, <1>3
<1>5. s \in Seq(ToSet(s))
  BY <1>1, <1>4, FunctionIsSeq
<1>6. QED
  BY <1>1, <1>5 DEF IsList, ToSet

\* The empty list.
LEMMA NothingListed == IsList(<<>>) /\ ToSet(<<>>) = {}
<1>1. ToSet(<<>>) = {}
  BY DEF ToSet
<1>2. <<>> \in Seq({})
  OBVIOUS
<1>3. QED
  BY <1>1, <1>2 DEF IsList

\* What a list is, and over which sets it is a sequence.
LEMMA Listed ==
  ASSUME NEW s, IsList(s)
  PROVE  /\ Len(s) \in Nat /\ DOMAIN s = 1..Len(s)
         /\ \A i \in 1..Len(s) : s[i] \in ToSet(s)
         /\ \A x \in ToSet(s) : \E i \in 1..Len(s) : s[i] = x
         /\ \A D : ToSet(s) \subseteq D => s \in Seq(D)
<1>1. s \in Seq(ToSet(s))
  BY DEF IsList
<1>2. Len(s) \in Nat /\ DOMAIN s = 1..Len(s)
  BY <1>1
<1>3. \A D : ToSet(s) \subseteq D => s \in Seq(D)
  BY <1>1, SeqMonotonic
<1>4. QED
  BY <1>2, <1>3 DEF ToSet

\* What Append makes of a list.
LEMMA AppendElements ==
  ASSUME NEW s, IsList(s), NEW e
  PROVE  IsList(Append(s, e)) /\ ToSet(Append(s, e)) = ToSet(s) \cup {e}
         /\ Len(Append(s, e)) = Len(s) + 1
<1> DEFINE D == ToSet(s) \cup {e}
<1>1. s \in Seq(D)
  BY Listed
<1>2. Append(s, e) \in Seq(D) /\ Len(Append(s, e)) = Len(s) + 1
  <2> HIDE DEF D
  <2>1. e \in D
    BY DEF D
  <2>2. QED
    BY <1>1, <2>1, AppendProperties
<1>3. ToSet(Append(s, e)) = ToSet(s) \cup {e}
  <2>1. e \in D
    OBVIOUS
  <2> HIDE DEF D
  <2>2. QED
    BY <1>1, <2>1, ToSetAppend
<1>4. IsList(Append(s, e))
  <2> HIDE DEF D
  <2>1. QED
    BY <1>2, ListOf
<1>5. QED
  BY <1>2, <1>3, <1>4

\* What InsertAt makes of a list.
LEMMA InsertAtElements ==
  ASSUME NEW s, IsList(s), NEW e, NEW i \in 1..(Len(s) + 1)
  PROVE  IsList(InsertAt(s, i, e)) /\ ToSet(InsertAt(s, i, e)) = ToSet(s) \cup {e}
         /\ Len(InsertAt(s, i, e)) = Len(s) + 1
<1> DEFINE D == ToSet(s) \cup {e}
           r == InsertAt(s, i, e)
           n == Len(s)
<1>1. s \in Seq(D) /\ e \in D
  BY Listed
<1> HIDE DEF D
<1>2. /\ r \in Seq(D) /\ Len(r) = n + 1
      /\ \A j \in 1..(n + 1) : r[j] = IF j < i THEN s[j] ELSE IF j = i THEN e ELSE s[j - 1]
  BY <1>1, InsertAtProperties
<1>3. n \in Nat /\ i \in 1..(n + 1) /\ DOMAIN s = 1..n
  BY <1>1
<1>4. DOMAIN r = 1..(n + 1)
  BY <1>2
<1> HIDE DEF r, n
<1>5. \A k \in 1..n : s[k] \in ToSet(r)
  <2> SUFFICES ASSUME NEW k \in 1..n PROVE s[k] \in ToSet(r)
    OBVIOUS
  <2>1. CASE k < i
    <3>1. k \in 1..(n + 1) /\ r[k] = s[k]
      BY <1>2, <1>3, <2>1
    <3>2. QED
      BY <1>4, <3>1 DEF ToSet
  <2>2. CASE ~(k < i)
    <3>1. k + 1 \in 1..(n + 1) /\ ~(k + 1 < i) /\ k + 1 # i /\ (k + 1) - 1 = k
      BY <1>3, <2>2
    <3>2. r[k + 1] = s[k]
      BY <1>2, <3>1
    <3>3. QED
      BY <1>4, <3>1, <3>2 DEF ToSet
  <2>3. QED
    BY <2>1, <2>2
<1>6. e \in ToSet(r)
  <2>1. i \in 1..(n + 1) /\ r[i] = e
    BY <1>2, <1>3
  <2>2. QED
    BY <1>4, <2>1 DEF ToSet
<1>7. \A x \in ToSet(s) : x \in ToSet(r)
  BY <1>3, <1>5 DEF ToSet
<1>8. IsList(r) /\ ToSet(r) \subseteq D
  BY <1>2, ListOf
<1>9. QED
  BY <1>2, <1>6, <1>7, <1>8 DEF r, n, D

\* What RemoveAt makes of a list.
LEMMA RemoveAtElements ==
  ASSUME NEW s, IsList(s), NEW i \in 1..Len(s)
  PROVE  IsList(RemoveAt(s, i)) /\ ToSet(RemoveAt(s, i)) \cup {s[i]} = ToSet(s)
         /\ Len(RemoveAt(s, i)) + 1 = Len(s)
<1> DEFINE D == ToSet(s)
           r == RemoveAt(s, i)
           n == Len(s)
<1>1. s \in Seq(D) /\ s[i] \in D
  BY Listed
<1> HIDE DEF D
<1>2. /\ r \in Seq(D) /\ Len(r) = n - 1
      /\ \A j \in 1..(n - 1) : r[j] = IF j < i THEN s[j] ELSE s[j + 1]
  BY <1>1, RemoveAtProperties
<1>3. n \in Nat /\ i \in 1..n /\ DOMAIN s = 1..n
  BY <1>1
<1>4. DOMAIN r = 1..(n - 1)
  BY <1>2, <1>3
<1> HIDE DEF r, n
<1>5. ASSUME NEW k \in 1..n, k # i PROVE s[k] \in ToSet(r)
  <2>1. CASE k < i
    <3>1. k \in 1..(n - 1) /\ r[k] = s[k]
      BY <1>2, <1>3, <2>1
    <3>2. QED
      BY <1>4, <3>1 DEF ToSet
  <2>2. CASE ~(k < i)
    <3>1. k - 1 \in 1..(n - 1) /\ ~(k - 1 < i) /\ (k - 1) + 1 = k
      BY <1>3, <1>5, <2>2
    <3>2. r[k - 1] = s[k]
      BY <1>2, <3>1
    <3>3. QED
      BY <1>4, <3>1, <3>2 DEF ToSet
  <2>3. QED
    BY <2>1, <2>2
<1>6. \A x \in ToSet(s) : x \in ToSet(r) \cup {s[i]}
  BY <1>3, <1>5 DEF ToSet
<1>7. IsList(r) /\ ToSet(r) \subseteq D
  BY <1>2, ListOf
<1>8. ToSet(r) \cup {s[i]} = ToSet(s)
  BY <1>1, <1>6, <1>7 DEF D
<1>9. Len(r) + 1 = n
  BY <1>2, <1>3
<1>10. QED
  BY <1>7, <1>8, <1>9 DEF r, n

\* A filter leaves what it does not drop.
FilterStep(c, left, e) == IF e \in c.drops THEN left ELSE Append(left, e)

Filtered(c, left) ==
  /\ IsList(left)
  /\ ToSet(left) = {e \in c.from : e \notin c.drops}

Filters == INSTANCE FoldInduction WITH Op <- FilterStep, Good <- Filtered

\* The fold that drops elements leaves the others.
LEMMA FiltersLeave ==
  ASSUME NEW s, IsList(s), NEW drops
  PROVE  LET c == [from |-> ToSet(s), drops |-> drops]
         IN  Filtered(c, Filters!Folded(c, <<>>, s))
<1> DEFINE c == [from |-> ToSet(s), drops |-> drops]
           n == Len(s)
           Done(k) == {s[i] : i \in 1..k}
           C == [k \in 0..n |-> [from |-> Done(k), drops |-> drops]]
<1>1. n \in Nat /\ DOMAIN s = 1..n /\ s \in Seq(ToSet(s))
  BY Listed DEF IsList
<1>2. Filtered(C[0], <<>>)
  <2>1. C[0].from = {}
    BY <1>1
  <2>2. QED
    BY <2>1, NothingListed DEF Filtered
<1>3. ASSUME NEW left, NEW k \in 0..(n - 1), Filtered(C[k], left)
      PROVE  Filtered(C[k + 1], FilterStep(c, left, s[k + 1]))
  <2> DEFINE e == s[k + 1]
  <2>1. k \in 0..n /\ k + 1 \in 0..n
    BY <1>1
  <2>2. /\ C[k].from = Done(k) /\ C[k].drops = drops
        /\ C[k + 1].from = Done(k + 1) /\ C[k + 1].drops = drops
    BY <2>1
  <2>3. Done(k + 1) = Done(k) \cup {e}
    BY <2>1
  <2>4. c.drops = drops
    OBVIOUS
  <2>5. IsList(left) /\ ToSet(left) = {x \in Done(k) : x \notin drops}
    BY <1>3, <2>2 DEF Filtered
  <2> HIDE DEF c, C, Done, e
  <2>6. CASE e \in drops
    <3>1. FilterStep(c, left, e) = left
      BY <2>4, <2>6 DEF FilterStep
    <3>2. ToSet(left) = {x \in Done(k + 1) : x \notin drops}
      BY <2>3, <2>5, <2>6
    <3>3. QED
      BY <2>2, <2>5, <3>1, <3>2 DEF Filtered, e
  <2>7. CASE e \notin drops
    <3>1. FilterStep(c, left, e) = Append(left, e)
      BY <2>4, <2>7 DEF FilterStep
    <3>2. IsList(Append(left, e)) /\ ToSet(Append(left, e)) = ToSet(left) \cup {e}
      BY <2>5, AppendElements
    <3>3. ToSet(left) \cup {e} = {x \in Done(k + 1) : x \notin drops}
      BY <2>3, <2>5, <2>7
    <3>4. QED
      BY <2>2, <3>1, <3>2, <3>3 DEF Filtered, e
  <2>8. QED
    BY <2>6, <2>7
<1>4. Filtered(C[n], Filters!Folded(c, <<>>, s))
  <2> HIDE DEF c, C
  <2>1. \A left : \A k \in 0..(n - 1) :
          Filtered(C[k], left) => Filtered(C[k + 1], FilterStep(c, left, s[k + 1]))
    BY <1>3
  <2> HIDE DEF n
  <2>2. QED
    BY <1>1, <1>2, <2>1, Filters!FoldGrows DEF n
<1>5. C[n] = c
  <2>1. Done(n) = ToSet(s)
    BY <1>1 DEF ToSet
  <2>2. n \in 0..n
    BY <1>1
  <2>3. C[n] = [from |-> Done(n), drops |-> drops]
    BY <2>2
  <2> HIDE DEF Done, C
  <2>4. QED
    BY <2>1, <2>3
<1>6. QED
  BY <1>4, <1>5

\* What is left of a sequence without some elements.
LEMMA LeavingIs ==
  ASSUME NEW s, IsList(s), NEW S
  PROVE  IsList(Leaving(s, S)) /\ ToSet(Leaving(s, S)) = ToSet(s) \ S
<1> DEFINE c == [from |-> ToSet(s), drops |-> S]
<1>1. Leaving(s, S) = Filters!Folded(c, <<>>, s)
  BY DEF Leaving, FoldLeft, MapThenFoldSet, Max, FilterStep,
         Filters!Folded, Filters!IsFold, Filters!Top
<1>2. Filtered(c, Filters!Folded(c, <<>>, s))
  BY FiltersLeave
<1>3. QED
  BY <1>1, <1>2 DEF Filtered

\* Dropping one element from a sequence.
LEMMA DroppingProperties ==
  ASSUME NEW D, NEW s \in Seq(D), NEW e
  PROVE  /\ Dropping(s, e) \in Seq(D)
         /\ ToSet(Dropping(s, e)) = ToSet(s) \ {e}
<1>1. IsList(s) /\ ToSet(s) \subseteq D
  BY ListOf
<1>2. IsList(Dropping(s, e)) /\ ToSet(Dropping(s, e)) = ToSet(s) \ {e}
  BY <1>1, LeavingIs DEF Dropping
<1>3. ToSet(Dropping(s, e)) \subseteq D
  BY <1>1, <1>2
<1>4. QED
  BY <1>2, <1>3, Listed

\* The titles of the <sheet> list, or of the tabs.
TitlesOf(s) == Promise!TitlesOf(s)

\* The titles of a list are those of its elements.
LEMMA TitlesOfElements ==
  ASSUME NEW s PROVE TitlesOf(s) = {e.title : e \in ToSet(s)}
BY DEF TitlesOf, Promise!TitlesOf, ToSet

\* The position of a title that is there, or 0.
LEMMA PositionIs ==
  ASSUME NEW s, IsList(s), NEW title
  PROVE  /\ title \in TitlesOf(s) =>
              Position(s, title) \in 1..Len(s) /\ s[Position(s, title)].title = title
         /\ title \notin TitlesOf(s) => Position(s, title) = 0
<1> DEFINE I == {i \in 1..Len(s) : s[i].title = title}
<1>1. Position(s, title) = IF I # {} THEN Min(I) ELSE 0
  BY DEF Position, SelectInSeq
<1>2. DOMAIN s = 1..Len(s) /\ I \subseteq Nat
  <2>1. Len(s) \in Nat /\ DOMAIN s = 1..Len(s)
    BY Listed
  <2>2. QED
    BY <2>1
<1>3. CASE title \in TitlesOf(s)
  <2>1. I # {}
    BY <1>2, <1>3 DEF TitlesOf, Promise!TitlesOf
  <2>2. Min(I) \in I
    <3> HIDE DEF I
    <3>1. QED
      BY <1>2, <2>1, MinIsLeast
  <2>3. QED
    BY <1>1, <1>3, <2>1, <2>2
<1>4. CASE title \notin TitlesOf(s)
  <2>1. I = {}
    BY <1>2, <1>4 DEF TitlesOf, Promise!TitlesOf
  <2>2. QED
    BY <1>1, <1>4, <2>1
<1>5. QED
  BY <1>3, <1>4

\* A move changes the order alone.
LEMMA ApplyMoveKeeps ==
  ASSUME NEW s, IsList(s), NEW move, move.offset \in Int
  PROVE  IsList(ApplyMove(s, move)) /\ ToSet(ApplyMove(s, move)) = ToSet(s)
<1> DEFINE i    == Position(s, move.title)
           rest == RemoveAt(s, i)
           to   == Target(s, i, move.offset)
<1>1. CASE i = 0
  BY <1>1 DEF ApplyMove
<1>2. CASE i # 0
  <2>1. i \in 1..Len(s)
    BY <1>2, PositionIs
  <2>2. ApplyMove(s, move) = InsertAt(rest, to, s[i])
    BY <1>2 DEF ApplyMove
  <2> HIDE DEF i
  <2>3. to \in 1..Len(s)
    <3>1. s \in Seq(ToSet(s))
      BY DEF IsList
    <3>2. QED
      BY <2>1, <3>1, TargetInRange
  <2>4. /\ IsList(rest) /\ ToSet(rest) \cup {s[i]} = ToSet(s)
        /\ Len(rest) + 1 = Len(s)
    BY <2>1, RemoveAtElements
  <2> HIDE DEF rest, to
  <2>5. to \in 1..(Len(rest) + 1)
    BY <2>3, <2>4
  <2>6. /\ IsList(InsertAt(rest, to, s[i]))
        /\ ToSet(InsertAt(rest, to, s[i])) = ToSet(rest) \cup {s[i]}
    BY <2>4, <2>5, InsertAtElements
  <2>7. QED
    BY <2>2, <2>4, <2>6
<1>3. QED
  BY <1>1, <1>2

-----------------------------------------------------------------------------
(* A patcher, and the workspace on which the phases of a save work. *)

PatcherFields == {"paths", "order", "deletedPaths", "deletes", "creates", "copies",
                  "renames", "moves", "shifts", "adds", "dels", "graph"}

Copies == [src : Titles, dst : Titles]

\* The parts that wait to be added are finitely many and none of the source's.
AddsAreNew(p) == /\ Bounded(DOMAIN p.adds)
                 /\ DOMAIN p.adds \cap DOMAIN source.parts = {}

\* The next part number is above those of the source.
Allocates(w) == /\ DOMAIN w = {"p", "sheets", "patches", "next", "ok"}
                /\ DOMAIN w.p = PatcherFields
                /\ w.next \in Nat
                /\ \A k \in DOMAIN source.parts : k \in Nat /\ k < w.next
                /\ AddsAreNew(w.p)

SameQueues(p, q) == /\ p.creates = q.creates
                    /\ p.copies = q.copies
                    /\ p.shifts = q.shifts

\* A new sheet takes the next part number, which is above those of the source.
LEMMA AddSheetAllocates ==
  ASSUME NEW w, Allocates(w), NEW title, NEW content
  PROVE  LET v == AddSheet(w, title, content)
         IN /\ Allocates(v)
            /\ SameQueues(v.p, w.p)
            /\ v.ok = w.ok
            /\ DOMAIN v.p.paths = DOMAIN w.p.paths \cup {title}
<1> DEFINE v == AddSheet(w, title, content)
<1>1. /\ DOMAIN v = DOMAIN w
      /\ v.next = w.next + 1
      /\ v.ok = w.ok
      /\ DOMAIN v.p = PatcherFields
      /\ v.p.adds = With(w.p.adds, w.next, content)
      /\ v.p.paths = With(w.p.paths, title, w.next)
      /\ SameQueues(v.p, w.p)
  BY DEF AddSheet, Allocates, PatcherFields, SameQueues
<1>2. /\ DOMAIN v.p.adds = DOMAIN w.p.adds \cup {w.next}
      /\ DOMAIN v.p.paths = DOMAIN w.p.paths \cup {title}
  BY <1>1 DEF With
<1> HIDE DEF v
<1>3. Bounded(DOMAIN v.p.adds)
  <2>1. Bounded({w.next})
    BY DEF Bounded, Allocates
  <2>2. QED
    BY <1>2, <2>1, BoundedUnion DEF Allocates, AddsAreNew
<1>4. w.next \notin DOMAIN source.parts
  BY DEF Allocates
<1>5. DOMAIN v.p.adds \cap DOMAIN source.parts = {}
  BY <1>2, <1>4 DEF Allocates, AddsAreNew
<1>6. v.next \in Nat /\ \A k \in DOMAIN source.parts : k \in Nat /\ k < v.next
  BY <1>1 DEF Allocates
<1>7. QED
  BY <1>1, <1>2, <1>3, <1>5, <1>6 DEF Allocates, AddsAreNew, v

\* The deletions hand out no part number.
LEMMA DeletesPhaseAllocates ==
  ASSUME NEW w, Allocates(w)
  PROVE  LET v == DeletesPhase(w)
         IN /\ Allocates(v)
            /\ SameQueues(v.p, w.p)
            /\ v.ok = w.ok
            /\ v.p.paths = w.p.paths
<1> DEFINE v == DeletesPhase(w)
<1>1. CASE w.p.deletes = <<>>
  BY <1>1 DEF DeletesPhase, SameQueues
<1>2. CASE w.p.deletes # <<>>
  <2>1. PICK sheets, graph, dels, order :
          v = [w EXCEPT !.sheets = sheets,
                        !.p = [w.p EXCEPT !.graph = graph, !.dels = dels, !.order = order,
                                          !.deletes = <<>>, !.deletedPaths = <<>>]]
    BY <1>2 DEF DeletesPhase
  <2> HIDE DEF v
  <2>2. /\ DOMAIN v = DOMAIN w
        /\ v.next = w.next
        /\ v.ok = w.ok
        /\ DOMAIN v.p = PatcherFields
        /\ v.p.adds = w.p.adds
        /\ v.p.paths = w.p.paths
        /\ SameQueues(v.p, w.p)
    BY <2>1 DEF Allocates, PatcherFields, SameQueues
  <2>3. QED
    BY <2>2 DEF v, Allocates, AddsAreNew
<1>3. QED
  BY <1>1, <1>2

-----------------------------------------------------------------------------
(* The folds of the phases. *)

\* Of the context, what every creation keeps.
Creating(c, acc) ==
  /\ DOMAIN acc = {"w", "made"}
  /\ Allocates(acc.w)
  /\ SameQueues(acc.w.p, c.p)
  /\ acc.w.ok = c.ok
  /\ (ToSet(c.p.creates) \subseteq DOMAIN c.p.paths
        => DOMAIN acc.w.p.paths = DOMAIN c.p.paths)

CreateStep(c, acc, title) == CreateOne(c.p.order, ToSet(c.p.creates), acc, title)

Creations == INSTANCE FoldInduction WITH Op <- CreateStep, Good <- Creating

\* One creation keeps what a workspace allocates by.
LEMMA CreateKeeps ==
  ASSUME NEW c, NEW acc, NEW title \in ToSet(c.p.creates), Creating(c, acc)
  PROVE  Creating(c, CreateStep(c, acc, title))
<1>1. CASE title \notin ToSet(c.p.order)
  BY <1>1 DEF CreateStep, CreateOne
<1>2. CASE title \in ToSet(c.p.order)
  <2> DEFINE added == AddSheet(acc.w, title, Promise!Blank)
             next  == CreateStep(c, acc, title)
  <2>1. PICK sheets :
          next = [made |-> acc.made \cup {title}, w |-> [added EXCEPT !.sheets = sheets]]
    BY <1>2 DEF CreateStep, CreateOne
  <2>2. /\ Allocates(added)
        /\ SameQueues(added.p, acc.w.p)
        /\ added.ok = acc.w.ok
        /\ DOMAIN added.p.paths = DOMAIN acc.w.p.paths \cup {title}
    BY AddSheetAllocates DEF Creating
  <2> HIDE DEF added, next
  <2>3. /\ DOMAIN next = {"w", "made"}
        /\ DOMAIN next.w = DOMAIN added
        /\ next.w.p = added.p
        /\ next.w.next = added.next
        /\ next.w.ok = added.ok
    BY <2>1, <2>2 DEF Allocates
  <2>4. Allocates(next.w)
    BY <2>2, <2>3 DEF Allocates
  <2>5. /\ SameQueues(next.w.p, c.p)
        /\ next.w.ok = c.ok
    BY <2>2, <2>3 DEF Creating, SameQueues
  <2>6. ToSet(c.p.creates) \subseteq DOMAIN c.p.paths
          => DOMAIN next.w.p.paths = DOMAIN c.p.paths
    BY <2>2, <2>3 DEF Creating
  <2>7. QED
    BY <2>3, <2>4, <2>5, <2>6 DEF Creating, next
<1>3. QED
  BY <1>1, <1>2

\* So do all of them, and the queue of creations is drained.
LEMMA CreatesPhaseAllocates ==
  ASSUME NEW w, Allocates(w), w.p.creates \in Seq(Titles)
  PROVE  LET v == CreatesPhase(w)
         IN /\ Allocates(v)
            /\ v.p.creates = <<>>
            /\ v.p.copies = w.p.copies
            /\ v.p.shifts = w.p.shifts
            /\ v.ok = w.ok
            /\ ToSet(w.p.creates) \subseteq DOMAIN w.p.paths
                 => DOMAIN v.p.paths = DOMAIN w.p.paths
<1> DEFINE base == [w |-> w, made |-> {}]
           end == Creations!Folded(w, base, w.p.creates)
           v == CreatesPhase(w)
<1>1. Creating(w, base)
  BY DEF Creating, SameQueues
<1>2. \A acc : \A i \in DOMAIN w.p.creates :
        Creating(w, acc) => Creating(w, CreateStep(w, acc, w.p.creates[i]))
  BY CreateKeeps DEF ToSet
<1>3. Creating(w, end)
  BY <1>1, <1>2, Creations!FoldKeeps
<1>4. v = [end.w EXCEPT !.p.creates = <<>>]
  BY DEF CreatesPhase, FoldLeft, MapThenFoldSet, Max, CreateStep,
         Creations!Folded, Creations!IsFold, Creations!Top
<1> HIDE DEF end, v
<1>5. /\ DOMAIN v = DOMAIN end.w
      /\ DOMAIN v.p = PatcherFields
      /\ v.next = end.w.next
      /\ v.ok = end.w.ok
      /\ v.p.adds = end.w.p.adds
      /\ v.p.paths = end.w.p.paths
      /\ v.p.creates = <<>>
      /\ v.p.copies = end.w.p.copies
      /\ v.p.shifts = end.w.p.shifts
  BY <1>3, <1>4 DEF Creating, Allocates, PatcherFields
<1>6. Allocates(v)
  BY <1>3, <1>5 DEF Creating, Allocates, AddsAreNew
<1>7. QED
  BY <1>3, <1>5, <1>6 DEF v, Creating, SameQueues

\* A workspace as a phase leaves it that is no longer at the creates.
Continues(c, acc) == /\ Allocates(acc)
                     /\ SameQueues(acc.p, c.p)

CopyStep(c, acc, copy) == CopyOne(acc, copy)

Copying == INSTANCE FoldInduction WITH Op <- CopyStep, Good <- Continues

\* One copy, made or refused, keeps what a workspace allocates by.
LEMMA CopyKeeps ==
  ASSUME NEW c, NEW acc, NEW copy, Continues(c, acc)
  PROVE  Continues(c, CopyStep(c, acc, copy))
<1> DEFINE added == AddSheet(acc, copy.dst, Current(acc, acc.p.paths[copy.src]))
           next  == CopyStep(c, acc, copy)
<1>1. CASE next = [acc EXCEPT !.ok = FALSE]
  <2> HIDE DEF next
  <2>1. DOMAIN next = DOMAIN acc /\ next.p = acc.p /\ next.next = acc.next
    BY <1>1 DEF Continues, Allocates
  <2>2. QED
    BY <2>1 DEF Continues, Allocates, SameQueues, next
<1>2. CASE next = [added EXCEPT !.p.order = Append(@, copy.dst)]
  <2>1. Allocates(added) /\ SameQueues(added.p, acc.p)
    BY AddSheetAllocates DEF Continues
  <2> HIDE DEF added, next
  <2>2. /\ DOMAIN next = DOMAIN added
        /\ next.next = added.next
        /\ DOMAIN next.p = PatcherFields
        /\ next.p.adds = added.p.adds
        /\ SameQueues(next.p, added.p)
    BY <1>2, <2>1 DEF Allocates, PatcherFields, SameQueues
  <2>3. QED
    BY <2>1, <2>2 DEF Continues, Allocates, AddsAreNew, SameQueues, next
<1>3. QED
  BY <1>1, <1>2 DEF CopyStep, CopyOne

\* So do all of them; without copies this phase succeeds.
LEMMA CopiesPhaseAllocates ==
  ASSUME NEW w, Allocates(w), w.p.copies \in Seq(Copies)
  PROVE  LET v == CopiesPhase(w)
         IN /\ Allocates(v)
            /\ v.p.creates = w.p.creates
            /\ v.p.copies \in {<<>>, w.p.copies}
            /\ v.p.shifts = w.p.shifts
            /\ w.p.copies = <<>> => v.ok = w.ok /\ v.p.paths = w.p.paths
<1> DEFINE end == Copying!Folded(w, w, w.p.copies)
           v == CopiesPhase(w)
<1>1. Continues(w, end)
  <2>1. Continues(w, w)
    BY DEF Continues, SameQueues
  <2>2. \A acc : \A i \in DOMAIN w.p.copies :
          Continues(w, acc) => Continues(w, CopyStep(w, acc, w.p.copies[i]))
    BY CopyKeeps
  <2>3. QED
    BY <2>1, <2>2, Copying!FoldKeeps
<1>2. v = IF end.ok THEN [end EXCEPT !.p.copies = <<>>] ELSE end
  BY DEF CopiesPhase, FoldLeft, MapThenFoldSet, Max, CopyStep,
         Copying!Folded, Copying!IsFold, Copying!Top
<1>3. w.p.copies = <<>> => end = w
  BY Copying!FoldOfNothing
<1> HIDE DEF end, v
<1>4. /\ DOMAIN v = DOMAIN end
      /\ DOMAIN v.p = PatcherFields
      /\ v.next = end.next
      /\ v.ok = end.ok
      /\ v.p.adds = end.p.adds
      /\ v.p.paths = end.p.paths
      /\ v.p.creates = end.p.creates
      /\ v.p.copies \in {<<>>, end.p.copies}
      /\ v.p.shifts = end.p.shifts
  BY <1>1, <1>2 DEF Continues, Allocates, PatcherFields
<1>5. Allocates(v)
  BY <1>1, <1>4 DEF Continues, Allocates, AddsAreNew
<1>6. QED
  BY <1>1, <1>3, <1>4, <1>5 DEF v, Continues, SameQueues

ShiftStep(c, acc, title) == ShiftOne(acc, title)

\* A shift changes the replaced parts alone.
Shifting(c, acc) == /\ DOMAIN acc = DOMAIN c
                    /\ acc.p = c.p
                    /\ acc.next = c.next
                    /\ acc.ok = c.ok

Shifts == INSTANCE FoldInduction WITH Op <- ShiftStep, Good <- Shifting

\* The shifts leave the patcher and the next part number alone.
LEMMA ShiftsPhaseKeeps ==
  ASSUME NEW w, DOMAIN w = {"p", "sheets", "patches", "next", "ok"},
         w.p.shifts \in Seq(Titles)
  PROVE  Shifting(w, ShiftsPhase(w))
<1>1. \A acc : \A i \in DOMAIN w.p.shifts :
        Shifting(w, acc) => Shifting(w, ShiftStep(w, acc, w.p.shifts[i]))
  BY DEF Shifting, ShiftStep, ShiftOne
<1>2. Shifting(w, Shifts!Folded(w, w, w.p.shifts))
  <2>1. Shifting(w, w)
    BY DEF Shifting
  <2>2. QED
    BY <1>1, <2>1, Shifts!FoldKeeps
<1>3. ShiftsPhase(w) = Shifts!Folded(w, w, w.p.shifts)
  BY DEF ShiftsPhase, FoldLeft, MapThenFoldSet, Max, ShiftStep,
         Shifts!Folded, Shifts!IsFold, Shifts!Top
<1>4. QED
  BY <1>2, <1>3

\* Renames and moves change the <sheet> list and the order.
LEMMA RenamesAndMovesKeep ==
  ASSUME NEW w, Allocates(w)
  PROVE  LET v == MovesPhase(RenamesPhase(w))
         IN /\ Allocates(v)
            /\ SameQueues(v.p, w.p)
            /\ v.ok = w.ok
            /\ v.p.paths = w.p.paths
<1> DEFINE u == RenamesPhase(w)
           v == MovesPhase(u)
<1>1. /\ DOMAIN u = DOMAIN w
      /\ u.p = w.p
      /\ u.next = w.next
      /\ u.ok = w.ok
  BY DEF RenamesPhase, Allocates
<1> HIDE DEF u
<1>2. /\ DOMAIN v = DOMAIN u
      /\ DOMAIN v.p = PatcherFields
      /\ v.p.adds = u.p.adds
      /\ v.p.paths = u.p.paths
      /\ SameQueues(v.p, u.p)
      /\ v.next = u.next
      /\ v.ok = u.ok
  BY <1>1 DEF MovesPhase, Allocates, PatcherFields, SameQueues
<1> HIDE DEF v
<1>3. Allocates(v)
  BY <1>1, <1>2 DEF Allocates, AddsAreNew
<1>4. QED
  BY <1>1, <1>2, <1>3 DEF u, v

\* The phases together: the queues of creations and, when it succeeds, of
\* copies are drained; without copies no phase fails.
LEMMA PhasesAllocate ==
  ASSUME NEW p, DOMAIN p = PatcherFields, AddsAreNew(p),
         p.creates \in Seq(Titles), p.copies \in Seq(Copies), p.shifts \in Seq(Titles),
         Bounded(DOMAIN source.parts)
  PROVE  LET w == Phases(p)
         IN /\ Allocates(w)
            /\ w.p.creates = <<>>
            /\ w.p.copies \in {<<>>, p.copies}
            /\ w.p.shifts = p.shifts
            /\ p.copies = <<>> =>
                 /\ w.ok
                 /\ ToSet(p.creates) \subseteq DOMAIN p.paths
                      => DOMAIN w.p.paths = DOMAIN p.paths
<1> DEFINE start   == Workspace(p)
           deleted == DeletesPhase(start)
           created == CreatesPhase(deleted)
           copied  == CopiesPhase(created)
           moved   == MovesPhase(RenamesPhase(copied))
           w       == Phases(p)
<1>1. Allocates(start) /\ start.p = p /\ start.ok
  <2> DEFINE top == Max({0} \cup DOMAIN source.parts)
  <2>1. top \in Nat /\ \A k \in DOMAIN source.parts : k \in Nat /\ k <= top
    BY MaxIsAbove
  <2>2. /\ DOMAIN start = {"p", "sheets", "patches", "next", "ok"}
        /\ start.p = p
        /\ start.next = top + 1
        /\ start.ok
    BY DEF Workspace
  <2> HIDE DEF start, top
  <2>3. start.next \in Nat
        /\ \A k \in DOMAIN source.parts : k \in Nat /\ k < start.next
    BY <2>1, <2>2
  <2>4. QED
    BY <2>2, <2>3 DEF Allocates
<1> HIDE DEF start
<1>2. /\ Allocates(deleted)
      /\ SameQueues(deleted.p, p)
      /\ deleted.ok
      /\ deleted.p.paths = p.paths
  BY <1>1, DeletesPhaseAllocates
<1> HIDE DEF deleted
<1>3. /\ Allocates(created)
      /\ created.p.creates = <<>>
      /\ created.p.copies = p.copies
      /\ created.p.shifts = p.shifts
      /\ created.ok
      /\ ToSet(p.creates) \subseteq DOMAIN p.paths
           => DOMAIN created.p.paths = DOMAIN p.paths
  BY <1>2, CreatesPhaseAllocates DEF SameQueues
<1> HIDE DEF created
<1>4. /\ Allocates(copied)
      /\ copied.p.creates = <<>>
      /\ copied.p.copies \in {<<>>, p.copies}
      /\ copied.p.shifts = p.shifts
      /\ p.copies = <<>> => copied.ok = created.ok /\ copied.p.paths = created.p.paths
  BY <1>3, CopiesPhaseAllocates
<1> HIDE DEF copied
<1>5. /\ Allocates(moved)
      /\ SameQueues(moved.p, copied.p)
      /\ moved.ok = copied.ok
      /\ moved.p.paths = copied.p.paths
  BY <1>4, RenamesAndMovesKeep
<1> HIDE DEF moved
<1>6. /\ Allocates(ShiftsPhase(moved))
      /\ ShiftsPhase(moved).p = moved.p
      /\ ShiftsPhase(moved).ok = moved.ok
  <2>1. Shifting(moved, ShiftsPhase(moved))
    BY <1>4, <1>5, ShiftsPhaseKeeps DEF Allocates, SameQueues
  <2>2. QED
    BY <1>5, <2>1 DEF Allocates, Shifting
<1>7. w = IF copied.ok THEN ShiftsPhase(moved) ELSE copied
  BY DEF Phases, start, deleted, created, copied, moved
<1> HIDE DEF w
<1>8. QED
  BY <1>3, <1>4, <1>5, <1>6, <1>7 DEF SameQueues, w

-----------------------------------------------------------------------------
(* The queue_* methods. *)

\* The queues that queue_sheet_create changes (mod.rs:1229-1255).
LEMMA QueueCreateKeeps ==
  ASSUME NEW p, DOMAIN p = PatcherFields, NEW title, NEW at
  PROVE  LET q == QueueCreate(p, title, at)
         IN /\ DOMAIN q = PatcherFields
            /\ q.adds = p.adds
            /\ q.creates = Append(p.creates, title)
            /\ q.copies = p.copies
            /\ q.shifts = p.shifts
            /\ q.paths = With(p.paths, title, Pending)
BY DEF QueueCreate, PatcherFields

\* The queues that queue_sheet_delete changes (mod.rs:1257-1287).
LEMMA QueueDeleteKeeps ==
  ASSUME NEW p, DOMAIN p = PatcherFields, NEW title
  PROVE  LET q == QueueDelete(p, title)
         IN /\ DOMAIN q = PatcherFields
            /\ q.adds = p.adds
            /\ q.creates = IF p.paths[title] = Pending THEN Dropping(p.creates, title)
                                                       ELSE p.creates
            /\ q.copies = p.copies
            /\ q.shifts = p.shifts
            /\ q.paths = Without(p.paths, {title})
BY DEF QueueDelete, PatcherFields

\* The queues that queue_sheet_rename changes (mod.rs:1175-1224).
LEMMA QueueRenameKeeps ==
  ASSUME NEW p, DOMAIN p = PatcherFields, NEW old, NEW new
  PROVE  LET q == QueueRename(p, old, new)
         IN /\ DOMAIN q = PatcherFields
            /\ q.adds = p.adds
            /\ q.creates = p.creates
            /\ q.copies = p.copies
            /\ q.shifts = p.shifts
            /\ q.paths = With(Without(p.paths, {old}), new, p.paths[old])
BY DEF QueueRename, PatcherFields

\* The copies handed to the patcher before a save.
Flushing(c, acc) == /\ DOMAIN acc = {"p", "ok"}
                    /\ DOMAIN acc.p = PatcherFields
                    /\ acc.p.adds = c.adds
                    /\ acc.p.paths = c.paths
                    /\ acc.p.creates = c.creates
                    /\ acc.p.shifts = c.shifts
                    /\ acc.p.copies \in Seq(Copies)

FlushStep(c, acc, copy) == FlushOne(acc, copy)

Flushes == INSTANCE FoldInduction WITH Op <- FlushStep, Good <- Flushing

\* The copies handed over before a save change the queue of copies alone.
LEMMA FlushKeeps ==
  ASSUME DOMAIN patcher = PatcherFields, patcher.copies \in Seq(Copies),
         sheetCopies \in Seq(Copies)
  PROVE  /\ Flushing(patcher, FlushCopies)
         /\ sheetCopies = <<>> => FlushCopies = [p |-> patcher, ok |-> TRUE]
<1> DEFINE base == [p |-> patcher, ok |-> TRUE]
           end  == Flushes!Folded(patcher, base, sheetCopies)
<1>1. ASSUME NEW acc, NEW copy \in Copies, Flushing(patcher, acc)
      PROVE  Flushing(patcher, FlushOne(acc, copy))
  <2> DEFINE next == FlushOne(acc, copy)
  <2>1. CASE next = [acc EXCEPT !.ok = FALSE]
    <3> HIDE DEF next
    <3>1. QED
      BY <1>1, <2>1 DEF Flushing, next
  <2>2. CASE next = [acc EXCEPT !.p.copies = Append(@, copy)]
    <3> HIDE DEF next
    <3>1. /\ DOMAIN next = {"p", "ok"}
          /\ DOMAIN next.p = PatcherFields
          /\ next.p.adds = acc.p.adds
          /\ next.p.paths = acc.p.paths
          /\ next.p.creates = acc.p.creates
          /\ next.p.shifts = acc.p.shifts
          /\ next.p.copies = Append(acc.p.copies, copy)
      BY <1>1, <2>2 DEF Flushing, PatcherFields
    <3>2. Append(acc.p.copies, copy) \in Seq(Copies)
      BY <1>1, AppendProperties DEF Flushing
    <3>3. QED
      BY <1>1, <3>1, <3>2 DEF Flushing, next
  <2>3. QED
    BY <2>1, <2>2 DEF FlushOne
<1>2. Flushing(patcher, base)
  BY DEF Flushing
<1>3. \A acc : \A i \in DOMAIN sheetCopies :
        Flushing(patcher, acc) => Flushing(patcher, FlushStep(patcher, acc, sheetCopies[i]))
  <2>1. \A i \in DOMAIN sheetCopies : sheetCopies[i] \in Copies
    OBVIOUS
  <2>2. QED
    BY <1>1, <2>1 DEF FlushStep
<1>4. Flushing(patcher, end)
  BY <1>2, <1>3, Flushes!FoldKeeps
<1>5. sheetCopies = <<>> => end = base
  BY Flushes!FoldOfNothing
<1>6. FlushCopies = end
  BY DEF FlushCopies, FoldLeft, MapThenFoldSet, Max, FlushStep,
         Flushes!Folded, Flushes!IsFold, Flushes!Top
<1>7. QED
  BY <1>4, <1>5, <1>6

-----------------------------------------------------------------------------
(* The parts that wait to be added are never the source's. *)

Tab == [title : Titles, content : Promise!Contents]

QueuesTyped == /\ tabs \in Seq(Tab)
               /\ sheetCopies \in Seq(Copies)
               /\ axisShifts \in Seq(Titles)
               /\ DOMAIN patcher = PatcherFields
               /\ patcher.creates \in Seq(Titles)
               /\ patcher.copies \in Seq(Copies)
               /\ patcher.shifts \in Seq(Titles)

PartsApart == /\ Bounded(DOMAIN source.parts)
              /\ AddsAreNew(patcher)

\* A patcher that replaces the current one in a step that leaves the source.
Fits(q) == /\ DOMAIN q = PatcherFields
           /\ q.creates \in Seq(Titles)
           /\ q.copies \in Seq(Copies)
           /\ q.shifts \in Seq(Titles)
           /\ AddsAreNew(q)

\* A workbook that was just loaded has no part to add.
LEMMA InitApart == Init => QueuesTyped /\ PartsApart
<1> SUFFICES ASSUME Init PROVE QueuesTyped /\ PartsApart
  OBVIOUS
<1>1. /\ DOMAIN patcher = PatcherFields
      /\ patcher.creates = <<>> /\ patcher.copies = <<>> /\ patcher.shifts = <<>>
      /\ patcher.adds = <<>>
  BY DEF Init, OpenPatcher, PatcherFields
<1>2. /\ source.sheets = [i \in DOMAIN Loaded |-> [title |-> Loaded[i], rid |-> i]]
      /\ source.rels = [i \in DOMAIN Loaded |-> i]
      /\ source.parts = [i \in DOMAIN Loaded |-> [of |-> Loaded[i], shifts |-> 0]]
  BY DEF Init, LoadedPackage
<1>3. DOMAIN Loaded = 1..Len(Loaded) /\ Len(Loaded) \in Nat
      /\ \A i \in 1..Len(Loaded) : Loaded[i] \in Titles
  BY TitlesAssumption
<1>4. tabs = [i \in 1..Len(Loaded) |->
                [title |-> Loaded[i], content |-> [of |-> Loaded[i], shifts |-> 0]]]
  BY <1>2, <1>3 DEF Init, Shown
<1>5. tabs \in Seq(Tab)
  <2>1. \A i \in 1..Len(Loaded) :
          [title |-> Loaded[i], content |-> [of |-> Loaded[i], shifts |-> 0]] \in Tab
    BY <1>3 DEF Tab, Promise!Contents
  <2>2. QED
    BY <1>3, <1>4, <2>1, IsASeq
<1>6. Bounded(DOMAIN source.parts)
  BY <1>2, <1>3 DEF Bounded
<1>7. AddsAreNew(patcher)
  <2>1. DOMAIN patcher.adds = {}
    BY <1>1
  <2>2. Bounded({})
    BY DEF Bounded
  <2>3. QED
    BY <2>1, <2>2 DEF AddsAreNew
<1>8. sheetCopies = <<>> /\ axisShifts = <<>>
  BY DEF Init
<1>9. QED
  BY <1>1, <1>5, <1>6, <1>7, <1>8 DEF QueuesTyped, PartsApart

\* What the save works with.
LEMMA FlushedFits ==
  ASSUME QueuesTyped, PartsApart
  PROVE  /\ Fits(Flushed)
         /\ Fits(FlushCopies.p)
         /\ sheetCopies = <<>> =>
              FlushCopies.ok /\ FlushCopies.p = patcher /\ Flushed.copies = patcher.copies
         /\ Flushed.paths = patcher.paths /\ Flushed.creates = patcher.creates
         /\ FlushCopies.p.creates = patcher.creates
<1>1. /\ Flushing(patcher, FlushCopies)
      /\ sheetCopies = <<>> => FlushCopies = [p |-> patcher, ok |-> TRUE]
  BY FlushKeeps DEF QueuesTyped
<1>2. /\ DOMAIN Flushed = PatcherFields
      /\ Flushed.shifts = FlushCopies.p.shifts \o axisShifts
      /\ Flushed.creates = FlushCopies.p.creates
      /\ Flushed.copies = FlushCopies.p.copies
      /\ Flushed.paths = FlushCopies.p.paths
      /\ Flushed.adds = FlushCopies.p.adds
  BY <1>1 DEF Flushed, Flushing, PatcherFields
<1>3. Flushed.shifts \in Seq(Titles)
  BY <1>1, <1>2, ConcatProperties DEF QueuesTyped, Flushing
<1>4. QED
  BY <1>1, <1>2, <1>3 DEF QueuesTyped, PartsApart, Flushing, Fits, AddsAreNew

\* What the phases leave of the patcher in a save.
LEMMA PhasesFit ==
  ASSUME QueuesTyped, PartsApart
  PROVE  /\ Allocates(Phases(Flushed))
         /\ Fits(Phases(Flushed).p)
         /\ Phases(Flushed).p.creates = <<>>
         /\ Flushed.copies = <<>> =>
              /\ Phases(Flushed).ok
              /\ Phases(Flushed).p.copies = <<>>
              /\ ToSet(patcher.creates) \subseteq DOMAIN patcher.paths
                   => DOMAIN Phases(Flushed).p.paths = DOMAIN patcher.paths
<1> DEFINE w == Phases(Flushed)
<1>1. Fits(Flushed) /\ Flushed.creates = patcher.creates /\ Flushed.paths = patcher.paths
  BY FlushedFits
<1>2. /\ Allocates(w)
      /\ w.p.creates = <<>>
      /\ w.p.copies \in {<<>>, Flushed.copies}
      /\ w.p.shifts = Flushed.shifts
      /\ Flushed.copies = <<>> =>
           /\ w.ok
           /\ ToSet(Flushed.creates) \subseteq DOMAIN Flushed.paths
                => DOMAIN w.p.paths = DOMAIN Flushed.paths
  BY <1>1, PhasesAllocate DEF Fits, PartsApart
<1> HIDE DEF w
<1>3. Fits(w.p)
  <2>1. <<>> \in Seq(Titles) /\ <<>> \in Seq(Copies)
    OBVIOUS
  <2>2. w.p.creates \in Seq(Titles) /\ w.p.copies \in Seq(Copies)
    BY <1>1, <1>2, <2>1 DEF Fits
  <2>3. QED
    BY <1>1, <1>2, <2>2 DEF Allocates, Fits
<1>4. QED
  BY <1>1, <1>2, <1>3 DEF w

\* Every call and every save keeps the parts apart.
LEMMA StepApart ==
  QueuesTyped /\ PartsApart /\ [Next]_vars => QueuesTyped' /\ PartsApart'
<1> SUFFICES ASSUME QueuesTyped, PartsApart, [Next]_vars
             PROVE  QueuesTyped' /\ PartsApart'
  OBVIOUS
<1>1. ASSUME source' = source, tabs' \in Seq(Tab), sheetCopies' \in Seq(Copies),
             axisShifts' \in Seq(Titles), Fits(patcher')
      PROVE  QueuesTyped' /\ PartsApart'
  BY <1>1 DEF QueuesTyped, PartsApart, Fits, AddsAreNew
<1>2. Fits(patcher)
  BY DEF QueuesTyped, PartsApart, Fits
<1>3. ASSUME NEW i \in DOMAIN tabs
      PROVE  i \in 1..Len(tabs) /\ tabs[i] \in Tab /\ tabs[i].title \in Titles
  <2>1. i \in 1..Len(tabs) /\ tabs[i] \in Tab
    BY DEF QueuesTyped
  <2>2. QED
    BY <2>1 DEF Tab
<1>4. ASSUME NEW old \in Titles
      PROVE  Fits(QueueDelete(patcher, old))
  <2>1. Dropping(patcher.creates, old) \in Seq(Titles)
    BY DroppingProperties DEF QueuesTyped
  <2>2. QED
    BY <1>2, <2>1, QueueDeleteKeeps DEF QueuesTyped, Fits, AddsAreNew
<1>5. ASSUME NEW q, Fits(q), NEW title \in Titles, NEW at
      PROVE  Fits(QueueCreate(q, title, at))
  <2>1. Append(q.creates, title) \in Seq(Titles)
    BY <1>5, AppendProperties DEF Fits
  <2> DEFINE next == QueueCreate(q, title, at)
  <2>2. /\ DOMAIN next = PatcherFields
        /\ next.adds = q.adds
        /\ next.creates = Append(q.creates, title)
        /\ next.copies = q.copies
        /\ next.shifts = q.shifts
    BY <1>5, QueueCreateKeeps DEF Fits
  <2> HIDE DEF next
  <2>3. Fits(next)
    BY <1>5, <2>1, <2>2 DEF Fits, AddsAreNew
  <2>4. QED
    BY <2>3 DEF next
<1>6. ASSUME NEW title \in Unused, NEW at \in 1..(Len(tabs) + 1), Create(title, at)
      PROVE  QueuesTyped' /\ PartsApart'
  <2>1. title \in Titles /\ [title |-> title, content |-> Promise!Blank] \in Tab
    BY DEF Unused, Tab, Promise!Blank, Promise!Contents
  <2>2. InsertAt(tabs, at, [title |-> title, content |-> Promise!Blank]) \in Seq(Tab)
    BY <2>1, InsertAtProperties DEF QueuesTyped
  <2>3. Fits(QueueCreate(patcher, title, at))
    BY <1>2, <1>5, <2>1
  <2>4. QED
    BY <1>1, <1>2, <1>6, <2>2, <2>3 DEF Create, Call, QueuesTyped
<1>7. ASSUME NEW i \in DOMAIN tabs, RemoveSheet(i)
      PROVE  QueuesTyped' /\ PartsApart'
  <2>1. RemoveAt(tabs, i) \in Seq(Tab)
    BY <1>3, RemoveAtProperties DEF QueuesTyped
  <2>2. Fits(QueueDelete(patcher, tabs[i].title))
    BY <1>3, <1>4
  <2>3. QED
    BY <1>1, <1>2, <1>7, <2>1, <2>2 DEF RemoveSheet, Call, QueuesTyped
<1>8. ASSUME NEW i \in DOMAIN tabs, NEW new \in Unused
      PROVE  [tabs EXCEPT ![i].title = new] \in Seq(Tab)
  <2>1. [tabs[i] EXCEPT !.title = new] \in Tab
    BY <1>3 DEF Tab, Unused
  <2>2. QED
    BY <1>3, <2>1, ExceptSeq DEF QueuesTyped
<1>9. ASSUME NEW i \in DOMAIN tabs, NEW new \in Unused, Retitle(i, new)
      PROVE  QueuesTyped' /\ PartsApart'
  <2>1. Fits(QueueDelete(patcher, tabs[i].title))
    BY <1>3, <1>4
  <2>2. Fits(QueueCreate(QueueDelete(patcher, tabs[i].title), new, i))
    BY <1>5, <2>1 DEF Unused
  <2>3. patcher' \in {QueueCreate(QueueDelete(patcher, tabs[i].title), new, i),
                      QueueDelete(patcher, tabs[i].title), patcher}
    BY <1>9 DEF Retitle
  <2>4. Fits(patcher')
    BY <1>2, <2>1, <2>2, <2>3
  <2>5. source' = source /\ sheetCopies' = sheetCopies /\ axisShifts' = axisShifts
    BY <1>9 DEF Retitle, Call
  <2>6. tabs' \in Seq(Tab)
    BY <1>8, <1>9 DEF Retitle, QueuesTyped
  <2>7. QED
    BY <1>1, <2>4, <2>5, <2>6 DEF QueuesTyped
<1>10. ASSUME NEW i \in DOMAIN tabs, NEW new \in Unused, Rename(i, new)
       PROVE  QueuesTyped' /\ PartsApart'
  <2>1. Fits(QueueRename(patcher, tabs[i].title, new))
    <3> DEFINE old  == tabs[i].title
               next == QueueRename(patcher, old, new)
    <3> HIDE DEF old
    <3>1. /\ DOMAIN next = PatcherFields
          /\ next.adds = patcher.adds
          /\ next.creates = patcher.creates
          /\ next.copies = patcher.copies
          /\ next.shifts = patcher.shifts
      <4>1. DOMAIN patcher = PatcherFields
        BY DEF QueuesTyped
      <4>2. QED
        BY <4>1 DEF QueueRename, PatcherFields
    <3> HIDE DEF next
    <3>2. Fits(next)
      BY <1>2, <3>1 DEF Fits, AddsAreNew
    <3>3. QED
      BY <3>2 DEF next, old
  <2>2. QED
    BY <1>1, <1>2, <1>8, <1>10, <2>1 DEF Rename, Call, QueuesTyped
<1>11. ASSUME NEW i \in DOMAIN tabs, NEW offset \in Offsets, MoveSheet(i, offset)
       PROVE  QueuesTyped' /\ PartsApart'
  <2>1. /\ DOMAIN patcher' = PatcherFields
        /\ patcher'.creates = patcher.creates
        /\ patcher'.copies = patcher.copies
        /\ patcher'.shifts = patcher.shifts
        /\ patcher'.adds = patcher.adds
    BY <1>2, <1>11 DEF MoveSheet, Fits, PatcherFields
  <2>2. Fits(patcher')
    BY <1>2, <2>1 DEF Fits, AddsAreNew
  <2>3. tabs' \in Seq(Tab)
    <3> DEFINE rest == RemoveAt(tabs, i)
               to == Target(tabs, i, offset)
    <3>1. rest \in Seq(Tab) /\ Len(rest) = Len(tabs) - 1
      BY <1>3, RemoveAtProperties DEF QueuesTyped
    <3>2. to \in 1..Len(tabs)
      BY <1>3, TargetInRange, TitlesAssumption DEF QueuesTyped
    <3> HIDE DEF rest, to
    <3>3. Len(rest) + 1 = Len(tabs)
      BY <3>1 DEF QueuesTyped
    <3>4. InsertAt(rest, to, tabs[i]) \in Seq(Tab)
      BY <1>3, <3>1, <3>2, <3>3, InsertAtProperties
    <3>5. QED
      BY <1>11, <3>4 DEF MoveSheet, rest, to
  <2>4. QED
    BY <1>1, <1>11, <2>2, <2>3 DEF MoveSheet, Call, QueuesTyped
<1>12. ASSUME NEW i \in DOMAIN tabs, NEW dst \in Unused, CopyWorksheet(i, dst)
       PROVE  QueuesTyped' /\ PartsApart'
  <2>1. /\ [title |-> dst, content |-> tabs[i].content] \in Tab
        /\ [src |-> tabs[i].title, dst |-> dst] \in Copies
    BY <1>3 DEF Tab, Copies, Unused
  <2>2. tabs' \in Seq(Tab) /\ sheetCopies' \in Seq(Copies)
    BY <1>12, <2>1, AppendProperties DEF CopyWorksheet, QueuesTyped
  <2>3. QED
    BY <1>1, <1>2, <1>12, <2>2 DEF CopyWorksheet, Call, QueuesTyped
<1>13. ASSUME NEW i \in DOMAIN tabs, InsertRows(i)
       PROVE  QueuesTyped' /\ PartsApart'
  <2>1. [tabs[i] EXCEPT !.content = Promise!Shifted(@)] \in Tab
    BY <1>3 DEF Tab, Promise!Shifted, Promise!Contents, Promise!Blank
  <2>2. tabs' \in Seq(Tab)
    BY <1>3, <1>13, <2>1, ExceptSeq DEF InsertRows, QueuesTyped
  <2>3. axisShifts' \in Seq(Titles)
    BY <1>3, <1>13, AppendProperties DEF InsertRows, QueuesTyped
  <2>4. QED
    BY <1>1, <1>2, <1>13, <2>2, <2>3 DEF InsertRows, Call, QueuesTyped
<1>14. ASSUME NEW inPlace \in BOOLEAN, Save(inPlace)
       PROVE  QueuesTyped' /\ PartsApart'
  <2>1. Fits(Flushed) /\ Fits(FlushCopies.p)
    BY FlushedFits
  <2>2. Allocates(Phases(Flushed)) /\ Fits(Phases(Flushed).p)
    BY PhasesFit
  <2>3. <<>> \in Seq(Copies) /\ <<>> \in Seq(Titles)
    OBVIOUS
  <2>4. CASE SaveRefused /\ source' = source
    BY <1>1, <1>14, <2>1, <2>2, <2>3, <2>4 DEF SaveRefused, Save, QueuesTyped
  <2>5. CASE SaveFails /\ source' = source
    BY <1>1, <1>14, <2>2, <2>3, <2>5 DEF SaveFails, Save, QueuesTyped
  <2>6. CASE SaveSucceeds(inPlace)
    <3>1. CASE source' = source /\ patcher' \in {patcher, Phases(Flushed).p}
      BY <1>1, <1>2, <1>14, <2>2, <2>3, <2>6, <3>1 DEF SaveSucceeds, Save, QueuesTyped
    <3>2. CASE /\ source' = Package(Phases(Flushed))
               /\ patcher' = ResetAfterInPlace(Phases(Flushed).p)
      <4> DEFINE w == Phases(Flushed)
      <4> HIDE DEF w
      <4>1. source' = Package(w) /\ patcher' = ResetAfterInPlace(w.p)
        BY <3>2 DEF w
      <4>2. /\ DOMAIN patcher' = PatcherFields
            /\ patcher'.creates = w.p.creates
            /\ patcher'.copies = w.p.copies
            /\ patcher'.shifts = w.p.shifts
            /\ patcher'.adds = <<>>
        BY <2>2, <4>1 DEF ResetAfterInPlace, PatcherFields, Fits, w
      <4>3. Bounded(DOMAIN source'.parts)
        <5>1. DOMAIN source'.parts = (DOMAIN source.parts \ w.p.dels) \cup DOMAIN w.p.adds
          BY <4>1 DEF Package
        <5>2. Bounded(DOMAIN source.parts \ w.p.dels)
          BY DEF PartsApart, Bounded
        <5>3. QED
          BY <2>2, <5>1, <5>2, BoundedUnion DEF Fits, AddsAreNew, w
      <4>4. Bounded({})
        BY DEF Bounded
      <4>5. QueuesTyped'
        BY <1>14, <2>2, <2>3, <2>6, <4>2 DEF SaveSucceeds, Save, QueuesTyped, Fits, w
      <4>6. QED
        BY <4>2, <4>3, <4>4, <4>5 DEF PartsApart, AddsAreNew
    <3>3. QED
      BY <2>6, <3>1, <3>2 DEF SaveSucceeds
  <2>7. QED
    BY <1>14, <2>4, <2>5, <2>6 DEF Save
<1>15. CASE UNCHANGED vars
  BY <1>1, <1>2, <1>15 DEF vars, QueuesTyped
<1>16. QED
  BY <1>6, <1>7, <1>9, <1>10, <1>11, <1>12, <1>13, <1>14, <1>15 DEF Next

\* NeverCollides (patcher_workbook.rs:2124-2131, 1906-1911), for every workbook,
\* every session and however many calls, saves and failures: a part that waits
\* to be added is none of the source's, so the assertion of rewrite_zip_phase
\* never fails.
THEOREM PartsNeverCollide == Spec => []NeverCollides
<1>1. QueuesTyped /\ PartsApart => NeverCollides
  BY DEF PartsApart, AddsAreNew, NeverCollides
<1>2. QED
  BY <1>1, InitApart, StepApart, PTL DEF Spec

-----------------------------------------------------------------------------
(* Without copies the patcher knows the sheets that are shown, and no others. *)

Distinct(s) == \A i, j \in DOMAIN s : s[i].title = s[j].title => i = j

\* The titles of the tabs after an insertion.
LEMMA TitlesAfterInsertAt ==
  ASSUME NEW s \in Seq(Tab), NEW e \in Tab, NEW i \in 1..(Len(s) + 1),
         Distinct(s), e.title \notin TitlesOf(s)
  PROVE  /\ TitlesOf(InsertAt(s, i, e)) = TitlesOf(s) \cup {e.title}
         /\ Distinct(InsertAt(s, i, e))
<1> DEFINE r == InsertAt(s, i, e)
           n == Len(s)
           From(j) == IF j < i THEN j ELSE j - 1
<1>1. /\ r \in Seq(Tab)
      /\ Len(r) = n + 1
      /\ \A j \in 1..(n + 1) : r[j] = IF j < i THEN s[j] ELSE IF j = i THEN e ELSE s[j - 1]
  BY InsertAtProperties, SMTT(30)
<1>2. /\ n \in Nat /\ i \in 1..(n + 1)
      /\ DOMAIN s = 1..n /\ DOMAIN r = 1..(n + 1)
  BY <1>1
<1> HIDE DEF r, n
<1>3. \A j \in 1..(n + 1) : j # i => From(j) \in 1..n /\ r[j] = s[From(j)]
  BY <1>1, <1>2
<1>4. r[i] = e
  BY <1>1, <1>2
<1>5. \A j, k \in 1..(n + 1) : j # i /\ k # i /\ From(j) = From(k) => j = k
  BY <1>2
<1>6. \A k \in 1..n : \E j \in 1..(n + 1) : j # i /\ From(j) = k
  <2> SUFFICES ASSUME NEW k \in 1..n
               PROVE  \E j \in 1..(n + 1) : j # i /\ From(j) = k
    OBVIOUS
  <2>1. CASE k < i
    BY <1>2, <2>1
  <2>2. CASE ~(k < i)
    <3>1. k + 1 \in 1..(n + 1) /\ k + 1 # i /\ From(k + 1) = k
      BY <1>2, <2>2
    <3>2. QED
      BY <3>1
  <2>3. QED
    BY <2>1, <2>2
<1> HIDE DEF From
<1>7. \A k \in 1..n : s[k].title \in TitlesOf(s)
  BY <1>2 DEF TitlesOf, Promise!TitlesOf
<1>8. TitlesOf(r) = TitlesOf(s) \cup {e.title}
  <2>1. \A t \in TitlesOf(r) : t \in TitlesOf(s) \cup {e.title}
    BY <1>2, <1>3, <1>4, <1>7 DEF TitlesOf, Promise!TitlesOf
  <2>2. ASSUME NEW t \in TitlesOf(s) PROVE t \in TitlesOf(r)
    <3>1. PICK k \in 1..n : t = s[k].title
      BY <1>2 DEF TitlesOf, Promise!TitlesOf
    <3>2. PICK j \in 1..(n + 1) : j # i /\ From(j) = k
      BY <1>6
    <3>3. j \in DOMAIN r /\ t = r[j].title
      BY <1>2, <1>3, <3>1, <3>2
    <3>4. QED
      BY <3>3 DEF TitlesOf, Promise!TitlesOf
  <2>3. e.title \in TitlesOf(r)
    BY <1>2, <1>4 DEF TitlesOf, Promise!TitlesOf
  <2>4. QED
    BY <2>1, <2>2, <2>3
<1>9. Distinct(r)
  <2> SUFFICES ASSUME NEW j \in 1..(n + 1), NEW k \in 1..(n + 1), r[j].title = r[k].title
               PROVE  j = k
    BY <1>2 DEF Distinct
  <2>1. CASE j # i /\ k # i
    BY <1>2, <1>3, <1>5, <2>1 DEF Distinct
  <2>2. CASE j = i /\ k # i
    BY <1>3, <1>4, <1>7, <2>2
  <2>3. CASE j # i /\ k = i
    BY <1>3, <1>4, <1>7, <2>3
  <2>4. QED
    BY <2>1, <2>2, <2>3
<1>10. QED
  BY <1>8, <1>9 DEF r

\* The titles of the tabs after a removal.
LEMMA TitlesAfterRemoveAt ==
  ASSUME NEW s \in Seq(Tab), NEW i \in 1..Len(s), Distinct(s)
  PROVE  /\ TitlesOf(RemoveAt(s, i)) = TitlesOf(s) \ {s[i].title}
         /\ Distinct(RemoveAt(s, i))
<1> DEFINE r == RemoveAt(s, i)
           n == Len(s)
           From(j) == IF j < i THEN j ELSE j + 1
<1>1. /\ r \in Seq(Tab)
      /\ Len(r) = n - 1
      /\ \A j \in 1..(n - 1) : r[j] = IF j < i THEN s[j] ELSE s[j + 1]
  BY RemoveAtProperties
<1>2. /\ n \in Nat /\ i \in 1..n
      /\ DOMAIN s = 1..n /\ DOMAIN r = 1..(n - 1)
  BY <1>1
<1> HIDE DEF r, n
<1>3. \A j \in 1..(n - 1) : From(j) \in 1..n /\ From(j) # i /\ r[j] = s[From(j)]
  BY <1>1, <1>2
<1>4. \A j, k \in 1..(n - 1) : From(j) = From(k) => j = k
  BY <1>2
<1>5. \A k \in 1..n : k # i => \E j \in 1..(n - 1) : From(j) = k
  <2> SUFFICES ASSUME NEW k \in 1..n, k # i
               PROVE  \E j \in 1..(n - 1) : From(j) = k
    OBVIOUS
  <2>1. CASE k < i
    <3>1. k \in 1..(n - 1) /\ From(k) = k
      BY <1>2, <2>1
    <3>2. QED
      BY <3>1
  <2>2. CASE ~(k < i)
    <3>1. k - 1 \in 1..(n - 1) /\ From(k - 1) = k
      BY <1>2, <2>2
    <3>2. QED
      BY <3>1
  <2>3. QED
    BY <2>1, <2>2
<1> HIDE DEF From
<1>6. TitlesOf(r) = TitlesOf(s) \ {s[i].title}
  <2>1. \A t \in TitlesOf(r) : t \in TitlesOf(s) \ {s[i].title}
    BY <1>2, <1>3 DEF TitlesOf, Promise!TitlesOf, Distinct
  <2>2. ASSUME NEW t \in TitlesOf(s) \ {s[i].title} PROVE t \in TitlesOf(r)
    <3>1. PICK k \in 1..n : t = s[k].title
      BY <1>2 DEF TitlesOf, Promise!TitlesOf
    <3>2. PICK j \in 1..(n - 1) : From(j) = k
      BY <1>5, <3>1
    <3>3. j \in DOMAIN r /\ t = r[j].title
      BY <1>2, <1>3, <3>1, <3>2
    <3>4. QED
      BY <3>3 DEF TitlesOf, Promise!TitlesOf
  <2>3. QED
    BY <2>1, <2>2
<1>7. Distinct(r)
  BY <1>2, <1>3, <1>4 DEF Distinct
<1>8. QED
  BY <1>6, <1>7 DEF r

\* The titles of the tabs after one of them changes.
LEMMA TitlesAfterRetitle ==
  ASSUME NEW s \in Seq(Tab), NEW i \in DOMAIN s, NEW new \in Titles,
         Distinct(s), new \notin TitlesOf(s)
  PROVE  LET r == [s EXCEPT ![i].title = new]
         IN /\ TitlesOf(r) = (TitlesOf(s) \ {s[i].title}) \cup {new}
            /\ Distinct(r)
<1> DEFINE r == [s EXCEPT ![i].title = new]
<1>1. /\ DOMAIN r = DOMAIN s
      /\ r[i].title = new
      /\ \A j \in DOMAIN s : j # i => r[j] = s[j]
  <2>1. s[i] \in Tab
    OBVIOUS
  <2>2. r = [s EXCEPT ![i] = [s[i] EXCEPT !.title = new]]
    OBVIOUS
  <2>3. [s[i] EXCEPT !.title = new].title = new
    BY <2>1 DEF Tab
  <2> HIDE DEF r
  <2>4. QED
    BY <2>2, <2>3
<1> HIDE DEF r
<1>2. QED
  BY <1>1 DEF TitlesOf, Promise!TitlesOf, Distinct, r

\* Holds in the sessions without copies.
KnowsItsTabs == /\ sheetCopies = <<>> /\ patcher.copies = <<>>
                /\ Distinct(tabs)
                /\ DOMAIN patcher.paths = TitlesOf(tabs)
                /\ \A t \in ToSet(patcher.creates) : /\ t \in DOMAIN patcher.paths
                                                     /\ patcher.paths[t] = Pending
                                                     /\ t \in createdTitles

Known == "copy" \notin session.calls => KnowsItsTabs /\ outcome # "refused"

\* The patcher knows the tabs of a workbook that was just loaded.
LEMMA InitKnown == Init => Known
<1> SUFFICES ASSUME Init PROVE KnowsItsTabs /\ outcome # "refused"
  BY DEF Known
<1>1. /\ patcher.creates = <<>> /\ patcher.copies = <<>>
      /\ DOMAIN patcher.paths = ToSet(Loaded)
  BY DEF Init, OpenPatcher
<1>2. DOMAIN Loaded = 1..Len(Loaded)
  BY TitlesAssumption
<1>3. tabs = [i \in 1..Len(Loaded) |->
                [title |-> Loaded[i], content |-> [of |-> Loaded[i], shifts |-> 0]]]
  BY <1>2 DEF Init, LoadedPackage, Shown
<1>4. Distinct(tabs)
  BY <1>2, <1>3, TitlesAssumption DEF Distinct, IsInjective
<1>5. TitlesOf(tabs) = ToSet(Loaded)
  BY <1>2, <1>3 DEF TitlesOf, Promise!TitlesOf, ToSet
<1>6. ToSet(patcher.creates) = {}
  BY <1>1 DEF ToSet
<1>7. sheetCopies = <<>> /\ outcome = "done"
  BY DEF Init
<1>8. QED
  BY <1>1, <1>4, <1>5, <1>6, <1>7 DEF KnowsItsTabs

\* No call on a shown sheet is turned down.
LEMMA CallsKnown ==
  ASSUME QueuesTyped, PartsApart, KnowsItsTabs, "copy" \notin session.calls,
         Next, ~(\E inPlace \in BOOLEAN : Save(inPlace))
  PROVE  KnowsItsTabs' /\ outcome' # "refused"
<1>1. ASSUME NEW i \in DOMAIN tabs
      PROVE  /\ i \in 1..Len(tabs) /\ tabs[i] \in Tab /\ tabs[i].title \in Titles
             /\ tabs[i].title \in TitlesOf(tabs)
  <2>1. i \in 1..Len(tabs) /\ tabs[i] \in Tab
    BY DEF QueuesTyped
  <2>2. QED
    BY <2>1 DEF Tab, TitlesOf, Promise!TitlesOf
<1>2. ASSUME NEW title \in Unused
      PROVE  title \in Titles /\ title \notin TitlesOf(tabs)
  BY DEF Unused, TitlesOf
<1>3. patcher.creates \in Seq(Titles) /\ DOMAIN patcher = PatcherFields
  BY DEF QueuesTyped
<1>4. ASSUME NEW title \in Unused, NEW at \in 1..(Len(tabs) + 1), Create(title, at)
      PROVE  KnowsItsTabs' /\ outcome' # "refused"
  <2> DEFINE tab  == [title |-> title, content |-> Promise!Blank]
             next == QueueCreate(patcher, title, at)
  <2>1. CanQueueCreate(patcher, title)
    BY <1>2 DEF CanQueueCreate, KnowsItsTabs
  <2>2. tab \in Tab /\ tab.title = title
    BY <1>2 DEF Tab, Promise!Blank, Promise!Contents
  <2>3. /\ DOMAIN next = PatcherFields
        /\ next.creates = Append(patcher.creates, title)
        /\ next.copies = patcher.copies
        /\ next.paths = With(patcher.paths, title, Pending)
    BY <1>3, QueueCreateKeeps
  <2>4. tabs' = InsertAt(tabs, at, tab) /\ patcher' = next /\ outcome' = "done"
        /\ createdTitles' = createdTitles \cup {title} /\ sheetCopies' = sheetCopies
    BY <1>4, <2>1 DEF Create
  <2> HIDE DEF tab, next
  <2>5. /\ TitlesOf(tabs') = TitlesOf(tabs) \cup {title}
        /\ Distinct(tabs')
    BY <1>2, <2>2, <2>4, TitlesAfterInsertAt DEF QueuesTyped, KnowsItsTabs
  <2>6. ToSet(patcher'.creates) = ToSet(patcher.creates) \cup {title}
    <3>1. ToSet(Append(patcher.creates, title)) = ToSet(patcher.creates) \cup {title}
      BY <1>2, <1>3, ToSetAppend
    <3>2. QED
      BY <2>3, <2>4, <3>1
  <2>7. /\ DOMAIN patcher'.paths = DOMAIN patcher.paths \cup {title}
        /\ \A t \in DOMAIN patcher'.paths :
             patcher'.paths[t] = IF t = title THEN Pending ELSE patcher.paths[t]
    BY <2>3, <2>4 DEF With
  <2>8. QED
    BY <2>3, <2>4, <2>5, <2>6, <2>7 DEF KnowsItsTabs
<1>5. ASSUME NEW old \in Titles
      PROVE  LET q == QueueDelete(patcher, old)
             IN /\ DOMAIN q = PatcherFields
                /\ q.copies = patcher.copies
                /\ DOMAIN q.paths = DOMAIN patcher.paths \ {old}
                /\ \A t \in DOMAIN q.paths : q.paths[t] = patcher.paths[t]
                /\ q.creates \in Seq(Titles)
                /\ ToSet(q.creates) \subseteq ToSet(patcher.creates) \ {old}
  <2> DEFINE q == QueueDelete(patcher, old)
  <2>1. /\ Dropping(patcher.creates, old) \in Seq(Titles)
        /\ ToSet(Dropping(patcher.creates, old)) \subseteq ToSet(patcher.creates) \ {old}
    BY <1>3, DroppingProperties
  <2>2. /\ DOMAIN q = PatcherFields
        /\ q.creates = IF patcher.paths[old] = Pending THEN Dropping(patcher.creates, old)
                                                       ELSE patcher.creates
        /\ q.copies = patcher.copies
        /\ q.paths = Without(patcher.paths, {old})
    BY <1>3, QueueDeleteKeeps
  <2> HIDE DEF q
  <2>3. patcher.paths[old] # Pending => old \notin ToSet(patcher.creates)
    BY DEF KnowsItsTabs
  <2>4. /\ DOMAIN q.paths = DOMAIN patcher.paths \ {old}
        /\ \A t \in DOMAIN q.paths : q.paths[t] = patcher.paths[t]
    BY <2>2 DEF Without
  <2>5. QED
    BY <1>3, <2>1, <2>2, <2>3, <2>4 DEF q
<1>6. ASSUME NEW i \in DOMAIN tabs, RemoveSheet(i)
      PROVE  KnowsItsTabs' /\ outcome' # "refused"
  <2> DEFINE old  == tabs[i].title
             next == QueueDelete(patcher, old)
  <2>1. old \in Titles /\ old \in DOMAIN patcher.paths
    BY <1>1 DEF KnowsItsTabs
  <2>2. /\ patcher' = next /\ tabs' = RemoveAt(tabs, i) /\ outcome' = "done"
        /\ createdTitles' = createdTitles \ {old} /\ sheetCopies' = sheetCopies
    BY <1>6, <2>1 DEF RemoveSheet
  <2>3. /\ TitlesOf(tabs') = TitlesOf(tabs) \ {old}
        /\ Distinct(tabs')
    BY <1>1, <2>2, TitlesAfterRemoveAt DEF QueuesTyped, KnowsItsTabs
  <2>4. /\ next.copies = patcher.copies
        /\ DOMAIN next.paths = DOMAIN patcher.paths \ {old}
        /\ \A t \in DOMAIN next.paths : next.paths[t] = patcher.paths[t]
        /\ ToSet(next.creates) \subseteq ToSet(patcher.creates) \ {old}
    BY <1>5, <2>1
  <2> HIDE DEF old, next
  <2>5. QED
    BY <2>2, <2>3, <2>4 DEF KnowsItsTabs
<1>7. ASSUME NEW i \in DOMAIN tabs, NEW new \in Titles, new \notin TitlesOf(tabs)
      PROVE  LET r == [tabs EXCEPT ![i].title = new]
             IN /\ TitlesOf(r) = (TitlesOf(tabs) \ {tabs[i].title}) \cup {new}
                /\ Distinct(r)
  <2>1. tabs \in Seq(Tab) /\ Distinct(tabs)
    BY DEF QueuesTyped, KnowsItsTabs
  <2>2. QED
    BY <1>7, <2>1, TitlesAfterRetitle
<1>8. ASSUME NEW i \in DOMAIN tabs, NEW new \in Unused, Retitle(i, new)
      PROVE  KnowsItsTabs' /\ outcome' # "refused"
  <2> DEFINE old     == tabs[i].title
             dropped == QueueDelete(patcher, old)
             next    == QueueCreate(dropped, new, i)
  <2>1. /\ old \in Titles /\ new \in Titles /\ new \notin TitlesOf(tabs)
        /\ old \in DOMAIN patcher.paths
    BY <1>1, <1>2 DEF KnowsItsTabs
  <2>2. /\ DOMAIN dropped = PatcherFields
        /\ dropped.copies = patcher.copies
        /\ DOMAIN dropped.paths = DOMAIN patcher.paths \ {old}
        /\ \A t \in DOMAIN dropped.paths : dropped.paths[t] = patcher.paths[t]
        /\ dropped.creates \in Seq(Titles)
        /\ ToSet(dropped.creates) \subseteq ToSet(patcher.creates) \ {old}
    BY <1>5, <2>1
  <2>3. CanQueueCreate(dropped, new)
    BY <2>1, <2>2 DEF CanQueueCreate, KnowsItsTabs
  <2>4. /\ patcher' = next /\ tabs' = [tabs EXCEPT ![i].title = new] /\ outcome' = "done"
        /\ createdTitles' = (createdTitles \ {old}) \cup {new}
        /\ sheetCopies' = sheetCopies
    BY <1>8, <2>1, <2>3 DEF Retitle
  <2>5. /\ TitlesOf(tabs') = (TitlesOf(tabs) \ {old}) \cup {new}
        /\ Distinct(tabs')
    BY <1>7, <2>1, <2>4
  <2> HIDE DEF old, dropped
  <2>6. /\ next.creates = Append(dropped.creates, new)
        /\ next.copies = dropped.copies
        /\ next.paths = With(dropped.paths, new, Pending)
    BY <2>2, QueueCreateKeeps
  <2> HIDE DEF next
  <2>7. ToSet(next.creates) = ToSet(dropped.creates) \cup {new}
    BY <2>1, <2>2, <2>6, ToSetAppend
  <2>8. /\ DOMAIN next.paths = DOMAIN dropped.paths \cup {new}
        /\ \A t \in DOMAIN next.paths :
             next.paths[t] = IF t = new THEN Pending ELSE dropped.paths[t]
    BY <2>6 DEF With
  <2>9. QED
    BY <2>2, <2>4, <2>5, <2>6, <2>7, <2>8 DEF KnowsItsTabs
<1>9. ASSUME NEW i \in DOMAIN tabs, NEW new \in Unused, Rename(i, new)
      PROVE  KnowsItsTabs' /\ outcome' # "refused"
  <2> DEFINE old  == tabs[i].title
             next == QueueRename(patcher, old, new)
  <2>1. /\ old \in Titles /\ new \in Titles /\ new \notin TitlesOf(tabs)
        /\ old \in DOMAIN patcher.paths /\ new \notin DOMAIN patcher.paths
    BY <1>1, <1>2 DEF KnowsItsTabs
  <2>2. old \notin ToSet(patcher.creates)
    BY <1>9 DEF Rename, KnowsItsTabs
  <2>3. /\ patcher' = next /\ tabs' = [tabs EXCEPT ![i].title = new] /\ outcome' = "done"
        /\ createdTitles' = createdTitles /\ sheetCopies' = sheetCopies
    BY <1>9, <2>1 DEF Rename
  <2>4. /\ TitlesOf(tabs') = (TitlesOf(tabs) \ {old}) \cup {new}
        /\ Distinct(tabs')
    BY <1>7, <2>1, <2>3
  <2> HIDE DEF old
  <2>5. /\ next.creates = patcher.creates
        /\ next.copies = patcher.copies
        /\ next.paths = With(Without(patcher.paths, {old}), new, patcher.paths[old])
    BY <1>3 DEF QueueRename, PatcherFields
  <2> HIDE DEF next
  <2>6. /\ DOMAIN next.paths = (DOMAIN patcher.paths \ {old}) \cup {new}
        /\ \A t \in DOMAIN patcher.paths \ {old} : next.paths[t] = patcher.paths[t]
    BY <2>1, <2>5 DEF With, Without
  <2>7. QED
    BY <2>2, <2>3, <2>4, <2>5, <2>6 DEF KnowsItsTabs
<1>10. ASSUME NEW i \in DOMAIN tabs, NEW offset \in Offsets, MoveSheet(i, offset)
       PROVE  KnowsItsTabs' /\ outcome' # "refused"
  <2> DEFINE rest == RemoveAt(tabs, i)
             to   == Target(tabs, i, offset)
  <2>1. rest \in Seq(Tab) /\ Len(rest) = Len(tabs) - 1
    BY <1>1, RemoveAtProperties DEF QueuesTyped
  <2>2. to \in 1..Len(tabs)
    BY <1>1, TargetInRange, TitlesAssumption DEF QueuesTyped
  <2>3. TitlesOf(rest) = TitlesOf(tabs) \ {tabs[i].title} /\ Distinct(rest)
    BY <1>1, TitlesAfterRemoveAt DEF QueuesTyped, KnowsItsTabs
  <2>4. /\ tabs' = InsertAt(rest, to, tabs[i]) /\ outcome' = "done"
        /\ createdTitles' = createdTitles /\ sheetCopies' = sheetCopies
    BY <1>10 DEF MoveSheet
  <2> HIDE DEF rest, to
  <2>5. to \in 1..(Len(rest) + 1)
    BY <2>1, <2>2 DEF QueuesTyped
  <2>6. TitlesOf(tabs') = TitlesOf(rest) \cup {tabs[i].title} /\ Distinct(tabs')
    BY <1>1, <2>1, <2>3, <2>4, <2>5, TitlesAfterInsertAt
  <2>7. TitlesOf(tabs') = TitlesOf(tabs)
    BY <1>1, <2>3, <2>6
  <2>8. /\ patcher'.creates = patcher.creates
        /\ patcher'.copies = patcher.copies
        /\ patcher'.paths = patcher.paths
    BY <1>3, <1>10 DEF MoveSheet, PatcherFields
  <2>9. QED
    BY <2>4, <2>6, <2>7, <2>8 DEF KnowsItsTabs
<1>11. ASSUME NEW i \in DOMAIN tabs, NEW dst, CopyWorksheet(i, dst)
       PROVE  FALSE
  BY <1>11 DEF CopyWorksheet, Call
<1>12. ASSUME NEW i \in DOMAIN tabs, InsertRows(i)
       PROVE  KnowsItsTabs' /\ outcome' # "refused"
  <2>1. /\ tabs' = [tabs EXCEPT ![i].content = Promise!Shifted(@)] /\ outcome' = "done"
        /\ patcher' = patcher /\ createdTitles' = createdTitles /\ sheetCopies' = sheetCopies
    BY <1>12 DEF InsertRows
  <2>2. tabs' = [tabs EXCEPT ![i] = [tabs[i] EXCEPT !.content = Promise!Shifted(@)]]
    BY <2>1
  <2>3. [tabs[i] EXCEPT !.content = Promise!Shifted(@)].title = tabs[i].title
    BY <1>1 DEF Tab
  <2>4. DOMAIN tabs' = DOMAIN tabs /\ \A j \in DOMAIN tabs : tabs'[j].title = tabs[j].title
    BY <2>2, <2>3
  <2>5. TitlesOf(tabs') = TitlesOf(tabs) /\ Distinct(tabs')
    BY <2>4 DEF TitlesOf, Promise!TitlesOf, Distinct, KnowsItsTabs
  <2>6. QED
    BY <2>1, <2>5 DEF KnowsItsTabs
<1>13. QED
  BY <1>4, <1>6, <1>8, <1>9, <1>10, <1>11, <1>12 DEF Next

\* Nor is a save.
LEMMA SavesKnown ==
  ASSUME QueuesTyped, PartsApart, KnowsItsTabs, NEW inPlace \in BOOLEAN, Save(inPlace)
  PROVE  KnowsItsTabs' /\ outcome' # "refused"
<1> DEFINE w == Phases(Flushed)
<1>1. /\ FlushCopies.ok /\ FlushCopies.p = patcher /\ Flushed.copies = <<>>
      /\ Flushed.creates = patcher.creates
  BY FlushedFits DEF KnowsItsTabs
<1>2. /\ w.ok /\ w.p.copies = <<>> /\ w.p.creates = <<>>
      /\ DOMAIN w.p.paths = DOMAIN patcher.paths
      /\ ~Collides(w)
  <2>1. ToSet(patcher.creates) \subseteq DOMAIN patcher.paths
    BY DEF KnowsItsTabs
  <2>2. QED
    BY <1>1, <2>1, PhasesFit DEF Collides, Allocates, AddsAreNew
<1>3. tabs' = tabs /\ sheetCopies' = <<>>
  BY <1>1, <1>2 DEF Save, SaveRefused, SaveFails, SaveSucceeds
<1>4. ASSUME patcher'.copies = <<>>, patcher'.creates = <<>>,
             DOMAIN patcher'.paths = DOMAIN patcher.paths
      PROVE  KnowsItsTabs'
  <2>1. ToSet(patcher'.creates) = {}
    BY <1>4 DEF ToSet
  <2>2. QED
    BY <1>3, <1>4, <2>1 DEF KnowsItsTabs
<1>5. ~SaveRefused
  BY <1>1, <1>2 DEF SaveRefused
<1>6. CASE SaveFails /\ outcome' = "failed"
  BY <1>2, <1>4, <1>6 DEF SaveFails
<1>7. CASE SaveSucceeds(inPlace) /\ outcome' = "done"
  <2>1. CASE ~HasPendingWork(Flushed)
    <3>1. patcher.creates = <<>>
      BY <1>1, <2>1 DEF HasPendingWork
    <3>2. patcher' = patcher
      BY <1>7, <2>1 DEF SaveSucceeds
    <3>3. QED
      BY <1>4, <1>7, <3>1, <3>2 DEF KnowsItsTabs
  <2>2. CASE HasPendingWork(Flushed)
    <3>1. patcher' = w.p \/ patcher' = ResetAfterInPlace(w.p)
      BY <1>7, <2>2 DEF SaveSucceeds
    <3>2. DOMAIN w.p = PatcherFields
      BY PhasesFit DEF Fits
    <3> HIDE DEF w
    <3>3. /\ patcher'.copies = w.p.copies
          /\ patcher'.creates = w.p.creates
          /\ patcher'.paths = w.p.paths
      BY <3>1, <3>2 DEF ResetAfterInPlace, PatcherFields
    <3>4. QED
      BY <1>2, <1>4, <1>7, <3>3
  <2>3. QED
    BY <2>1, <2>2
<1>8. QED
  BY <1>5, <1>6, <1>7 DEF Save

\* NothingRefused (mod.rs:1175-1287, patcher_workbook.rs:264-377, 709-805), for
\* every workbook and every session without copies, however long: the titles
\* the patcher knows are the titles shown, so no call on a shown sheet and no
\* save is turned down.
THEOREM NothingIsRefused == Spec => []NothingRefused
<1>1. QueuesTyped /\ PartsApart /\ Known /\ [Next]_vars => Known'
  <2> SUFFICES ASSUME QueuesTyped, PartsApart, Known, [Next]_vars,
                      "copy" \notin session'.calls
               PROVE  KnowsItsTabs' /\ outcome' # "refused"
    BY DEF Known
  <2>1. session' = session
    BY DEF Next, vars, Call, Save, Create, RemoveSheet, Retitle, Rename, MoveSheet,
           CopyWorksheet, InsertRows
  <2>2. KnowsItsTabs /\ outcome # "refused"
    BY <2>1 DEF Known
  <2>3. CASE UNCHANGED vars
    BY <2>2, <2>3 DEF vars, KnowsItsTabs
  <2>4. CASE Next
    BY <2>1, <2>2, <2>4, CallsKnown, SavesKnown
  <2>5. QED
    BY <2>3, <2>4
<1>2. Known => NothingRefused
  BY DEF Known, NothingRefused
<1>3. QED
  BY <1>1, <1>2, InitApart, StepApart, InitKnown, PTL DEF Spec


-----------------------------------------------------------------------------
(* In sessions whose additions reach the source every sheet has its own part.
   First the phases of a save. *)

\* The sheets that are not only queued.
Placed(p) == {t \in DOMAIN p.paths : p.paths[t] # Pending}

OwnParts(p, parts) ==
  /\ \A t \in Placed(p) : p.paths[t] \in parts
  /\ \A t, u \in Placed(p) : p.paths[t] = p.paths[u] => t = u

\* What a phase may give out: the next part is nobody's, and no sheet's part goes.
Hands(w) ==
  /\ Allocates(w)
  /\ w.next # Pending
  /\ \A k \in DOMAIN w.p.adds : k \in Nat /\ k < w.next
  /\ OwnParts(w.p, DOMAIN source.parts \cup DOMAIN w.p.adds)
  /\ w.p.dels \subseteq DOMAIN source.parts
  /\ \A t \in Placed(w.p) : w.p.paths[t] \notin w.p.dels

\* The queues that creations and copies leave alone.
SameRest(p, q) ==
  /\ p.order = q.order /\ p.deletedPaths = q.deletedPaths /\ p.deletes = q.deletes
  /\ p.renames = q.renames /\ p.moves = q.moves /\ p.dels = q.dels

\* The entries of a <sheet> list have titles.
Titled(s) == \A e \in ToSet(s) : "title" \in DOMAIN e

\* Every part has a content.
Whole(f) == \A k \in DOMAIN f : f[k] \in Promise!Contents

\* A phase that changes neither parts nor paths hands out as before.
LEMMA SameHands ==
  ASSUME NEW w, Hands(w), NEW v, Allocates(v), v.next = w.next,
         v.p.adds = w.p.adds, v.p.paths = w.p.paths, v.p.dels = w.p.dels
  PROVE  Hands(v)
BY DEF Hands, OwnParts, Placed

\* A sheet that is added has the next part, and is at the end of the list.
LEMMA AddSheetHands ==
  ASSUME NEW w, Hands(w), NEW title, NEW content
  PROVE  LET v == AddSheet(w, title, content)
         IN /\ Hands(v)
            /\ SameRest(v.p, w.p) /\ SameQueues(v.p, w.p)
            /\ v.ok = w.ok /\ v.patches = w.patches
            /\ DOMAIN v.p.paths = DOMAIN w.p.paths \cup {title}
            /\ Placed(v.p) = Placed(w.p) \cup {title}
            /\ IsList(w.sheets) =>
                 IsList(v.sheets) /\ TitlesOf(v.sheets) = TitlesOf(w.sheets) \cup {title}
            /\ IsList(w.sheets) /\ Titled(w.sheets) => Titled(v.sheets)
            /\ Whole(w.p.adds) /\ content \in Promise!Contents => Whole(v.p.adds)
<1> DEFINE v == AddSheet(w, title, content)
           entry == [title |-> title, rid |-> Graph(w.p).next]
<1>1. /\ DOMAIN w = {"p", "sheets", "patches", "next", "ok"}
      /\ DOMAIN w.p = PatcherFields
      /\ w.next \in Nat
  BY DEF Hands, Allocates
<1>2. /\ v.next = w.next + 1
      /\ v.patches = w.patches
      /\ v.sheets = Append(w.sheets, entry)
      /\ v.p.adds = With(w.p.adds, w.next, content)
      /\ v.p.paths = With(w.p.paths, title, w.next)
      /\ SameRest(v.p, w.p)
  BY <1>1 DEF AddSheet, PatcherFields, SameRest
<1>3. /\ Allocates(v)
      /\ SameQueues(v.p, w.p)
      /\ v.ok = w.ok
      /\ DOMAIN v.p.paths = DOMAIN w.p.paths \cup {title}
  BY AddSheetAllocates DEF Hands
<1>4. entry.title = title /\ "title" \in DOMAIN entry
  OBVIOUS
<1> HIDE DEF v, entry
<1>5. /\ DOMAIN v.p.adds = DOMAIN w.p.adds \cup {w.next}
      /\ \A k \in DOMAIN v.p.adds :
           v.p.adds[k] = IF k = w.next THEN content ELSE w.p.adds[k]
      /\ \A t \in DOMAIN v.p.paths :
           v.p.paths[t] = IF t = title THEN w.next ELSE w.p.paths[t]
  BY <1>2 DEF With
<1>6. Placed(v.p) = Placed(w.p) \cup {title}
  BY <1>3, <1>5 DEF Placed, Hands
<1>7. \A t \in Placed(w.p) : w.p.paths[t] # w.next
  <2>1. \A k \in DOMAIN source.parts \cup DOMAIN w.p.adds : k \in Nat /\ k < w.next
    BY DEF Hands, Allocates
  <2>2. \A t \in Placed(w.p) : w.p.paths[t] \in DOMAIN source.parts \cup DOMAIN w.p.adds
    BY DEF Hands, OwnParts
  <2>3. QED
    BY <1>1, <2>1, <2>2
<1>8. OwnParts(v.p, DOMAIN source.parts \cup DOMAIN v.p.adds)
  <2>1. \A t \in Placed(v.p) : t \in DOMAIN v.p.paths
    BY DEF Placed
  <2>2. \A t \in Placed(v.p) : v.p.paths[t] \in DOMAIN source.parts \cup DOMAIN v.p.adds
    BY <1>5, <1>6, <2>1 DEF Hands, OwnParts
  <2>3. ASSUME NEW t \in Placed(v.p), NEW u \in Placed(v.p), v.p.paths[t] = v.p.paths[u]
        PROVE  t = u
    <3>1. CASE t = title \/ u = title
      BY <1>5, <1>6, <1>7, <2>1, <2>3, <3>1
    <3>2. CASE t # title /\ u # title
      <4>1. t \in Placed(w.p) /\ u \in Placed(w.p) /\ w.p.paths[t] = w.p.paths[u]
        BY <1>5, <1>6, <2>1, <2>3, <3>2
      <4>2. QED
        BY <4>1 DEF Hands, OwnParts
    <3>3. QED
      BY <3>1, <3>2
  <2>4. QED
    BY <2>2, <2>3 DEF OwnParts
<1>9. \A k \in DOMAIN v.p.adds : k \in Nat /\ k < v.next
  BY <1>1, <1>2, <1>5 DEF Hands
<1>10. v.p.dels = w.p.dels /\ w.p.dels \subseteq DOMAIN source.parts
  BY <1>2 DEF SameRest, Hands
<1>11. \A t \in Placed(v.p) : v.p.paths[t] \notin v.p.dels
  <2>1. w.next \notin DOMAIN source.parts
    BY <1>1 DEF Hands, Allocates
  <2>2. \A t \in Placed(v.p) : t \in DOMAIN v.p.paths
    BY DEF Placed
  <2>3. QED
    BY <1>5, <1>6, <1>10, <2>1, <2>2 DEF Hands
<1>12. v.next # Pending
  BY <1>1, <1>2 DEF Pending
<1>13. Hands(v)
  BY <1>3, <1>8, <1>9, <1>10, <1>11, <1>12 DEF Hands
<1>14. IsList(w.sheets) =>
         /\ IsList(v.sheets) /\ TitlesOf(v.sheets) = TitlesOf(w.sheets) \cup {title}
         /\ Titled(w.sheets) => Titled(v.sheets)
  <2> SUFFICES ASSUME IsList(w.sheets)
               PROVE  /\ IsList(v.sheets)
                      /\ TitlesOf(v.sheets) = TitlesOf(w.sheets) \cup {title}
                      /\ Titled(w.sheets) => Titled(v.sheets)
    OBVIOUS
  <2>1. IsList(v.sheets) /\ ToSet(v.sheets) = ToSet(w.sheets) \cup {entry}
    BY <1>2, AppendElements
  <2>2. TitlesOf(v.sheets) = TitlesOf(w.sheets) \cup {title}
    BY <1>4, <2>1, TitlesOfElements
  <2>3. Titled(w.sheets) => Titled(v.sheets)
    BY <1>4, <2>1 DEF Titled
  <2>4. QED
    BY <2>1, <2>2, <2>3
<1>15. Whole(w.p.adds) /\ content \in Promise!Contents => Whole(v.p.adds)
  BY <1>5 DEF Whole
<1>16. QED
  BY <1>2, <1>3, <1>6, <1>13, <1>14, <1>15 DEF v

\* No sheet has the part of a deleted one, and parts are deleted with their titles.
DeletedApart(p, parts) ==
  /\ IsList(p.deletes)
  /\ p.deletes = <<>> => DOMAIN p.deletedPaths = {}
  /\ \A d \in DOMAIN p.deletedPaths :
       /\ p.deletedPaths[d] \in parts
       /\ \A t \in Placed(p) : p.paths[t] # p.deletedPaths[d]

\* What copies need: the sheets that the patcher knows are in the <sheet> list or
\* queued with a position, and there is nothing else in the list.
Ready(p, sheets) ==
  /\ IsList(sheets) /\ Titled(sheets) /\ IsList(p.order)
  /\ Placed(p) = TitlesOf(sheets) \ ToSet(p.deletes)
  /\ ToSet(p.creates) = DOMAIN p.paths \ Placed(p)
  /\ ToSet(p.creates) \subseteq ToSet(p.order)
  /\ p.renames = <<>>
  /\ IsList(p.moves) /\ \A i \in DOMAIN p.moves : p.moves[i].offset \in Int

\* Only parts of deleted sheets are deleted.
DeleteStep(c, acc, title) == DeleteOne(c, acc, title)

Dropped(p) == {p.deletedPaths[d] : d \in DOMAIN p.deletedPaths}

Deletions == INSTANCE FoldInduction WITH Op <- DeleteStep,
               Good <- LAMBDA c, acc : acc.dels \subseteq c.p.dels \cup Dropped(c.p)

\* The parts the deletions drop are those of deleted sheets.
LEMMA DeletedParts ==
  ASSUME NEW w, IsList(w.p.deletes), NEW rels
  PROVE  LET end == FoldLeft(LAMBDA acc, title : DeleteOne(w, acc, title),
                             [rels |-> rels, dels |-> w.p.dels], w.p.deletes)
         IN  end.dels \subseteq w.p.dels \cup Dropped(w.p)
<1> DEFINE base == [rels |-> rels, dels |-> w.p.dels]
           end == Deletions!Folded(w, base, w.p.deletes)
<1>1. ASSUME NEW acc, NEW title, acc.dels \subseteq w.p.dels \cup Dropped(w.p)
      PROVE  DeleteOne(w, acc, title).dels \subseteq w.p.dels \cup Dropped(w.p)
  <2> DEFINE part == IF title \in DOMAIN w.p.deletedPaths
                     THEN {w.p.deletedPaths[title]} ELSE {}
  <2>1. part \subseteq Dropped(w.p)
    BY DEF Dropped
  <2> DEFINE left == Without(acc.rels, {RidOf(w.sheets, title)})
  <2>2. DeleteOne(w, acc, title) =
          [rels |-> left, dels |-> acc.dels \cup (part \ Range(left))]
    BY Zenon DEF DeleteOne
  <2> HIDE DEF left
  <2>3. DeleteOne(w, acc, title).dels = acc.dels \cup (part \ Range(left))
    BY <2>2
  <2> HIDE DEF part
  <2>4. QED
    BY <1>1, <2>1, <2>3
<1>2. w.p.deletes \in Seq(ToSet(w.p.deletes))
  BY DEF IsList
<1>3. base.dels \subseteq w.p.dels \cup Dropped(w.p)
  OBVIOUS
<1>4. end.dels \subseteq w.p.dels \cup Dropped(w.p)
  BY <1>1, <1>2, <1>3, Deletions!FoldKeeps DEF DeleteStep
<1>5. FoldLeft(LAMBDA acc, title : DeleteOne(w, acc, title), base, w.p.deletes) = end
  BY DEF FoldLeft, MapThenFoldSet, Max, DeleteStep,
         Deletions!Folded, Deletions!IsFold, Deletions!Top
<1>6. QED
  BY <1>4, <1>5

\* The order that deletions leave has every queued creation that had a position.
KeepStep(c, order, i) == KeepPosition(c, order, i)

Positioned(c, order) == IsList(order) /\ c.before \cap c.creates \subseteq ToSet(order)

Positions == INSTANCE FoldInduction WITH Op <- KeepStep, Good <- Positioned

\* The fold that keeps the positions of queued creations loses none of them.
LEMMA OrderKeepsCreations ==
  ASSUME NEW p, IsList(p.order), NEW rest, IsList(rest)
  PROVE  /\ IsList(OrderAfterDeletes(p, rest))
         /\ ToSet(p.order) \cap ToSet(p.creates) \subseteq ToSet(OrderAfterDeletes(p, rest))
<1> DEFINE n == Len(p.order)
           seq == [i \in DOMAIN p.order |-> i]
           base == [i \in DOMAIN rest |-> rest[i].title]
           Before(k) == {p.order[j] : j \in 1..k}
           C == [k \in 0..n |-> [before |-> Before(k), creates |-> ToSet(p.creates)]]
           end == Positions!Folded(p, base, seq)
<1>1. n \in Nat /\ DOMAIN p.order = 1..n
  BY Listed
<1>2. seq \in Seq(Nat) /\ Len(seq) = n /\ \A i \in 1..n : seq[i] = i
  BY <1>1
<1>3. IsList(base)
  <2>1. Len(rest) \in Nat /\ DOMAIN rest = 1..Len(rest)
    BY Listed
  <2>2. base \in [1..Len(rest) -> {rest[i].title : i \in DOMAIN rest}]
    BY <2>1
  <2> HIDE DEF base
  <2>3. base \in Seq({rest[i].title : i \in DOMAIN rest})
    BY <2>1, <2>2, FunctionIsSeq
  <2>4. QED
    BY <2>3, ListOf
<1>4. Positioned(C[0], base)
  <2>1. C[0].before = {}
    BY <1>1
  <2> HIDE DEF C, base
  <2>2. QED
    BY <1>3, <2>1 DEF Positioned
<1>5. ASSUME NEW order, NEW k \in 0..(n - 1), Positioned(C[k], order)
      PROVE  Positioned(C[k + 1], KeepStep(p, order, seq[k + 1]))
  <2> DEFINE i == k + 1
             at == Min({i, Len(order) + 1})
  <2>1. k \in 0..n /\ i \in 0..n /\ i \in 1..n /\ seq[k + 1] = i
    BY <1>1, <1>2
  <2>2. /\ C[k].before = Before(k) /\ C[k].creates = ToSet(p.creates)
        /\ C[i].before = Before(i) /\ C[i].creates = ToSet(p.creates)
    BY <2>1
  <2>3. Before(i) = Before(k) \cup {p.order[i]}
    BY <2>1
  <2> HIDE DEF C, Before, seq
  <2>4. IsList(order) /\ Before(k) \cap ToSet(p.creates) \subseteq ToSet(order)
    BY <1>5, <2>2 DEF Positioned
  <2>5. CASE p.order[i] \in ToSet(p.creates) \ ToSet(order)
    <3>1. Len(order) \in Nat
      BY <2>4, Listed
    <3>2. at \in 1..(Len(order) + 1)
      <4>1. {i, Len(order) + 1} \in SUBSET Nat /\ {i, Len(order) + 1} # {}
        BY <2>1, <3>1
      <4>2. at \in {i, Len(order) + 1} /\ \A j \in {i, Len(order) + 1} : at <= j
        BY <4>1, MinIsLeast
      <4> HIDE DEF at
      <4>3. QED
        BY <2>1, <3>1, <4>2
    <3>3. KeepStep(p, order, i) = InsertAt(order, at, p.order[i])
      BY <2>5 DEF KeepStep, KeepPosition
    <3> HIDE DEF at
    <3>4. /\ IsList(InsertAt(order, at, p.order[i]))
          /\ ToSet(InsertAt(order, at, p.order[i])) = ToSet(order) \cup {p.order[i]}
      BY <2>4, <3>2, InsertAtElements
    <3>5. QED
      BY <2>1, <2>2, <2>3, <2>4, <3>3, <3>4 DEF Positioned
  <2>6. CASE p.order[i] \notin ToSet(p.creates) \ ToSet(order)
    <3>1. KeepStep(p, order, i) = order
      BY <2>6 DEF KeepStep, KeepPosition
    <3>2. QED
      BY <2>1, <2>2, <2>3, <2>4, <2>6, <3>1 DEF Positioned
  <2>7. QED
    BY <2>5, <2>6
<1>6. Positioned(C[n], end)
  <2>1. \A order : \A k \in 0..(Len(seq) - 1) :
          Positioned(C[k], order) => Positioned(C[k + 1], KeepStep(p, order, seq[k + 1]))
    BY <1>2, <1>5
  <2>2. C[Len(seq)] = C[n]
    BY <1>2
  <2> HIDE DEF C, seq, base, n
  <2>3. QED
    BY <1>2, <1>4, <2>1, <2>2, Positions!FoldGrows
<1>7. C[n].before = ToSet(p.order) /\ C[n].creates = ToSet(p.creates)
  BY <1>1 DEF ToSet
<1>8. OrderAfterDeletes(p, rest) = end
  BY DEF OrderAfterDeletes, FoldLeftDomain, FoldLeft, MapThenFoldSet, Max, KeepStep,
         Positions!Folded, Positions!IsFold, Positions!Top
<1>9. QED
  BY <1>6, <1>7, <1>8 DEF Positioned

\* A workspace whose parts were all given out by earlier saves.
Fresh(w) ==
  /\ Allocates(w) /\ w.next # Pending
  /\ DOMAIN w.p.adds = {} /\ w.p.dels = {}
  /\ OwnParts(w.p, DOMAIN source.parts)
  /\ DeletedApart(w.p, DOMAIN source.parts)

\* A save starts with parts that no two sheets share.
LEMMA FreshHands == ASSUME NEW w, Fresh(w) PROVE Hands(w)
BY DEF Fresh, Hands, OwnParts

\* The parts of deleted sheets go, and every queue of deletions is empty.
LEMMA DeletesPhaseHands ==
  ASSUME NEW w, Fresh(w)
  PROVE  LET v == DeletesPhase(w)
         IN /\ Hands(v)
            /\ IsList(v.p.deletes) /\ ToSet(v.p.deletes) = {} /\ v.p.deletes = <<>>
            /\ DOMAIN v.p.deletedPaths = {}
            /\ v.p.renames = w.p.renames /\ v.p.moves = w.p.moves
            /\ v.p.adds = w.p.adds /\ v.patches = w.patches
            /\ v.p.paths = w.p.paths
<1> DEFINE v == DeletesPhase(w)
<1>1. CASE w.p.deletes = <<>>
  <2>1. v = w
    BY <1>1 DEF DeletesPhase
  <2>2. DOMAIN w.p.deletedPaths = {} /\ Hands(w)
    BY <1>1, FreshHands DEF Fresh, DeletedApart
  <2> HIDE DEF v
  <2>3. QED
    BY <1>1, <2>1, <2>2, NothingListed DEF v
<1>2. CASE w.p.deletes # <<>>
  <2> DEFINE end == FoldLeft(LAMBDA acc, title : DeleteOne(w, acc, title),
                             [rels |-> Graph(w.p).rels, dels |-> w.p.dels], w.p.deletes)
             rest == SheetsLeft(w.sheets, ToSet(w.p.deletes))
             graph == [Graph(w.p) EXCEPT !.rels = end.rels]
             order == OrderAfterDeletes(w.p, rest)
             dels == end.dels
  <2>1. dels \subseteq Dropped(w.p)
    <3>1. IsList(w.p.deletes) /\ w.p.dels = {}
      BY DEF Fresh, DeletedApart
    <3>2. end.dels \subseteq w.p.dels \cup Dropped(w.p)
      BY <3>1, DeletedParts
    <3> HIDE DEF end
    <3>3. QED
      BY <3>1, <3>2
  <2>2. v = [w EXCEPT !.sheets = rest,
                      !.p = [w.p EXCEPT !.graph = graph, !.dels = dels, !.order = order,
                                        !.deletes = <<>>, !.deletedPaths = <<>>]]
    BY <1>2, Zenon DEF DeletesPhase
  <2> HIDE DEF end, rest, graph, order, dels
  <2>3. /\ DOMAIN w = {"p", "sheets", "patches", "next", "ok"}
        /\ DOMAIN w.p = PatcherFields
    BY DEF Fresh, Allocates
  <2> HIDE DEF v
  <2>4. /\ v.next = w.next /\ v.patches = w.patches
        /\ v.p.dels = dels /\ v.p.deletes = <<>> /\ v.p.deletedPaths = <<>>
        /\ v.p.adds = w.p.adds /\ v.p.paths = w.p.paths
        /\ v.p.renames = w.p.renames /\ v.p.moves = w.p.moves
    BY <2>2, <2>3 DEF PatcherFields
  <2>5. Allocates(v)
    BY DeletesPhaseAllocates DEF v, Fresh
  <2>6. Placed(v.p) = Placed(w.p)
    BY <2>4 DEF Placed
  <2>7. \A x \in dels : x \in DOMAIN source.parts /\ \A t \in Placed(w.p) : w.p.paths[t] # x
    BY <2>1 DEF Dropped, Fresh, DeletedApart
  <2>8. OwnParts(v.p, DOMAIN source.parts \cup DOMAIN v.p.adds)
    BY <2>4, <2>6 DEF Fresh, OwnParts
  <2>9. Hands(v)
    BY <2>4, <2>5, <2>6, <2>7, <2>8 DEF Hands, Fresh
  <2>10. DOMAIN v.p.deletedPaths = {}
    BY <2>4
  <2>11. QED
    BY <2>4, <2>9, <2>10, NothingListed DEF v
<1>3. QED
  BY <1>1, <1>2

\* The <sheet> list loses the deleted titles, the order keeps the queued ones.
LEMMA DeletesPhaseReady ==
  ASSUME NEW w, Fresh(w), Ready(w.p, w.sheets)
  PROVE  Ready(DeletesPhase(w).p, DeletesPhase(w).sheets)
<1> DEFINE v == DeletesPhase(w)
<1>1. CASE w.p.deletes = <<>>
  BY <1>1 DEF DeletesPhase
<1>2. CASE w.p.deletes # <<>>
  <2> DEFINE gone == ToSet(w.p.deletes)
             rest == SheetsLeft(w.sheets, gone)
             order == OrderAfterDeletes(w.p, rest)
  <2>1. PICK graph, dels :
          v = [w EXCEPT !.sheets = rest,
                        !.p = [w.p EXCEPT !.graph = graph, !.dels = dels, !.order = order,
                                          !.deletes = <<>>, !.deletedPaths = <<>>]]
    BY <1>2, Zenon DEF DeletesPhase
  <2>2. /\ DOMAIN w = {"p", "sheets", "patches", "next", "ok"}
        /\ DOMAIN w.p = PatcherFields
    BY DEF Fresh, Allocates
  <2>3. IsList(rest) /\ Titled(rest) /\ TitlesOf(rest) = TitlesOf(w.sheets) \ gone
    <3> DEFINE out == {e \in ToSet(w.sheets) : e.title \in gone}
    <3>1. IsList(rest) /\ ToSet(rest) = ToSet(w.sheets) \ out
      BY LeavingIs DEF SheetsLeft, Ready
    <3> HIDE DEF rest
    <3>2. TitlesOf(rest) = {e.title : e \in ToSet(w.sheets) \ out}
      BY <3>1, TitlesOfElements
    <3>3. TitlesOf(w.sheets) = {e.title : e \in ToSet(w.sheets)}
      BY TitlesOfElements
    <3>4. Titled(rest)
      BY <3>1 DEF Titled, Ready
    <3>5. TitlesOf(rest) = TitlesOf(w.sheets) \ gone
      BY <3>2, <3>3
    <3>6. QED
      BY <3>1, <3>4, <3>5
  <2>4. IsList(order) /\ ToSet(w.p.order) \cap ToSet(w.p.creates) \subseteq ToSet(order)
    BY <2>3, OrderKeepsCreations DEF Ready
  <2> HIDE DEF v, rest, order, gone
  <2>5. /\ v.sheets = rest /\ v.p.order = order /\ v.p.deletes = <<>>
        /\ v.p.paths = w.p.paths /\ v.p.creates = w.p.creates
        /\ v.p.renames = w.p.renames /\ v.p.moves = w.p.moves
    BY <2>1, <2>2 DEF PatcherFields
  <2>6. Placed(v.p) = Placed(w.p) /\ ToSet(v.p.deletes) = {}
    BY <2>5, NothingListed DEF Placed
  <2>7. Placed(w.p) = TitlesOf(rest)
    BY <2>3 DEF Ready, gone
  <2>8. QED
    BY <2>3, <2>4, <2>5, <2>6, <2>7 DEF Ready, v
<1>3. QED
  BY <1>1, <1>2
\* Every creation hands out one part, and leaves the other queues alone.
Handing(c, acc) ==
  /\ DOMAIN acc = {"w", "made"}
  /\ Hands(acc.w)
  /\ SameRest(acc.w.p, c.p)
  /\ acc.w.patches = c.patches

\* One creation: a part of its own, and a move of the new <sheet> entry.
LEMMA CreateOneHands ==
  ASSUME NEW c, NEW acc, Handing(c, acc), NEW desired, NEW queued, NEW title
  PROVE  LET next == CreateOne(desired, queued, acc, title)
             added == AddSheet(acc.w, title, Promise!Blank)
         IN /\ Handing(c, next)
            /\ title \notin ToSet(desired) => next = acc
            /\ title \in ToSet(desired) => next.w.p = added.p
            /\ title \in ToSet(desired) /\ IsList(desired) /\ IsList(added.sheets) =>
                 IsList(next.w.sheets) /\ ToSet(next.w.sheets) = ToSet(added.sheets)
<1> DEFINE next == CreateOne(desired, queued, acc, title)
           added == AddSheet(acc.w, title, Promise!Blank)
<1>1. CASE title \notin ToSet(desired)
  BY <1>1 DEF CreateOne
<1>2. CASE title \in ToSet(desired)
  <2> DEFINE at == SelectInSeq(desired, LAMBDA t : t = title)
             before == SubSeq(desired, 1, at - 1)
             there == {i \in DOMAIN before : before[i] \notin queued \ acc.made}
             offset == Cardinality(there) + 1 - Len(added.sheets)
             move == [title |-> title, offset |-> offset]
             sheets == ApplyMove(added.sheets, move)
  <2>1. next = [made |-> acc.made \cup {title}, w |-> [added EXCEPT !.sheets = sheets]]
    BY <1>2, Zenon DEF CreateOne
  <2>2. Hands(added) /\ SameRest(added.p, acc.w.p) /\ added.patches = acc.w.patches
    BY AddSheetHands DEF Handing
  <2>3. DOMAIN added = {"p", "sheets", "patches", "next", "ok"}
    BY <2>2 DEF Hands, Allocates
  <2>4. IsList(desired) /\ IsList(added.sheets) =>
          IsList(sheets) /\ ToSet(sheets) = ToSet(added.sheets)
    <3> SUFFICES ASSUME IsList(desired), IsList(added.sheets)
                 PROVE  IsList(sheets) /\ ToSet(sheets) = ToSet(added.sheets)
      OBVIOUS
    <3>1. at \in Nat
      <4> DEFINE I == {i \in 1..Len(desired) : desired[i] = title}
      <4>1. at = IF I # {} THEN Min(I) ELSE 0
        BY DEF SelectInSeq
      <4>2. I \in SUBSET Nat
        OBVIOUS
      <4> HIDE DEF I, at
      <4>3. QED
        BY <4>1, <4>2, MinIsLeast
    <3> HIDE DEF at
    <3>2. DOMAIN before = 1..(at - 1)
      BY <3>1
    <3> HIDE DEF before
    <3>3. Cardinality(there) \in Nat
      <4>1. IsFiniteSet(1..(at - 1))
        BY <3>1, FS_Interval
      <4>2. there \subseteq 1..(at - 1)
        BY <3>2
      <4> HIDE DEF there
      <4>3. QED
        BY <4>1, <4>2, FS_Subset, FS_CardinalityType
    <3>4. Len(added.sheets) \in Nat
      BY Listed
    <3> HIDE DEF there, added
    <3>5. offset \in Int
      BY <3>3, <3>4
    <3>6. move.offset = offset
      OBVIOUS
    <3> HIDE DEF offset, move
    <3>7. QED
      BY <3>5, <3>6, ApplyMoveKeeps
  <2> HIDE DEF at, sheets, added, next
  <2>5. /\ DOMAIN next = {"w", "made"}
        /\ next.w.p = added.p /\ next.w.next = added.next
        /\ next.w.patches = added.patches /\ next.w.sheets = sheets
        /\ DOMAIN next.w = {"p", "sheets", "patches", "next", "ok"}
    BY <2>1, <2>3
  <2>6. Hands(next.w)
    <3>1. Allocates(next.w)
      BY <2>2, <2>5 DEF Allocates, Hands
    <3>2. QED
      BY <2>2, <2>5, <3>1, SameHands
  <2>7. SameRest(next.w.p, c.p) /\ next.w.patches = c.patches
    BY <2>2, <2>5 DEF Handing, SameRest
  <2>8. QED
    BY <1>2, <2>4, <2>5, <2>6, <2>7 DEF Handing, next, added
<1>3. QED
  BY <1>1, <1>2

HandStep(c, acc, title) == CreateOne(c.p.order, ToSet(c.p.creates), acc, title)

HandCreations == INSTANCE FoldInduction WITH Op <- HandStep, Good <- Handing

\* After the creations the workspace still hands out parts.
LEMMA CreatesPhaseHands ==
  ASSUME NEW w, Hands(w), w.p.creates \in Seq(Titles)
  PROVE  LET v == CreatesPhase(w)
         IN /\ Hands(v)
            /\ SameRest(v.p, w.p)
            /\ v.patches = w.patches
<1> DEFINE base == [w |-> w, made |-> {}]
           end == HandCreations!Folded(w, base, w.p.creates)
           v == CreatesPhase(w)
<1>1. Handing(w, base)
  BY DEF Handing, SameRest
<1>2. \A acc : \A i \in DOMAIN w.p.creates :
        Handing(w, acc) => Handing(w, HandStep(w, acc, w.p.creates[i]))
  BY CreateOneHands DEF HandStep
<1>3. Handing(w, end)
  BY <1>1, <1>2, HandCreations!FoldKeeps
<1>4. v = [end.w EXCEPT !.p.creates = <<>>]
  BY DEF CreatesPhase, FoldLeft, MapThenFoldSet, Max, HandStep,
         HandCreations!Folded, HandCreations!IsFold, HandCreations!Top
<1> HIDE DEF end, v
<1>5. /\ v.next = end.w.next /\ v.patches = end.w.patches
      /\ v.p.adds = end.w.p.adds /\ v.p.paths = end.w.p.paths
      /\ v.p.dels = end.w.p.dels
      /\ SameRest(v.p, end.w.p)
  BY <1>3, <1>4 DEF Handing, Hands, Allocates, PatcherFields, SameRest
<1>6. Allocates(v)
  BY CreatesPhaseAllocates DEF Hands, v
<1>7. Hands(v)
  <2>1. Hands(end.w)
    BY <1>3 DEF Handing
  <2>2. QED
    BY <1>5, <1>6, <2>1, SameHands
<1>8. SameRest(v.p, w.p) /\ v.patches = w.patches
  BY <1>3, <1>5 DEF Handing, SameRest
<1>9. QED
  BY <1>7, <1>8 DEF v

\* Of the context, the workspace before the creations and the titles that are left.
Listing(c, acc) ==
  /\ Handing(c.w, acc)
  /\ IsList(acc.w.sheets) /\ Titled(acc.w.sheets)
  /\ TitlesOf(acc.w.sheets) \subseteq DOMAIN c.w.p.paths
  /\ DOMAIN acc.w.p.paths = DOMAIN c.w.p.paths
  /\ Placed(acc.w.p) \subseteq TitlesOf(acc.w.sheets)
  /\ DOMAIN acc.w.p.paths \ Placed(acc.w.p) \subseteq c.left
  /\ Whole(acc.w.p.adds)

\* A creation puts its title in the <sheet> list and takes it from those left.
LEMMA CreateLists ==
  ASSUME NEW w, NEW acc, NEW c, NEW d, Listing(c, acc), c.w = w, d.w = w,
         NEW title \in ToSet(w.p.order), title \in DOMAIN w.p.paths,
         c.left \subseteq d.left \cup {title}, IsList(w.p.order)
  PROVE  Listing(d, HandStep(w, acc, title))
<1> DEFINE added == AddSheet(acc.w, title, Promise!Blank)
           next == HandStep(w, acc, title)
<1>1. /\ Handing(w, acc) /\ Whole(acc.w.p.adds)
      /\ IsList(acc.w.sheets) /\ Titled(acc.w.sheets)
  BY DEF Listing
<1>2. Promise!Blank \in Promise!Contents
  BY DEF Promise!Blank, Promise!Contents
<1>3. Hands(acc.w)
  BY <1>1 DEF Handing
<1>4. /\ DOMAIN added.p.paths = DOMAIN acc.w.p.paths \cup {title}
      /\ Placed(added.p) = Placed(acc.w.p) \cup {title}
      /\ IsList(added.sheets) /\ Titled(added.sheets)
      /\ TitlesOf(added.sheets) = TitlesOf(acc.w.sheets) \cup {title}
      /\ Whole(added.p.adds)
  BY <1>1, <1>2, <1>3, AddSheetHands
<1>5. /\ Handing(w, next)
      /\ next.w.p = added.p
      /\ IsList(next.w.sheets) /\ ToSet(next.w.sheets) = ToSet(added.sheets)
  BY <1>1, <1>4, CreateOneHands DEF HandStep
<1> HIDE DEF added, next
<1>6. TitlesOf(next.w.sheets) = TitlesOf(added.sheets) /\ Titled(next.w.sheets)
  BY <1>4, <1>5, TitlesOfElements DEF Titled
<1>7. QED
  BY <1>4, <1>5, <1>6 DEF Listing, next

\* The sheets that the patcher knows have parts, and are those of the <sheet> list.
Settled(w) ==
  /\ IsList(w.sheets) /\ Titled(w.sheets) /\ IsList(w.p.order)
  /\ TitlesOf(w.sheets) = DOMAIN w.p.paths
  /\ Placed(w.p) = DOMAIN w.p.paths
  /\ Whole(w.p.adds) /\ Whole(w.patches)
  /\ IsList(w.p.moves) /\ \A i \in DOMAIN w.p.moves : w.p.moves[i].offset \in Int

Listings == INSTANCE FoldInduction WITH Op <- HandStep, Good <- Listing

\* After the creations no sheet is only queued.
LEMMA CreatesPhaseSettles ==
  ASSUME NEW w, Hands(w), w.p.creates \in Seq(Titles), Ready(w.p, w.sheets),
         ToSet(w.p.deletes) = {}, DOMAIN w.p.adds = {}, DOMAIN w.patches = {}
  PROVE  Settled(CreatesPhase(w))
<1> DEFINE n == Len(w.p.creates)
           Left(k) == {w.p.creates[j] : j \in (k + 1)..n}
           C == [k \in 0..n |-> [w |-> w, left |-> Left(k)]]
           base == [w |-> w, made |-> {}]
           end == Listings!Folded(w, base, w.p.creates)
           v == CreatesPhase(w)
<1>1. n \in Nat /\ DOMAIN w.p.creates = 1..n
  OBVIOUS
<1>2. ToSet(w.p.creates) = DOMAIN w.p.paths \ Placed(w.p)
  BY DEF Ready
<1>3. Listing(C[0], base)
  <2>1. Handing(w, base)
    BY DEF Handing, SameRest
  <2>2. Left(0) = ToSet(w.p.creates)
    <3>1. (0 + 1)..n = DOMAIN w.p.creates
      BY <1>1
    <3> HIDE DEF n
    <3>2. QED
      BY <3>1 DEF ToSet
  <2>3. C[0].w = w /\ C[0].left = ToSet(w.p.creates) /\ base.w = w
    <3>1. 0 \in 0..n
      BY <1>1
    <3> HIDE DEF Left, n
    <3>2. C[0] = [w |-> w, left |-> Left(0)] /\ base.w = w
      BY <3>1
    <3>3. QED
      BY <2>2, <3>2
  <2>4. Placed(w.p) = TitlesOf(w.sheets) /\ Placed(w.p) \subseteq DOMAIN w.p.paths
    BY DEF Placed, Ready
  <2> HIDE DEF C, base
  <2>5. QED
    BY <1>2, <2>1, <2>3, <2>4 DEF Listing, Ready, Whole
<1>4. ASSUME NEW acc, NEW k \in 0..(n - 1), Listing(C[k], acc)
      PROVE  Listing(C[k + 1], HandStep(w, acc, w.p.creates[k + 1]))
  <2>1. k \in 0..n /\ k + 1 \in 0..n /\ k + 1 \in 1..n
    BY <1>1
  <2>2. /\ C[k].w = w /\ C[k].left = Left(k)
        /\ C[k + 1].w = w /\ C[k + 1].left = Left(k + 1)
    BY <2>1
  <2> DEFINE title == w.p.creates[k + 1]
  <2>3. Left(k) \subseteq Left(k + 1) \cup {title}
    <3>1. \A j \in (k + 1)..n : j = k + 1 \/ j \in ((k + 1) + 1)..n
      BY <1>1
    <3>2. QED
      BY <3>1
  <2>4. title \in ToSet(w.p.creates)
    BY <1>1, <2>1 DEF ToSet
  <2>5. title \in ToSet(w.p.order) /\ title \in DOMAIN w.p.paths /\ IsList(w.p.order)
    BY <1>2, <2>4 DEF Ready
  <2> HIDE DEF C, Left, title
  <2>6. Listing(C[k + 1], HandStep(w, acc, title))
    BY <1>4, <2>2, <2>3, <2>5, CreateLists
  <2>7. QED
    BY <2>6 DEF title
<1>5. Listing(C[n], end)
  <2>1. \A acc : \A k \in 0..(Len(w.p.creates) - 1) :
          Listing(C[k], acc) => Listing(C[k + 1], HandStep(w, acc, w.p.creates[k + 1]))
    BY <1>4
  <2> HIDE DEF C, base
  <2>2. Listing(C[Len(w.p.creates)], Listings!Folded(w, base, w.p.creates))
    BY <1>3, <2>1, Listings!FoldGrows
  <2>3. QED
    BY <2>2
<1>6. C[n].w = w /\ C[n].left = {}
  <2>1. n \in 0..n /\ (n + 1)..n = {}
    BY <1>1
  <2>2. Left(n) = {}
    BY <2>1
  <2>3. QED
    BY <2>1, <2>2
<1>7. v = [end.w EXCEPT !.p.creates = <<>>]
  BY DEF CreatesPhase, FoldLeft, MapThenFoldSet, Max, HandStep,
         Listings!Folded, Listings!IsFold, Listings!Top
<1> HIDE DEF end, v, C
<1>8. Handing(w, end) /\ Hands(end.w)
  BY <1>5, <1>6 DEF Listing, Handing
<1>9. /\ v.sheets = end.w.sheets /\ v.patches = end.w.patches
      /\ v.p.adds = end.w.p.adds /\ v.p.paths = end.w.p.paths
      /\ SameRest(v.p, end.w.p)
  BY <1>7, <1>8 DEF Hands, Allocates, PatcherFields, SameRest
<1>10. v.patches = w.patches /\ SameRest(v.p, w.p)
  BY <1>8, <1>9 DEF Handing, SameRest
<1>11. Placed(v.p) = Placed(end.w.p)
  BY <1>9 DEF Placed
<1>12. TitlesOf(v.sheets) = DOMAIN v.p.paths /\ Placed(v.p) = DOMAIN v.p.paths
  <2>1. Placed(end.w.p) \subseteq DOMAIN end.w.p.paths
    BY DEF Placed
  <2>2. QED
    BY <1>5, <1>6, <1>9, <1>11, <2>1 DEF Listing
<1>13. Whole(v.p.adds) /\ Whole(v.patches) /\ IsList(v.sheets) /\ Titled(v.sheets)
  BY <1>5, <1>9, <1>10 DEF Listing, Whole
<1>14. Settled(v)
  BY <1>10, <1>12, <1>13 DEF Settled, SameRest, Ready
<1>15. QED
  BY <1>14 DEF v

\* The bytes of a part that is in the source or waits to be added are there.
LEMMA CurrentIsWhole ==
  ASSUME NEW w, Whole(w.patches), Whole(w.p.adds), Whole(source.parts),
         NEW part \in DOMAIN source.parts \cup DOMAIN w.p.adds
  PROVE  Current(w, part) \in Promise!Contents /\ Current(w, part) # Missing
<1>1. Current(w, part) \in Promise!Contents
  BY DEF Current, Whole
<1>2. \A content \in Promise!Contents : content # Missing
  <2>1. \A content \in Promise!Contents : content.of \in Titles \cup {"blank"}
    BY DEF Promise!Contents
  <2>2. "missing" \notin Titles \cup {"blank"}
    BY TitlesAssumption
  <2>3. Missing.of = "missing"
    BY DEF Missing
  <2>4. QED
    BY <2>1, <2>2, <2>3
<1>3. QED
  BY <1>1, <1>2

\* The copies that a save can plan: of sheets it knows, to titles of their own.
Planned(p, copies) ==
  /\ \A i \in DOMAIN copies : copies[i].src \in DOMAIN p.paths
                           /\ copies[i].dst \notin DOMAIN p.paths
  /\ \A i, j \in DOMAIN copies : copies[i].dst = copies[j].dst => i = j

\* The queues that a copy leaves alone.
SameDeletes(p, q) == /\ p.deletes = q.deletes /\ p.deletedPaths = q.deletedPaths
                     /\ p.renames = q.renames

\* Of the context, the workspace before the copies and the titles they made.
Copied(c, acc) ==
  /\ acc.ok
  /\ Hands(acc)
  /\ Settled(acc)
  /\ DOMAIN acc.p.paths = DOMAIN c.w.p.paths \cup c.made
  /\ SameDeletes(acc.p, c.w.p)

\* A copy that is planned is made, as a part of its own.
LEMMA CopyIsMade ==
  ASSUME NEW c, NEW d, NEW acc, Copied(c, acc), Whole(source.parts),
         NEW copy, copy.src \in DOMAIN c.w.p.paths,
         copy.dst \notin DOMAIN c.w.p.paths \cup c.made,
         d.w = c.w, d.made = c.made \cup {copy.dst}
  PROVE  Copied(d, CopyOne(acc, copy))
<1> DEFINE part == acc.p.paths[copy.src]
           content == Current(acc, part)
           added == AddSheet(acc, copy.dst, content)
           next == CopyOne(acc, copy)
<1>1. /\ acc.ok /\ Hands(acc) /\ Settled(acc)
      /\ DOMAIN acc.p.paths = DOMAIN c.w.p.paths \cup c.made
      /\ SameDeletes(acc.p, c.w.p)
  BY DEF Copied
<1>2. copy.src \in Placed(acc.p) /\ copy.src \in TitlesOf(acc.sheets)
      /\ copy.dst \notin TitlesOf(acc.sheets) /\ copy.src \in DOMAIN acc.p.paths
  BY <1>1 DEF Settled
<1>3. content \in Promise!Contents /\ content # Missing
  <2>1. part \in DOMAIN source.parts \cup DOMAIN acc.p.adds
    BY <1>1, <1>2 DEF Hands, OwnParts
  <2> HIDE DEF part
  <2>2. QED
    BY <1>1, <2>1, CurrentIsWhole DEF Settled
<1>4. Position(acc.sheets, copy.src) # 0 /\ Position(acc.sheets, copy.dst) = 0
  <2>1. Position(acc.sheets, copy.src) \in 1..Len(acc.sheets)
        /\ Position(acc.sheets, copy.dst) = 0
    BY <1>1, <1>2, PositionIs DEF Settled
  <2>2. QED
    BY <2>1
<1>5. next = [added EXCEPT !.p.order = Append(@, copy.dst)]
  BY <1>1, <1>2, <1>3, <1>4 DEF CopyOne
<1>6. /\ Hands(added)
      /\ SameRest(added.p, acc.p)
      /\ added.ok = acc.ok /\ added.patches = acc.patches
      /\ DOMAIN added.p.paths = DOMAIN acc.p.paths \cup {copy.dst}
      /\ Placed(added.p) = Placed(acc.p) \cup {copy.dst}
      /\ IsList(added.sheets) /\ Titled(added.sheets)
      /\ TitlesOf(added.sheets) = TitlesOf(acc.sheets) \cup {copy.dst}
      /\ Whole(added.p.adds)
  <2>1. Hands(acc) /\ IsList(acc.sheets) /\ Titled(acc.sheets) /\ Whole(acc.p.adds)
        /\ DOMAIN acc.p.paths = DOMAIN c.w.p.paths \cup c.made
    BY <1>1 DEF Settled
  <2>2. content \in Promise!Contents
    BY <1>3
  <2> HIDE DEF part, content
  <2>3. QED
    BY <2>1, <2>2, AddSheetHands, SMTT(30)
<1> HIDE DEF part, content, added, next
<1>7. /\ DOMAIN next = {"p", "sheets", "patches", "next", "ok"}
      /\ DOMAIN next.p = PatcherFields
      /\ next.ok = added.ok /\ next.patches = added.patches /\ next.next = added.next
      /\ next.sheets = added.sheets
      /\ next.p.adds = added.p.adds /\ next.p.paths = added.p.paths
      /\ next.p.dels = added.p.dels /\ next.p.moves = added.p.moves
      /\ SameDeletes(next.p, added.p)
      /\ next.p.order = Append(added.p.order, copy.dst)
  BY <1>5, <1>6 DEF Hands, Allocates, PatcherFields, SameDeletes
<1>8. Hands(next)
  <2>1. Allocates(next)
    BY <1>6, <1>7 DEF Hands, Allocates, AddsAreNew
  <2>2. QED
    BY <1>6, <1>7, <2>1, SameHands
<1>9. IsList(next.p.order)
  <2>1. added.p.order = acc.p.order
    BY <1>6 DEF SameRest
  <2>2. QED
    BY <1>1, <1>7, <2>1, AppendElements DEF Settled
<1>10. Placed(next.p) = Placed(added.p)
  BY <1>7 DEF Placed
<1>11. Settled(next)
  BY <1>1, <1>6, <1>7, <1>9, <1>10 DEF Settled, SameRest
<1>12. SameDeletes(next.p, d.w.p)
  BY <1>1, <1>6, <1>7 DEF SameDeletes, SameRest
<1>13. Copied(d, next)
  BY <1>1, <1>6, <1>7, <1>8, <1>11, <1>12 DEF Copied
<1>14. QED
  BY <1>13 DEF next

PlannedStep(c, acc, copy) == CopyOne(acc, copy)

PlannedCopies == INSTANCE FoldInduction WITH Op <- PlannedStep, Good <- Copied

\* Copies that can be planned are all made, and drained.
LEMMA CopiesPhaseSettles ==
  ASSUME NEW w, w.ok, Hands(w), Settled(w), w.p.copies \in Seq(Copies),
         Planned(w.p, w.p.copies), Whole(source.parts)
  PROVE  LET v == CopiesPhase(w)
         IN /\ v.ok
            /\ Hands(v)
            /\ Settled(v)
            /\ v.p.copies = <<>>
            /\ SameDeletes(v.p, w.p)
<1> DEFINE n == Len(w.p.copies)
           Made(k) == {w.p.copies[j].dst : j \in 1..k}
           C == [k \in 0..n |-> [w |-> w, made |-> Made(k)]]
           end == PlannedCopies!Folded(w, w, w.p.copies)
           v == CopiesPhase(w)
<1>1. n \in Nat /\ DOMAIN w.p.copies = 1..n
  OBVIOUS
<1>2. Copied(C[0], w)
  <2>1. C[0].w = w /\ C[0].made = {}
    BY <1>1
  <2> HIDE DEF C
  <2>2. QED
    BY <2>1 DEF Copied, SameDeletes
<1>3. ASSUME NEW acc, NEW k \in 0..(n - 1), Copied(C[k], acc)
      PROVE  Copied(C[k + 1], PlannedStep(w, acc, w.p.copies[k + 1]))
  <2>1. k \in 0..n /\ k + 1 \in 0..n /\ k + 1 \in 1..n
    BY <1>1
  <2>2. /\ C[k].w = w /\ C[k].made = Made(k)
        /\ C[k + 1].w = w /\ C[k + 1].made = Made(k + 1)
    BY <2>1
  <2> DEFINE copy == w.p.copies[k + 1]
  <2>3. Made(k + 1) = Made(k) \cup {copy.dst}
    BY <2>1
  <2>4. \A j \in 1..k : j \in 1..n /\ j # k + 1
    BY <1>1
  <2>5. copy.dst \notin Made(k)
    BY <1>1, <2>1, <2>4 DEF Planned
  <2>6. copy.src \in DOMAIN w.p.paths /\ copy.dst \notin DOMAIN w.p.paths
    BY <1>1, <2>1 DEF Planned
  <2> HIDE DEF C, Made, copy
  <2>7. Copied(C[k + 1], CopyOne(acc, copy))
    BY <1>3, <2>2, <2>3, <2>5, <2>6, CopyIsMade
  <2>8. QED
    BY <2>7 DEF PlannedStep, copy
<1>4. Copied(C[n], end)
  <2>1. \A acc : \A k \in 0..(Len(w.p.copies) - 1) :
          Copied(C[k], acc) => Copied(C[k + 1], PlannedStep(w, acc, w.p.copies[k + 1]))
    BY <1>3
  <2> HIDE DEF C
  <2>2. Copied(C[Len(w.p.copies)], PlannedCopies!Folded(w, w, w.p.copies))
    BY <1>2, <2>1, PlannedCopies!FoldGrows
  <2>3. QED
    BY <2>2
<1>5. C[n].w = w
  BY <1>1
<1>6. v = IF end.ok THEN [end EXCEPT !.p.copies = <<>>] ELSE end
  BY DEF CopiesPhase, FoldLeft, MapThenFoldSet, Max, PlannedStep,
         PlannedCopies!Folded, PlannedCopies!IsFold, PlannedCopies!Top
<1> HIDE DEF end, C, v
<1>7. end.ok /\ Hands(end) /\ Settled(end) /\ SameDeletes(end.p, w.p)
  BY <1>4, <1>5 DEF Copied
<1>8. /\ v.ok = end.ok /\ v.next = end.next /\ v.sheets = end.sheets
      /\ v.patches = end.patches
      /\ v.p.adds = end.p.adds /\ v.p.paths = end.p.paths /\ v.p.dels = end.p.dels
      /\ v.p.copies = <<>> /\ SameRest(v.p, end.p)
      /\ SameDeletes(v.p, end.p)
  BY <1>6, <1>7 DEF Hands, Allocates, PatcherFields, SameDeletes, SameRest
<1>9. Hands(v)
  <2>1. Allocates(v)
    BY CopiesPhaseAllocates DEF Hands, v
  <2>2. QED
    BY <1>7, <1>8, <2>1, SameHands
<1>10. Placed(v.p) = Placed(end.p)
  BY <1>8 DEF Placed
<1>11. Settled(v)
  BY <1>7, <1>8, <1>10 DEF Settled, SameRest
<1>12. v.ok /\ v.p.copies = <<>> /\ SameDeletes(v.p, w.p)
  BY <1>7, <1>8 DEF SameDeletes
<1>13. QED
  BY <1>9, <1>11, <1>12 DEF v

\* The titles of a list of entries, as a list.
LEMMA TitleList ==
  ASSUME NEW s, IsList(s)
  PROVE  IsList([i \in DOMAIN s |-> s[i].title])
<1> DEFINE titles == [i \in DOMAIN s |-> s[i].title]
<1>1. Len(s) \in Nat /\ DOMAIN s = 1..Len(s)
  BY Listed
<1>2. titles \in [1..Len(s) -> TitlesOf(s)]
  BY <1>1 DEF TitlesOf, Promise!TitlesOf
<1> HIDE DEF titles
<1>3. titles \in Seq(TitlesOf(s))
  BY <1>1, <1>2, FunctionIsSeq
<1>4. IsList(titles)
  BY <1>3, ListOf
<1>5. QED
  BY <1>4 DEF titles

\* Renames, moves and shifts give out no part.
LEMMA TailHands ==
  ASSUME NEW w, Hands(w), w.p.shifts \in Seq(Titles)
  PROVE  LET v == ShiftsPhase(MovesPhase(RenamesPhase(w)))
         IN /\ Hands(v)
            /\ SameDeletes(v.p, w.p) /\ SameQueues(v.p, w.p)
            /\ v.p.paths = w.p.paths /\ v.p.adds = w.p.adds /\ v.p.moves = w.p.moves
            /\ v.ok = w.ok
<1> DEFINE u == RenamesPhase(w)
           m == MovesPhase(u)
           v == ShiftsPhase(m)
<1>1. Allocates(w)
  BY DEF Hands
<1>2. u.p = w.p /\ u.next = w.next /\ DOMAIN u = DOMAIN w
  BY <1>1 DEF RenamesPhase, Allocates
<1>3. Allocates(m) /\ m.ok = w.ok /\ m.p.paths = w.p.paths /\ SameQueues(m.p, w.p)
  BY <1>1, RenamesAndMovesKeep
<1> HIDE DEF u
<1>4. /\ m.next = w.next /\ m.p.adds = w.p.adds /\ m.p.dels = w.p.dels
      /\ m.p.moves = w.p.moves /\ SameDeletes(m.p, w.p)
  BY <1>1, <1>2 DEF MovesPhase, Allocates, PatcherFields, SameDeletes
<1> HIDE DEF m
<1>5. Shifting(m, v)
  BY <1>3, ShiftsPhaseKeeps DEF Allocates, SameQueues
<1> HIDE DEF v
<1>6. v.p = m.p /\ v.next = m.next /\ v.ok = m.ok /\ Allocates(v)
  BY <1>3, <1>5 DEF Shifting, Allocates
<1>7. Hands(v)
  BY <1>3, <1>4, <1>6, SameHands
<1>8. QED
  BY <1>3, <1>4, <1>6, <1>7 DEF u, m, v

\* A shift replaces a part of the source by one with a content.
ShiftGood(c, acc) == Shifting(c, acc) /\ Whole(acc.patches) /\ acc.sheets = c.sheets

WholeShifts == INSTANCE FoldInduction WITH Op <- ShiftStep, Good <- ShiftGood

\* The shifts replace parts of the source by parts with a content.
LEMMA ShiftsPhaseIsWhole ==
  ASSUME NEW w, DOMAIN w = {"p", "sheets", "patches", "next", "ok"},
         w.p.shifts \in Seq(Titles), Whole(w.patches), Whole(source.parts)
  PROVE  ShiftGood(w, ShiftsPhase(w))
<1>1. ASSUME NEW acc, NEW title, ShiftGood(w, acc)
      PROVE  ShiftGood(w, ShiftOne(acc, title))
  <2> DEFINE part == acc.p.paths[title]
             old == IF part \in DOMAIN acc.patches THEN acc.patches[part]
                    ELSE source.parts[part]
             next == ShiftOne(acc, title)
             patches == With(acc.patches, part, Promise!Shifted(old))
  <2>1. Shifting(w, acc) /\ Whole(acc.patches) /\ acc.sheets = w.sheets
    BY <1>1 DEF ShiftGood
  <2>2. CASE next = acc
    BY <1>1, <2>2
  <2>3. CASE part \in DOMAIN source.parts /\ next = [acc EXCEPT !.patches = patches]
    <3>1. old \in Promise!Contents
      BY <2>1, <2>3 DEF Whole
    <3> HIDE DEF old
    <3>2. Promise!Shifted(old) \in Promise!Contents
      BY <3>1 DEF Promise!Shifted, Promise!Contents, Promise!Blank
    <3>3. Whole(patches)
      BY <2>1, <3>2 DEF Whole, With
    <3> HIDE DEF patches, next
    <3>4. next.patches = patches /\ next.sheets = acc.sheets /\ Shifting(w, next)
      BY <2>1, <2>3 DEF Shifting
    <3>5. QED
      BY <2>1, <3>3, <3>4 DEF ShiftGood, next
  <2>4. QED
    BY <2>2, <2>3 DEF ShiftOne
<1>2. ShiftGood(w, w)
  BY DEF ShiftGood, Shifting
<1>3. \A acc : \A i \in DOMAIN w.p.shifts :
        ShiftGood(w, acc) => ShiftGood(w, ShiftStep(w, acc, w.p.shifts[i]))
  BY <1>1 DEF ShiftStep
<1>4. ShiftGood(w, WholeShifts!Folded(w, w, w.p.shifts))
  BY <1>2, <1>3, WholeShifts!FoldKeeps
<1>5. ShiftsPhase(w) = WholeShifts!Folded(w, w, w.p.shifts)
  BY DEF ShiftsPhase, FoldLeft, MapThenFoldSet, Max, ShiftStep,
         WholeShifts!Folded, WholeShifts!IsFold, WholeShifts!Top
<1>6. QED
  BY <1>4, <1>5

\* Without renames the <sheet> list keeps its titles.
LEMMA NothingRenamed ==
  ASSUME NEW w, Allocates(w), w.p.renames = <<>>, IsList(w.sheets), Titled(w.sheets)
  PROVE  LET v == RenamesPhase(w)
         IN /\ v.p = w.p /\ v.patches = w.patches
            /\ IsList(v.sheets) /\ Titled(v.sheets)
            /\ TitlesOf(v.sheets) = TitlesOf(w.sheets)
<1> DEFINE v == RenamesPhase(w)
           s == w.sheets
           same == [i \in DOMAIN s |-> [s[i] EXCEPT !.title = s[i].title]]
<1>1. v = [w EXCEPT !.sheets = same]
  BY DEF RenamesPhase, SelectLastInSeq
<1>2. DOMAIN w = {"p", "sheets", "patches", "next", "ok"}
  BY DEF Allocates
<1>3. Len(s) \in Nat /\ DOMAIN s = 1..Len(s) /\ \A i \in 1..Len(s) : s[i] \in ToSet(s)
  BY Listed
<1> HIDE DEF v
<1>4. v.p = w.p /\ v.patches = w.patches /\ v.sheets = same
  BY <1>1, <1>2
<1> DEFINE all == {same[i] : i \in DOMAIN s}
<1> HIDE DEF s
<1>5. \A i \in DOMAIN s : "title" \in DOMAIN s[i]
  BY <1>3 DEF Titled, s
<1>6. \A i \in DOMAIN s : same[i].title = s[i].title /\ "title" \in DOMAIN same[i]
  BY <1>5
<1>7. DOMAIN same = 1..Len(s) /\ same \in [1..Len(s) -> all]
  BY <1>3
<1> HIDE DEF same, all
<1>8. IsList(same)
  <2>1. same \in Seq(all)
    BY <1>3, <1>7, FunctionIsSeq
  <2>2. QED
    BY <2>1, ListOf
<1>9. Titled(same)
  BY <1>3, <1>6, <1>7 DEF Titled, ToSet
<1>10. TitlesOf(same) = TitlesOf(s)
  BY <1>3, <1>6, <1>7 DEF TitlesOf, Promise!TitlesOf
<1>11. QED
  BY <1>4, <1>8, <1>9, <1>10 DEF s, v

ListMove(c, s, move) == ApplyMove(s, move)

Reordered(c, s) == IsList(s) /\ ToSet(s) = c

Reorders == INSTANCE FoldInduction WITH Op <- ListMove, Good <- Reordered

\* Moves reorder the list, and the order becomes that of the list.
LEMMA MovesPhaseSettles ==
  ASSUME NEW w, Hands(w), Settled(w)
  PROVE  Settled(MovesPhase(w))
<1> DEFINE v == MovesPhase(w)
           sheets == Reorders!Folded(ToSet(w.sheets), w.sheets, w.p.moves)
           order == [i \in DOMAIN sheets |-> sheets[i].title]
<1>1. CASE w.p.moves = <<>>
  BY <1>1 DEF MovesPhase
<1>2. CASE w.p.moves # <<>>
  <2>1. IsList(sheets) /\ ToSet(sheets) = ToSet(w.sheets)
    <3>1. Reordered(ToSet(w.sheets), w.sheets)
      BY DEF Reordered, Settled
    <3>2. ASSUME NEW s, NEW i \in DOMAIN w.p.moves, Reordered(ToSet(w.sheets), s)
          PROVE  Reordered(ToSet(w.sheets), ListMove(ToSet(w.sheets), s, w.p.moves[i]))
      <4>1. w.p.moves[i].offset \in Int
        BY DEF Settled
      <4>2. IsList(s) /\ ToSet(s) = ToSet(w.sheets)
        BY <3>2 DEF Reordered
      <4>3. QED
        BY <4>1, <4>2, ApplyMoveKeeps DEF Reordered, ListMove
    <3>3. w.p.moves \in Seq(ToSet(w.p.moves))
      BY DEF Settled, IsList
    <3>4. Reordered(ToSet(w.sheets), sheets)
      BY <3>1, <3>2, <3>3, Reorders!FoldKeeps
    <3>5. QED
      BY <3>4 DEF Reordered
  <2>2. FoldLeft(ApplyMove, w.sheets, w.p.moves) = sheets
    BY DEF FoldLeft, MapThenFoldSet, Max, ListMove,
           Reorders!Folded, Reorders!IsFold, Reorders!Top
  <2>3. v = [w EXCEPT !.sheets = sheets, !.p.order = order]
    BY <1>2, <2>2 DEF MovesPhase
  <2> HIDE DEF sheets, v
  <2>4. IsList(order)
    BY <2>1, TitleList
  <2>5. DOMAIN w = {"p", "sheets", "patches", "next", "ok"} /\ DOMAIN w.p = PatcherFields
    BY DEF Hands, Allocates
  <2> HIDE DEF order
  <2>6. /\ v.sheets = sheets /\ v.patches = w.patches /\ v.p.order = order
        /\ v.p.adds = w.p.adds /\ v.p.paths = w.p.paths /\ v.p.moves = w.p.moves
    BY <2>3, <2>5 DEF PatcherFields
  <2>7. TitlesOf(sheets) = TitlesOf(w.sheets) /\ Titled(sheets)
    BY <2>1, TitlesOfElements DEF Titled, Settled
  <2>8. Placed(v.p) = Placed(w.p)
    BY <2>6 DEF Placed
  <2>9. Settled(v)
    BY <2>1, <2>4, <2>6, <2>7, <2>8 DEF Settled
  <2>10. QED
    BY <2>9 DEF v
<1>3. QED
  BY <1>1, <1>2

\* Without renames the whole tail of a save keeps the sheets of the list.
LEMMA TailSettles ==
  ASSUME NEW w, Hands(w), Settled(w), w.p.renames = <<>>, w.p.shifts \in Seq(Titles),
         Whole(source.parts)
  PROVE  Settled(ShiftsPhase(MovesPhase(RenamesPhase(w))))
<1> DEFINE u == RenamesPhase(w)
           m == MovesPhase(u)
           v == ShiftsPhase(m)
<1>1. Allocates(w)
  BY DEF Hands
<1>2. /\ u.p = w.p /\ u.patches = w.patches
      /\ IsList(u.sheets) /\ Titled(u.sheets)
      /\ TitlesOf(u.sheets) = TitlesOf(w.sheets)
  BY <1>1, NothingRenamed DEF Settled
<1>3. u.next = w.next /\ u.ok = w.ok /\ DOMAIN u = DOMAIN w
  BY <1>1 DEF RenamesPhase, Allocates
<1> HIDE DEF u
<1>4. Hands(u)
  <2>1. Allocates(u)
    BY <1>1, <1>2, <1>3 DEF Allocates
  <2>2. QED
    BY <1>2, <1>3, <2>1, SameHands
<1>5. Settled(u)
  BY <1>2 DEF Settled
<1>6. Settled(m)
  BY <1>4, <1>5, MovesPhaseSettles
<1>7. Allocates(m) /\ m.p.shifts = w.p.shifts
  BY <1>1, RenamesAndMovesKeep DEF SameQueues, u
<1> HIDE DEF m
<1>8. ShiftGood(m, v)
  BY <1>6, <1>7, ShiftsPhaseIsWhole DEF Allocates, Settled
<1> HIDE DEF v
<1>9. v.p = m.p /\ v.sheets = m.sheets /\ Whole(v.patches)
  BY <1>8 DEF ShiftGood, Shifting
<1>10. Settled(v)
  BY <1>6, <1>9 DEF Settled
<1>11. QED
  BY <1>10 DEF u, m, v

\* A save that starts from parts given out by earlier saves alone.
Starts(p) ==
  /\ Fits(p) /\ Bounded(DOMAIN source.parts)
  /\ OwnParts(p, DOMAIN source.parts) /\ DeletedApart(p, DOMAIN source.parts)
  /\ DOMAIN p.adds = {} /\ p.dels = {}

\* What a save starts from.
LEMMA WorkspaceFresh ==
  ASSUME NEW p, Starts(p)
  PROVE  LET w == Workspace(p)
         IN Fresh(w) /\ w.p = p /\ w.sheets = source.sheets /\ w.patches = <<>> /\ w.ok
<1> DEFINE w == Workspace(p)
           top == Max({0} \cup DOMAIN source.parts)
<1>1. top \in Nat /\ \A k \in DOMAIN source.parts : k \in Nat /\ k <= top
  BY MaxIsAbove DEF Starts
<1>2. /\ DOMAIN w = {"p", "sheets", "patches", "next", "ok"}
      /\ w.p = p /\ w.sheets = source.sheets /\ w.patches = <<>>
      /\ w.next = top + 1 /\ w.ok
  BY DEF Workspace
<1> HIDE DEF w, top
<1>3. w.next \in Nat /\ w.next # Pending
      /\ \A k \in DOMAIN source.parts : k \in Nat /\ k < w.next
  BY <1>1, <1>2 DEF Pending
<1>4. Allocates(w)
  BY <1>2, <1>3 DEF Allocates, Starts, Fits
<1>5. QED
  BY <1>2, <1>3, <1>4 DEF Fresh, Starts, w

\* The copies of a patcher can all be made.
Copiable(p) ==
  Ready(p, source.sheets) /\ Planned(p, p.copies) /\ Whole(source.parts)

\* A save without copies, or with such copies, succeeds and hands out each part once.
LEMMA PhasesHand ==
  ASSUME NEW p, Starts(p), p.copies = <<>> \/ Copiable(p)
  PROVE  LET w == Phases(p)
         IN /\ w.ok
            /\ Hands(w)
            /\ w.p.deletes = <<>> /\ DOMAIN w.p.deletedPaths = {}
            /\ w.p.copies = <<>> /\ w.p.renames = p.renames
            /\ Copiable(p) => Settled(w)
<1> DEFINE start   == Workspace(p)
           deleted == DeletesPhase(start)
           created == CreatesPhase(deleted)
           copied  == CopiesPhase(created)
           tail    == ShiftsPhase(MovesPhase(RenamesPhase(copied)))
           w       == Phases(p)
<1>1. /\ Fresh(start) /\ start.p = p /\ start.sheets = source.sheets
      /\ start.patches = <<>> /\ start.ok
  BY WorkspaceFresh
<1>2. p.creates \in Seq(Titles) /\ p.copies \in Seq(Copies) /\ p.shifts \in Seq(Titles)
  BY DEF Starts, Fits
<1> HIDE DEF start
<1>3. /\ Hands(deleted)
      /\ ToSet(deleted.p.deletes) = {} /\ deleted.p.deletes = <<>>
      /\ DOMAIN deleted.p.deletedPaths = {}
      /\ deleted.p.renames = p.renames /\ deleted.p.adds = p.adds
      /\ deleted.p.paths = p.paths /\ deleted.patches = <<>>
  BY <1>1, DeletesPhaseHands
<1>4. SameQueues(deleted.p, p) /\ deleted.ok
  BY <1>1, DeletesPhaseAllocates DEF Fresh
<1>5. Copiable(p) => Ready(deleted.p, deleted.sheets)
  BY <1>1, DeletesPhaseReady DEF Copiable
<1> HIDE DEF deleted
<1>6. Hands(created) /\ SameRest(created.p, deleted.p)
  BY <1>2, <1>3, <1>4, CreatesPhaseHands DEF SameQueues
<1>7. /\ created.p.creates = <<>> /\ created.p.copies = p.copies
      /\ created.p.shifts = p.shifts /\ created.ok
      /\ ToSet(p.creates) \subseteq DOMAIN p.paths
           => DOMAIN created.p.paths = DOMAIN p.paths
  BY <1>2, <1>3, <1>4, CreatesPhaseAllocates DEF SameQueues, Hands
<1>8. Copiable(p) => Settled(created)
  <2>1. DOMAIN deleted.p.adds = {} /\ DOMAIN deleted.patches = {}
    BY <1>3 DEF Starts
  <2>2. deleted.p.creates \in Seq(Titles)
    BY <1>2, <1>4 DEF SameQueues
  <2>3. QED
    BY <1>3, <1>5, <2>1, <2>2, CreatesPhaseSettles
<1> HIDE DEF created
<1>9. /\ copied.ok /\ Hands(copied) /\ copied.p.copies = <<>>
      /\ SameDeletes(copied.p, created.p)
      /\ Copiable(p) => Settled(copied)
  <2>1. CASE Copiable(p)
    <3>1. ToSet(p.creates) \subseteq DOMAIN p.paths
      BY <2>1 DEF Copiable, Ready
    <3>2. Planned(p, p.copies) /\ Whole(source.parts)
      BY <2>1 DEF Copiable
    <3>3. Planned(created.p, created.p.copies)
      BY <1>7, <3>1, <3>2 DEF Planned
    <3>4. created.p.copies \in Seq(Copies)
      BY <1>2, <1>7
    <3>5. QED
      BY <1>6, <1>7, <1>8, <2>1, <3>2, <3>3, <3>4, CopiesPhaseSettles
  <2>2. CASE ~Copiable(p)
    <3>1. created.p.copies = <<>>
      BY <1>7, <2>2
    <3>2. copied = [created EXCEPT !.p.copies = <<>>]
      <4>1. Copying!Folded(created, created, <<>>) = created
        BY Copying!FoldOfNothing
      <4>2. copied = LET end == Copying!Folded(created, created, created.p.copies)
                     IN IF end.ok THEN [end EXCEPT !.p.copies = <<>>] ELSE end
        BY DEF CopiesPhase, FoldLeft, MapThenFoldSet, Max, CopyStep,
               Copying!Folded, Copying!IsFold, Copying!Top
      <4> HIDE DEF copied
      <4>3. QED
        BY <1>7, <3>1, <4>1, <4>2
    <3> HIDE DEF copied
    <3>3. Allocates(created)
      BY <1>6 DEF Hands
    <3>4. /\ copied.ok = created.ok /\ copied.next = created.next
          /\ copied.p.copies = <<>> /\ SameDeletes(copied.p, created.p)
          /\ copied.p.adds = created.p.adds /\ copied.p.paths = created.p.paths
          /\ copied.p.dels = created.p.dels
      BY <3>2, <3>3 DEF Allocates, PatcherFields, SameDeletes
    <3>5. Allocates(copied)
      <4>1. created.p.copies \in Seq(Copies)
        BY <1>2, <1>7
      <4>2. QED
        BY <3>3, <4>1, CopiesPhaseAllocates DEF copied
    <3>6. Hands(copied)
      BY <1>6, <3>4, <3>5, SameHands
    <3>7. QED
      BY <1>7, <2>2, <3>4, <3>6 DEF copied
  <2>3. QED
    BY <2>1, <2>2
<1>10. copied.p.shifts \in Seq(Titles)
  <2>1. Allocates(created) /\ created.p.copies \in Seq(Copies)
    BY <1>2, <1>6, <1>7 DEF Hands
  <2>2. copied.p.shifts = created.p.shifts
    BY <2>1, CopiesPhaseAllocates
  <2>3. QED
    BY <1>2, <1>7, <2>2
<1>11. w = tail
  BY <1>9 DEF Phases, copied, created, deleted, start
<1> HIDE DEF copied
<1>12. /\ Hands(tail) /\ SameDeletes(tail.p, copied.p) /\ SameQueues(tail.p, copied.p)
       /\ tail.ok = copied.ok
  BY <1>9, <1>10, TailHands
<1>13. /\ copied.p.renames = p.renames /\ copied.p.deletes = <<>>
       /\ DOMAIN copied.p.deletedPaths = {}
  BY <1>3, <1>6, <1>9 DEF SameDeletes, SameRest
<1>14. Copiable(p) => Settled(tail)
  <2> SUFFICES ASSUME Copiable(p) PROVE Settled(tail)
    OBVIOUS
  <2>1. Whole(source.parts) /\ copied.p.renames = <<>> /\ Settled(copied)
    BY <1>9, <1>13 DEF Copiable, Ready
  <2>2. QED
    BY <1>9, <1>10, <2>1, TailSettles
<1> HIDE DEF tail, w
<1>15. QED
  BY <1>9, <1>11, <1>12, <1>13, <1>14 DEF SameDeletes, SameQueues, w

-----------------------------------------------------------------------------
(* The copies that a save hands to the patcher: all of them, planned, or the
   first one is refused again by every later save. *)

\* Of the context, the patcher, the title of the first copy, how many are done.
Handed(c, acc) ==
  /\ Flushing(c.p, acc)
  /\ SameRest(acc.p, c.p)
  /\ acc.p.copies # <<>> => acc.p.copies[1].dst = c.first
  /\ c.done = 0 => acc.p.copies = c.p.copies
  /\ c.done # 0 /\ (acc.p.copies = <<>> \/ c.p.copies # <<>>) => ~acc.ok
  /\ c.p.copies = <<>> => Planned(c.p, acc.p.copies)

\* One copy handed over, or refused.
LEMMA FlushHands ==
  ASSUME NEW c, NEW d, NEW acc, Handed(c, acc), NEW copy \in Copies,
         c.done = 0 => copy.dst = c.first,
         d.p = c.p, d.first = c.first, d.done # 0
  PROVE  Handed(d, FlushOne(acc, copy))
<1> DEFINE next == FlushOne(acc, copy)
           copies == acc.p.copies
<1>1. /\ Flushing(c.p, acc) /\ SameRest(acc.p, c.p)
      /\ copies # <<>> => copies[1].dst = c.first
      /\ c.done = 0 => copies = c.p.copies
      /\ c.done # 0 /\ (copies = <<>> \/ c.p.copies # <<>>) => ~acc.ok
      /\ c.p.copies = <<>> => Planned(c.p, copies)
  BY DEF Handed
<1>2. DOMAIN acc = {"p", "ok"} /\ DOMAIN acc.p = PatcherFields /\ copies \in Seq(Copies)
      /\ acc.p.paths = c.p.paths
  BY <1>1 DEF Flushing
<1>3. CASE ~(acc.ok /\ CanQueueCopy(acc.p, copy))
  <2>1. next = [acc EXCEPT !.ok = FALSE]
    BY <1>3 DEF FlushOne
  <2> HIDE DEF next
  <2>2. next.p = acc.p /\ DOMAIN next = {"p", "ok"} /\ ~next.ok
    BY <1>2, <2>1
  <2>3. Flushing(d.p, next)
    BY <1>1, <2>2 DEF Flushing
  <2>4. QED
    BY <1>1, <2>2, <2>3 DEF Handed, next
<1>4. CASE acc.ok /\ CanQueueCopy(acc.p, copy)
  <2>1. next = [acc EXCEPT !.p.copies = Append(@, copy)]
    BY <1>4 DEF FlushOne
  <2> DEFINE more == Append(copies, copy)
             n == Len(copies)
  <2>2. /\ more \in Seq(Copies) /\ DOMAIN more = 1..(n + 1) /\ n \in Nat
        /\ DOMAIN copies = 1..n
        /\ \A i \in 1..n : more[i] = copies[i]
        /\ more[n + 1] = copy
        /\ more # <<>>
    BY <1>2
  <2> HIDE DEF next
  <2>3. /\ DOMAIN next = {"p", "ok"} /\ DOMAIN next.p = PatcherFields
        /\ next.ok = acc.ok /\ next.p.copies = more
        /\ next.p.adds = acc.p.adds /\ next.p.paths = acc.p.paths
        /\ next.p.creates = acc.p.creates /\ next.p.shifts = acc.p.shifts
        /\ SameRest(next.p, acc.p)
    BY <1>2, <2>1 DEF PatcherFields, SameRest
  <2>4. CanQueueCopy(acc.p, copy)
    BY <1>4
  <2>5. c.p.copies = <<>>
    <3>1. CASE c.done # 0
      BY <1>1, <1>4, <3>1
    <3>2. CASE c.done = 0 /\ c.p.copies # <<>>
      <4>1. copies # <<>> /\ copies[1].dst = copy.dst
        BY <1>1, <3>2
      <4>2. 1 \in DOMAIN copies
        BY <1>2, <4>1
      <4>3. QED
        BY <2>4, <4>1, <4>2 DEF CanQueueCopy
    <3>3. QED
      BY <3>1, <3>2
  <2>6. more[1].dst = c.first
    <3>1. CASE copies = <<>>
      <4>1. c.done = 0 /\ n = 0
        BY <1>1, <1>4, <3>1
      <4>2. QED
        BY <2>2, <4>1
    <3>2. CASE copies # <<>>
      <4>1. 1 \in 1..n
        BY <1>2, <3>2
      <4>2. QED
        BY <1>1, <2>2, <3>2, <4>1
    <3>3. QED
      BY <3>1, <3>2
  <2>7. Planned(c.p, more)
    <3>1. Planned(c.p, copies)
      BY <1>1, <2>5
    <3>2. copy.src \in DOMAIN c.p.paths /\ copy.dst \notin DOMAIN c.p.paths
          /\ \A i \in 1..n : copies[i].dst # copy.dst
      BY <1>2, <2>2, <2>4 DEF CanQueueCopy
    <3>3. \A i \in 1..(n + 1) : i \in 1..n \/ i = n + 1
      BY <2>2
    <3> HIDE DEF more, n
    <3>4. \A i \in DOMAIN more : more[i].src \in DOMAIN c.p.paths
                              /\ more[i].dst \notin DOMAIN c.p.paths
      BY <2>2, <3>1, <3>2, <3>3 DEF Planned
    <3>5. \A i, j \in DOMAIN more : more[i].dst = more[j].dst => i = j
      BY <2>2, <3>1, <3>2, <3>3 DEF Planned
    <3>6. QED
      BY <3>4, <3>5 DEF Planned
  <2> HIDE DEF more, copies
  <2>8. Flushing(d.p, next)
    BY <1>1, <2>2, <2>3 DEF Flushing
  <2>9. SameRest(next.p, d.p)
    BY <1>1, <2>3 DEF SameRest
  <2>10. QED
    BY <2>2, <2>3, <2>5, <2>6, <2>7, <2>8, <2>9 DEF Handed, next
<1>5. QED
  BY <1>3, <1>4

HandStepOf(c, acc, copy) == FlushOne(acc, copy)

HandedCopies == INSTANCE FoldInduction WITH Op <- HandStepOf, Good <- Handed

\* Copies stay queued with the patcher only while the first of them is refused.
Blocked(p) ==
  p.copies # <<>> => sheetCopies # <<>> /\ p.copies[1].dst = sheetCopies[1].dst

\* All of them: a save that is not refused can plan every copy it has.
LEMMA FlushPlans ==
  ASSUME QueuesTyped, Blocked(patcher)
  PROVE  /\ SameRest(FlushCopies.p, patcher)
         /\ FlushCopies.p.adds = patcher.adds /\ FlushCopies.p.paths = patcher.paths
         /\ FlushCopies.p.creates = patcher.creates
         /\ Blocked(FlushCopies.p)
         /\ FlushCopies.ok =>
              patcher.copies = <<>> /\ Planned(patcher, FlushCopies.p.copies)
<1> DEFINE n == Len(sheetCopies)
           first == sheetCopies[1].dst
           C == [k \in 0..n |-> [p |-> patcher, first |-> first, done |-> k]]
           base == [p |-> patcher, ok |-> TRUE]
           end == HandedCopies!Folded(patcher, base, sheetCopies)
<1>1. /\ DOMAIN patcher = PatcherFields /\ patcher.copies \in Seq(Copies)
      /\ sheetCopies \in Seq(Copies)
  BY DEF QueuesTyped
<1>2. n \in Nat /\ DOMAIN sheetCopies = 1..n /\ \A i \in 1..n : sheetCopies[i] \in Copies
  BY <1>1
<1>3. \A k \in 0..n : C[k].p = patcher /\ C[k].first = first /\ C[k].done = k
  OBVIOUS
<1>4. Handed(C[0], base)
  <2>1. C[0].p = patcher /\ C[0].first = first /\ C[0].done = 0
    BY <1>2, <1>3
  <2>2. Flushing(patcher, base) /\ SameRest(base.p, patcher) /\ base.p.copies = patcher.copies
    BY <1>1 DEF Flushing, SameRest
  <2>3. patcher.copies # <<>> => patcher.copies[1].dst = first
    BY DEF Blocked
  <2>4. patcher.copies = <<>> => Planned(patcher, patcher.copies)
    BY DEF Planned
  <2> HIDE DEF C, base, first
  <2>5. QED
    BY <2>1, <2>2, <2>3, <2>4 DEF Handed
<1>5. ASSUME NEW acc, NEW k \in 0..(n - 1), Handed(C[k], acc)
      PROVE  Handed(C[k + 1], HandStepOf(patcher, acc, sheetCopies[k + 1]))
  <2>1. k \in 0..n /\ k + 1 \in 0..n /\ k + 1 \in 1..n /\ k + 1 # 0
    BY <1>2
  <2>2. k = 0 => sheetCopies[k + 1].dst = first
    OBVIOUS
  <2>3. sheetCopies[k + 1] \in Copies
    BY <1>2, <2>1
  <2> HIDE DEF C, first
  <2>4. /\ C[k].done = k /\ C[k].first = first /\ C[k].p = patcher
        /\ C[k + 1].done # 0 /\ C[k + 1].first = first /\ C[k + 1].p = patcher
    BY <1>3, <2>1
  <2>5. QED
    BY <1>5, <2>2, <2>3, <2>4, FlushHands DEF HandStepOf
<1>6. Handed(C[n], end)
  <2>1. \A acc : \A k \in 0..(Len(sheetCopies) - 1) :
          Handed(C[k], acc) => Handed(C[k + 1], HandStepOf(patcher, acc, sheetCopies[k + 1]))
    BY <1>5
  <2> HIDE DEF C, base
  <2>2. Handed(C[Len(sheetCopies)], HandedCopies!Folded(patcher, base, sheetCopies))
    BY <1>1, <1>4, <2>1, HandedCopies!FoldGrows
  <2>3. QED
    BY <2>2
<1>7. FlushCopies = end
  BY DEF FlushCopies, FoldLeft, MapThenFoldSet, Max, HandStepOf,
         HandedCopies!Folded, HandedCopies!IsFold, HandedCopies!Top
<1>8. C[n].p = patcher /\ C[n].first = first /\ C[n].done = n
  BY <1>2, <1>3
<1> HIDE DEF C, end, first
<1>9. /\ Flushing(patcher, FlushCopies) /\ SameRest(FlushCopies.p, patcher)
      /\ FlushCopies.p.copies # <<>> => FlushCopies.p.copies[1].dst = first
      /\ n = 0 => FlushCopies.p.copies = patcher.copies
      /\ n # 0 /\ (FlushCopies.p.copies = <<>> \/ patcher.copies # <<>>) => ~FlushCopies.ok
      /\ patcher.copies = <<>> => Planned(patcher, FlushCopies.p.copies)
  BY <1>6, <1>7, <1>8 DEF Handed
<1>10. n = 0 <=> sheetCopies = <<>>
  BY <1>1
<1>11. Blocked(FlushCopies.p)
  BY <1>9, <1>10 DEF Blocked, first
<1>12. FlushCopies.ok => patcher.copies = <<>> /\ Planned(patcher, FlushCopies.p.copies)
  BY <1>9, <1>10 DEF Blocked
<1>13. QED
  BY <1>9, <1>11, <1>12 DEF Flushing

-----------------------------------------------------------------------------
(* Between the saves: the patcher knows the parts of the source alone. *)

Keeps(p) ==
  /\ OwnParts(p, DOMAIN source.parts)
  /\ DeletedApart(p, DOMAIN source.parts)
  /\ DOMAIN p.adds = {} /\ p.dels = {}

\* queue_sheet_create gives no part.
LEMMA QueuedCreation ==
  ASSUME NEW p, DOMAIN p = PatcherFields, Keeps(p), IsList(p.creates),
         NEW title, title \notin DOMAIN p.paths, NEW at \in Nat, at # 0
  PROVE  LET q == QueueCreate(p, title, at)
         IN /\ Keeps(q)
            /\ q.copies = p.copies
            /\ Ready(p, source.sheets) => Ready(q, source.sheets)
<1> DEFINE q == QueueCreate(p, title, at)
           to == Min({at, Len(p.order) + 1})
<1>1. /\ q.adds = p.adds /\ q.dels = p.dels /\ q.deletes = p.deletes
      /\ q.deletedPaths = p.deletedPaths /\ q.renames = p.renames /\ q.moves = p.moves
      /\ q.copies = p.copies
      /\ q.creates = Append(p.creates, title)
      /\ q.paths = With(p.paths, title, Pending)
      /\ q.order = InsertAt(p.order, to, title)
  BY DEF QueueCreate, PatcherFields
<1> HIDE DEF q
<1>2. DOMAIN q.paths = DOMAIN p.paths \cup {title} /\ q.paths[title] = Pending
      /\ \A t \in DOMAIN p.paths : q.paths[t] = p.paths[t]
  BY <1>1 DEF With
<1>3. Placed(q) = Placed(p) /\ \A t \in Placed(p) : q.paths[t] = p.paths[t]
  BY <1>2 DEF Placed
<1>4. Keeps(q)
  BY <1>1, <1>3 DEF Keeps, OwnParts, DeletedApart
<1>5. ToSet(q.creates) = ToSet(p.creates) \cup {title}
  BY <1>1, AppendElements
<1>6. ASSUME Ready(p, source.sheets) PROVE Ready(q, source.sheets)
  <2>1. Len(p.order) \in Nat /\ IsList(p.order)
    BY <1>6, Listed DEF Ready
  <2>2. to \in 1..(Len(p.order) + 1)
    <3>1. {at, Len(p.order) + 1} \in SUBSET Nat /\ {at, Len(p.order) + 1} # {}
      BY <2>1
    <3>2. to \in {at, Len(p.order) + 1} /\ to <= Len(p.order) + 1
      BY <3>1, MinIsLeast
    <3> HIDE DEF to
    <3> DEFINE n == Len(p.order)
    <3>3. n \in Nat /\ to \in {at, n + 1} /\ to <= n + 1
      BY <2>1, <3>2
    <3> HIDE DEF n
    <3>4. to \in 1..(n + 1)
      BY <3>3
    <3>5. QED
      BY <3>4 DEF n
  <2> HIDE DEF to
  <2>3. IsList(q.order) /\ ToSet(q.order) = ToSet(p.order) \cup {title}
    BY <1>1, <2>1, <2>2, InsertAtElements
  <2>4. title \notin Placed(p)
    BY DEF Placed
  <2>5. QED
    BY <1>1, <1>2, <1>3, <1>5, <1>6, <2>3, <2>4 DEF Ready
<1>7. QED
  BY <1>1, <1>4, <1>6 DEF q

\* queue_sheet_delete takes the part of the sheet out of use.
LEMMA QueuedDeletion ==
  ASSUME NEW p, DOMAIN p = PatcherFields, Keeps(p), p.creates \in Seq(Titles),
         NEW title \in DOMAIN p.paths
  PROVE  LET q == QueueDelete(p, title)
         IN /\ Keeps(q)
            /\ q.copies = p.copies
            /\ DOMAIN q = PatcherFields
            /\ IsList(q.creates)
            /\ DOMAIN q.paths = DOMAIN p.paths \ {title}
            /\ Ready(p, source.sheets) => Ready(q, source.sheets)
<1> DEFINE q == QueueDelete(p, title)
<1>1. /\ DOMAIN q = PatcherFields
      /\ q.adds = p.adds /\ q.dels = p.dels /\ q.renames = p.renames /\ q.moves = p.moves
      /\ q.copies = p.copies
      /\ q.paths = Without(p.paths, {title}) /\ q.order = Dropping(p.order, title)
      /\ p.paths[title] = Pending =>
           /\ q.creates = Dropping(p.creates, title)
           /\ q.deletes = p.deletes /\ q.deletedPaths = p.deletedPaths
      /\ p.paths[title] # Pending =>
           /\ q.creates = p.creates
           /\ q.deletes = Append(p.deletes, title)
           /\ q.deletedPaths = With(p.deletedPaths, title, p.paths[title])
  BY DEF QueueDelete, PatcherFields
<1> HIDE DEF q
<1>2. DOMAIN q.paths = DOMAIN p.paths \ {title}
      /\ \A t \in DOMAIN q.paths : q.paths[t] = p.paths[t]
  BY <1>1 DEF Without
<1>3. Placed(q) = Placed(p) \ {title} /\ \A t \in Placed(q) : q.paths[t] = p.paths[t]
  BY <1>2 DEF Placed
<1>4. OwnParts(q, DOMAIN source.parts)
  BY <1>3 DEF Keeps, OwnParts
<1>5. DeletedApart(q, DOMAIN source.parts)
  <2>1. CASE p.paths[title] = Pending
    BY <1>1, <1>3, <2>1 DEF Keeps, DeletedApart
  <2>2. CASE p.paths[title] # Pending
    <3>1. title \in Placed(p)
      BY <2>2 DEF Placed
    <3>2. IsList(q.deletes) /\ Len(q.deletes) = Len(p.deletes) + 1 /\ Len(p.deletes) \in Nat
      <4>1. IsList(p.deletes)
        BY DEF Keeps, DeletedApart
      <4>2. q.deletes = Append(p.deletes, title)
        BY <1>1, <2>2
      <4>3. QED
        BY <4>1, <4>2, AppendElements, Listed
    <3>3. q.deletes # <<>>
      BY <3>2
    <3>4. \A d \in DOMAIN q.deletedPaths :
            q.deletedPaths[d] = IF d = title THEN p.paths[title] ELSE p.deletedPaths[d]
      BY <1>1, <2>2 DEF With
    <3>5. DOMAIN q.deletedPaths = DOMAIN p.deletedPaths \cup {title}
      BY <1>1, <2>2 DEF With
    <3>6. \A t \in Placed(q) : t \in Placed(p) /\ p.paths[t] # p.paths[title]
      BY <1>3, <3>1 DEF Keeps, OwnParts
    <3>7. p.paths[title] \in DOMAIN source.parts
      BY <3>1 DEF Keeps, OwnParts
    <3>8. \A d \in DOMAIN q.deletedPaths :
            /\ q.deletedPaths[d] \in DOMAIN source.parts
            /\ \A t \in Placed(q) : q.paths[t] # q.deletedPaths[d]
      <4>1. ASSUME NEW d \in DOMAIN q.deletedPaths, d # title
            PROVE  /\ q.deletedPaths[d] \in DOMAIN source.parts
                   /\ \A t \in Placed(q) : q.paths[t] # q.deletedPaths[d]
        BY <1>3, <3>4, <3>5, <3>6, <4>1 DEF Keeps, DeletedApart
      <4>2. ASSUME NEW d \in DOMAIN q.deletedPaths, d = title
            PROVE  /\ q.deletedPaths[d] \in DOMAIN source.parts
                   /\ \A t \in Placed(q) : q.paths[t] # q.deletedPaths[d]
        BY <1>3, <3>4, <3>6, <3>7, <4>2
      <4>3. QED
        BY <4>1, <4>2
    <3>9. QED
      BY <3>2, <3>3, <3>8 DEF DeletedApart
  <2>3. QED
    BY <2>1, <2>2
<1>6. Keeps(q)
  BY <1>1, <1>4, <1>5 DEF Keeps
<1>7. IsList(q.creates)
      /\ ToSet(q.creates) = IF p.paths[title] = Pending THEN ToSet(p.creates) \ {title}
                                                        ELSE ToSet(p.creates)
  <2>1. IsList(p.creates)
    BY ListOf
  <2>2. IsList(Dropping(p.creates, title))
        /\ ToSet(Dropping(p.creates, title)) = ToSet(p.creates) \ {title}
    BY <2>1, LeavingIs DEF Dropping
  <2>3. QED
    BY <1>1, <2>1, <2>2
<1>8. ASSUME Ready(p, source.sheets) PROVE Ready(q, source.sheets)
  <2>1. IsList(q.order) /\ ToSet(q.order) = ToSet(p.order) \ {title}
    BY <1>1, <1>8, LeavingIs DEF Dropping, Ready
  <2>2. ToSet(q.deletes) = IF p.paths[title] = Pending THEN ToSet(p.deletes)
                                                       ELSE ToSet(p.deletes) \cup {title}
    BY <1>1, AppendElements DEF Keeps, DeletedApart
  <2>3. title \in Placed(p) <=> p.paths[title] # Pending
    BY DEF Placed
  <2>4. /\ ToSet(p.creates) = DOMAIN p.paths \ Placed(p)
        /\ ToSet(p.creates) \subseteq ToSet(p.order)
        /\ Placed(p) = TitlesOf(source.sheets) \ ToSet(p.deletes)
    BY <1>8 DEF Ready
  <2>5. Placed(q) = TitlesOf(source.sheets) \ ToSet(q.deletes)
    BY <1>3, <2>2, <2>3, <2>4
  <2>6. /\ ToSet(q.creates) = DOMAIN q.paths \ Placed(q)
        /\ ToSet(q.creates) \subseteq ToSet(q.order)
    BY <1>2, <1>3, <1>7, <2>1, <2>3, <2>4
  <2>7. QED
    BY <1>1, <1>8, <2>1, <2>5, <2>6 DEF Ready
<1>9. QED
  BY <1>1, <1>2, <1>6, <1>7, <1>8 DEF q

\* queue_sheet_rename hands the part on to the new title.
LEMMA QueuedRename ==
  ASSUME NEW p, DOMAIN p = PatcherFields, Keeps(p),
         NEW old \in DOMAIN p.paths, NEW new, new \notin DOMAIN p.paths
  PROVE  Keeps(QueueRename(p, old, new)) /\ QueueRename(p, old, new).copies = p.copies
<1> DEFINE q == QueueRename(p, old, new)
<1>1. /\ q.adds = p.adds /\ q.dels = p.dels /\ q.deletes = p.deletes
      /\ q.deletedPaths = p.deletedPaths /\ q.copies = p.copies
      /\ q.paths = With(Without(p.paths, {old}), new, p.paths[old])
  BY DEF QueueRename, PatcherFields
<1> HIDE DEF q
<1>2. /\ DOMAIN q.paths = (DOMAIN p.paths \ {old}) \cup {new}
      /\ q.paths[new] = p.paths[old]
      /\ \A t \in DOMAIN p.paths \ {old} : q.paths[t] = p.paths[t]
  BY <1>1 DEF With, Without
<1> DEFINE From(t) == IF t = new THEN old ELSE t
<1>3. \A t \in Placed(q) : From(t) \in Placed(p) /\ q.paths[t] = p.paths[From(t)]
  BY <1>2 DEF Placed
<1>4. \A t, u \in Placed(q) : From(t) = From(u) => t = u
  BY <1>2 DEF Placed
<1> HIDE DEF From
<1>5. OwnParts(q, DOMAIN source.parts)
  BY <1>3, <1>4 DEF Keeps, OwnParts
<1>6. DeletedApart(q, DOMAIN source.parts)
  BY <1>1, <1>3 DEF Keeps, DeletedApart
<1>7. QED
  BY <1>1, <1>5, <1>6 DEF Keeps, q

\* In a session with copies the patcher's titles are those of the <sheet> list and
\* the queue of creations; in one without, nothing is ever copied.
CopiesKnown(p) ==
  IF "copy" \in session.calls
  THEN Ready(p, source.sheets) /\ Whole(source.parts)
  ELSE sheetCopies = <<>>

EachOwns == AddsReachTheSource =>
  /\ Keeps(patcher)
  /\ Blocked(patcher)
  /\ CopiesKnown(patcher)

\* Every loaded sheet has its own part.
LEMMA InitOwns == Init => EachOwns
<1> SUFFICES ASSUME Init PROVE Keeps(patcher) /\ Blocked(patcher) /\ CopiesKnown(patcher)
  BY DEF EachOwns
<1> DEFINE n == Len(Loaded)
<1>1. /\ patcher.paths = [t \in ToSet(Loaded) |-> CHOOSE i \in DOMAIN Loaded : Loaded[i] = t]
      /\ patcher.order = Loaded
      /\ patcher.deletedPaths = <<>> /\ patcher.deletes = <<>> /\ patcher.creates = <<>>
      /\ patcher.copies = <<>> /\ patcher.renames = <<>> /\ patcher.moves = <<>>
      /\ patcher.adds = <<>> /\ patcher.dels = {}
  BY DEF Init, OpenPatcher
<1>2. /\ source.sheets = [i \in DOMAIN Loaded |-> [title |-> Loaded[i], rid |-> i]]
      /\ source.parts = [i \in DOMAIN Loaded |-> [of |-> Loaded[i], shifts |-> 0]]
  BY DEF Init, LoadedPackage
<1>3. /\ n \in Nat /\ DOMAIN Loaded = 1..n
      /\ \A i \in 1..n : Loaded[i] \in Titles
      /\ IsList(Loaded)
  BY TitlesAssumption, ListOf
<1> HIDE DEF n
<1>4. \A t \in ToSet(Loaded) : patcher.paths[t] \in 1..n /\ Loaded[patcher.paths[t]] = t
  BY <1>1, <1>3 DEF ToSet
<1>5. DOMAIN patcher.paths = ToSet(Loaded)
  BY <1>1
<1>6. Placed(patcher) = ToSet(Loaded)
  <2>1. \A t \in ToSet(Loaded) : patcher.paths[t] # Pending
    BY <1>3, <1>4 DEF Pending
  <2>2. QED
    BY <1>5, <2>1 DEF Placed
<1>7. DOMAIN source.parts = 1..n
  BY <1>2, <1>3
<1>8. OwnParts(patcher, DOMAIN source.parts)
  BY <1>4, <1>6, <1>7 DEF OwnParts
<1>9. DOMAIN patcher.adds = {} /\ DOMAIN patcher.deletedPaths = {}
  BY <1>1
<1>10. Keeps(patcher)
  BY <1>1, <1>8, <1>9, NothingListed DEF Keeps, DeletedApart
<1>11. Blocked(patcher)
  BY <1>1 DEF Blocked
<1>12. Whole(source.parts)
  BY <1>2, <1>3 DEF Whole, Promise!Contents
<1>13. Ready(patcher, source.sheets)
  <2> DEFINE all == [title : Titles, rid : 1..n]
  <2>1. source.sheets \in Seq(all)
    <3>1. source.sheets \in [1..n -> all]
      BY <1>2, <1>3
    <3> HIDE DEF all
    <3>2. QED
      BY <1>3, <3>1, FunctionIsSeq
  <2>2. IsList(source.sheets) /\ ToSet(source.sheets) \subseteq all
    <3> HIDE DEF all
    <3>1. QED
      BY <2>1, ListOf
  <2>3. Titled(source.sheets)
    BY <2>2 DEF Titled
  <2>4. TitlesOf(source.sheets) = ToSet(Loaded)
    BY <1>2, <1>3 DEF TitlesOf, Promise!TitlesOf, ToSet
  <2>5. \A i \in DOMAIN patcher.moves : patcher.moves[i].offset \in Int
    BY <1>1
  <2> HIDE DEF all
  <2>6. QED
    BY <1>1, <1>3, <1>5, <1>6, <2>2, <2>3, <2>4, <2>5, NothingListed DEF Ready
<1>14. QED
  BY <1>10, <1>11, <1>12, <1>13 DEF CopiesKnown, Init

\* No call gives a sheet the part of another.
LEMMA CallsOwn ==
  ASSUME QueuesTyped, AddsReachTheSource, Keeps(patcher), Blocked(patcher),
         CopiesKnown(patcher), Next
  PROVE  EachOwns' \/ Save(TRUE)
<1>1. ASSUME source' = source, session' = session, Keeps(patcher'),
             patcher'.copies = patcher.copies, sheetCopies' = sheetCopies,
             Ready(patcher, source.sheets) => Ready(patcher', source.sheets)
      PROVE  EachOwns'
  BY <1>1 DEF EachOwns, AddsReachTheSource, Keeps, Blocked, CopiesKnown
<1>2. /\ DOMAIN patcher = PatcherFields /\ patcher.creates \in Seq(Titles)
      /\ IsList(patcher.creates)
  BY ListOf DEF QueuesTyped
<1>3. Len(tabs) \in Nat /\ DOMAIN tabs = 1..Len(tabs)
  BY DEF QueuesTyped
<1>4. ASSUME NEW title, NEW at \in 1..(Len(tabs) + 1), Create(title, at)
      PROVE  EachOwns'
  <2>1. CASE CanQueueCreate(patcher, title)
    <3>1. title \notin DOMAIN patcher.paths /\ at \in Nat /\ at # 0
      BY <1>3, <2>1 DEF CanQueueCreate
    <3>2. /\ patcher' = QueueCreate(patcher, title, at) /\ sheetCopies' = sheetCopies
          /\ source' = source /\ session' = session
      BY <1>4, <2>1 DEF Create, Call
    <3>3. QED
      BY <1>1, <1>2, <3>1, <3>2, QueuedCreation
  <2>2. CASE ~CanQueueCreate(patcher, title)
    BY <1>1, <1>4, <2>2 DEF Create, Call
  <2>3. QED
    BY <2>1, <2>2
<1>5. ASSUME NEW i \in DOMAIN tabs, RemoveSheet(i)
      PROVE  EachOwns'
  <2> DEFINE old == tabs[i].title
  <2>1. CASE old \in DOMAIN patcher.paths
    <3>1. /\ patcher' = QueueDelete(patcher, old) /\ sheetCopies' = sheetCopies
          /\ source' = source /\ session' = session
      BY <1>5, <2>1 DEF RemoveSheet, Call
    <3> HIDE DEF old
    <3>2. QED
      BY <1>1, <1>2, <2>1, <3>1, QueuedDeletion
  <2>2. CASE old \notin DOMAIN patcher.paths
    BY <1>1, <1>5, <2>2 DEF RemoveSheet, Call
  <2>3. QED
    BY <2>1, <2>2
<1>6. ASSUME NEW i \in DOMAIN tabs, NEW new, Retitle(i, new)
      PROVE  EachOwns'
  <2> DEFINE old == tabs[i].title
             dropped == QueueDelete(patcher, old)
             next == QueueCreate(dropped, new, i)
  <2>1. source' = source /\ session' = session /\ sheetCopies' = sheetCopies
    BY <1>6 DEF Retitle, Call
  <2>2. CASE old \notin DOMAIN patcher.paths
    <3>1. patcher' = patcher
      BY <1>6, <2>2 DEF Retitle
    <3>2. QED
      BY <1>1, <2>1, <3>1
  <2>3. CASE old \in DOMAIN patcher.paths
    <3>1. /\ Keeps(dropped) /\ dropped.copies = patcher.copies
          /\ DOMAIN dropped = PatcherFields /\ IsList(dropped.creates)
          /\ Ready(patcher, source.sheets) => Ready(dropped, source.sheets)
      <4> HIDE DEF old
      <4>1. QED
        BY <1>2, <2>3, QueuedDeletion
    <3>2. CASE CanQueueCreate(dropped, new)
      <4>1. patcher' = next
        BY <1>6, <2>3, <3>2 DEF Retitle
      <4>2. new \notin DOMAIN dropped.paths /\ i \in Nat /\ i # 0
        BY <1>3, <3>2 DEF CanQueueCreate
      <4> HIDE DEF dropped
      <4>3. /\ Keeps(next) /\ next.copies = dropped.copies
            /\ Ready(dropped, source.sheets) => Ready(next, source.sheets)
        BY <3>1, <4>2, QueuedCreation
      <4> HIDE DEF next
      <4>4. QED
        BY <1>1, <2>1, <3>1, <4>1, <4>3
    <3>3. CASE ~CanQueueCreate(dropped, new)
      <4>1. patcher' = dropped
        BY <1>6, <2>3, <3>3 DEF Retitle
      <4> HIDE DEF dropped
      <4>2. QED
        BY <1>1, <2>1, <3>1, <4>1
    <3>4. QED
      BY <3>2, <3>3
  <2>4. QED
    BY <2>2, <2>3
<1>7. ASSUME NEW i \in DOMAIN tabs, NEW new, Rename(i, new)
      PROVE  EachOwns'
  <2> DEFINE old == tabs[i].title
  <2>1. source' = source /\ session' = session /\ sheetCopies' = sheetCopies
    BY <1>7 DEF Rename, Call
  <2>2. CASE old \in DOMAIN patcher.paths /\ new \notin DOMAIN patcher.paths
    <3>1. patcher' = QueueRename(patcher, old, new)
      BY <1>7, <2>2 DEF Rename
    <3>2. Keeps(patcher') /\ patcher'.copies = patcher.copies
      <4> HIDE DEF old
      <4>1. QED
        BY <1>2, <2>2, <3>1, QueuedRename
    <3>3. "copy" \notin session.calls
      BY <1>7 DEF Rename, Call, AddsReachTheSource
    <3>4. QED
      BY <2>1, <3>2, <3>3 DEF EachOwns, Blocked, Keeps, CopiesKnown
  <2>3. CASE ~(old \in DOMAIN patcher.paths /\ new \notin DOMAIN patcher.paths)
    <3>1. patcher' = patcher
      BY <1>7, <2>3 DEF Rename
    <3>2. QED
      BY <1>1, <2>1, <3>1
  <2>4. QED
    BY <2>2, <2>3
<1>8. ASSUME NEW i \in DOMAIN tabs, NEW offset \in Offsets, MoveSheet(i, offset)
      PROVE  EachOwns'
  <2> DEFINE move == [title |-> tabs[i].title, offset |-> offset]
  <2>1. source' = source /\ session' = session /\ sheetCopies' = sheetCopies
        /\ patcher' = [patcher EXCEPT !.moves = Append(@, move)]
    BY <1>8 DEF MoveSheet, Call
  <2>2. move.offset \in Int
    BY TitlesAssumption
  <2> HIDE DEF move
  <2>3. /\ patcher'.adds = patcher.adds /\ patcher'.dels = patcher.dels
        /\ patcher'.deletes = patcher.deletes /\ patcher'.paths = patcher.paths
        /\ patcher'.deletedPaths = patcher.deletedPaths /\ patcher'.order = patcher.order
        /\ patcher'.renames = patcher.renames /\ patcher'.creates = patcher.creates
        /\ patcher'.copies = patcher.copies
        /\ patcher'.moves = Append(patcher.moves, move)
    BY <1>2, <2>1 DEF PatcherFields
  <2>4. Placed(patcher') = Placed(patcher)
    BY <2>3 DEF Placed
  <2>5. Keeps(patcher')
    BY <2>3, <2>4 DEF Keeps, OwnParts, DeletedApart
  <2>6. ASSUME Ready(patcher, source.sheets) PROVE Ready(patcher', source.sheets)
    <3>1. IsList(patcher.moves)
          /\ \A j \in DOMAIN patcher.moves : patcher.moves[j].offset \in Int
      BY <2>6 DEF Ready
    <3>2. IsList(patcher'.moves) /\ ToSet(patcher'.moves) = ToSet(patcher.moves) \cup {move}
      BY <2>3, <3>1, AppendElements
    <3>3. \A m \in ToSet(patcher'.moves) : m.offset \in Int
      BY <2>2, <3>1, <3>2 DEF ToSet
    <3>4. \A j \in DOMAIN patcher'.moves : patcher'.moves[j].offset \in Int
      BY <3>3 DEF ToSet
    <3>5. QED
      BY <2>3, <2>4, <2>6, <3>2, <3>4 DEF Ready
  <2>7. QED
    BY <1>1, <2>1, <2>3, <2>5, <2>6
<1>9. ASSUME NEW i \in DOMAIN tabs, NEW dst, CopyWorksheet(i, dst)
      PROVE  EachOwns'
  <2> DEFINE copy == [src |-> tabs[i].title, dst |-> dst]
  <2>1. source' = source /\ session' = session /\ patcher' = patcher
        /\ sheetCopies' = Append(sheetCopies, copy)
        /\ "copy" \in session.calls
    BY <1>9 DEF CopyWorksheet, Call
  <2>2. sheetCopies # <<>> => sheetCopies' # <<>> /\ sheetCopies'[1] = sheetCopies[1]
    <3> HIDE DEF copy
    <3>1. QED
      BY <2>1 DEF QueuesTyped
  <2>3. QED
    BY <2>1, <2>2 DEF EachOwns, Blocked, Keeps, CopiesKnown
<1>10. ASSUME NEW i \in DOMAIN tabs, InsertRows(i)
       PROVE  EachOwns'
  BY <1>1, <1>10 DEF InsertRows, Call
<1>11. "elsewhere" \notin session.saves
  BY DEF AddsReachTheSource
<1>12. QED
  BY <1>4, <1>5, <1>6, <1>7, <1>8, <1>9, <1>10, <1>11 DEF Next

\* Nor does a save: it is turned down before it starts, or it gives every new sheet
\* a part of its own and puts all of them in the source.
LEMMA SavesOwn ==
  ASSUME QueuesTyped, PartsApart, AddsReachTheSource, Keeps(patcher), Blocked(patcher),
         CopiesKnown(patcher), Save(TRUE)
  PROVE  EachOwns'
<1> DEFINE w == Phases(Flushed)
<1>1. /\ SameRest(FlushCopies.p, patcher)
      /\ FlushCopies.p.adds = patcher.adds /\ FlushCopies.p.paths = patcher.paths
      /\ FlushCopies.p.creates = patcher.creates
      /\ Blocked(FlushCopies.p)
      /\ FlushCopies.ok => patcher.copies = <<>> /\ Planned(patcher, FlushCopies.p.copies)
  BY FlushPlans
<1>2. Fits(Flushed) /\ Fits(FlushCopies.p)
      /\ (sheetCopies = <<>> => FlushCopies.ok /\ Flushed.copies = patcher.copies)
  BY FlushedFits
<1>3. /\ SameRest(Flushed, patcher) /\ Flushed.copies = FlushCopies.p.copies
      /\ Flushed.adds = patcher.adds /\ Flushed.paths = patcher.paths
      /\ Flushed.creates = patcher.creates
  BY <1>1, <1>2 DEF Flushed, SameRest, Fits, PatcherFields
<1>4. ASSUME NEW q, SameRest(q, patcher), q.adds = patcher.adds, q.paths = patcher.paths,
             q.creates = patcher.creates
      PROVE  /\ Keeps(q)
             /\ Ready(q, source.sheets) <=> Ready(patcher, source.sheets)
  <2>1. Placed(q) = Placed(patcher)
    BY <1>4 DEF Placed
  <2>2. Keeps(q)
    BY <1>4, <2>1 DEF SameRest, Keeps, OwnParts, DeletedApart
  <2>3. Ready(q, source.sheets) <=> Ready(patcher, source.sheets)
    BY <1>4, <2>1 DEF SameRest, Ready
  <2>4. QED
    BY <2>2, <2>3
<1>5. session' = session /\ AddsReachTheSource'
  BY DEF Save, AddsReachTheSource
<1>6. CASE ~FlushCopies.ok
  <2>1. patcher' = FlushCopies.p /\ sheetCopies' = sheetCopies /\ source' = source
    BY <1>6 DEF Save, SaveRefused, SaveFails, SaveSucceeds
  <2>2. "copy" \in session.calls
    BY <1>2, <1>6 DEF CopiesKnown
  <2>3. Keeps(FlushCopies.p)
        /\ (Ready(FlushCopies.p, source.sheets) <=> Ready(patcher, source.sheets))
    BY <1>1, <1>4
  <2>4. QED
    BY <1>1, <1>5, <2>1, <2>2, <2>3 DEF EachOwns, Keeps, Blocked, CopiesKnown
<1>7. CASE FlushCopies.ok
  <2>1. patcher.copies = <<>> /\ Planned(patcher, Flushed.copies)
    BY <1>1, <1>3, <1>7
  <2>2. Keeps(Flushed) /\ (Ready(Flushed, source.sheets) <=> Ready(patcher, source.sheets))
    BY <1>1, <1>3, <1>4
  <2>3. Starts(Flushed)
    BY <1>2, <2>2 DEF Starts, Keeps, PartsApart
  <2>4. IF "copy" \in session.calls THEN Copiable(Flushed) ELSE Flushed.copies = <<>>
    <3>1. "copy" \notin session.calls => Flushed.copies = <<>>
      BY <1>2, <2>1 DEF CopiesKnown
    <3>2. QED
      BY <1>3, <2>1, <2>2, <3>1 DEF Copiable, CopiesKnown, Planned
  <2>5. /\ w.ok /\ Hands(w)
        /\ w.p.deletes = <<>> /\ DOMAIN w.p.deletedPaths = {}
        /\ w.p.copies = <<>> /\ w.p.renames = Flushed.renames
        /\ Copiable(Flushed) => Settled(w)
    BY <2>3, <2>4, PhasesHand
  <2>6. w.p.creates = <<>>
    BY PhasesFit
  <2>7. sheetCopies' = <<>>
    BY <1>7, <2>5 DEF Save, SaveRefused, SaveFails, SaveSucceeds
  <2> HIDE DEF w
  <2>8. ~Collides(w)
    BY <2>5 DEF Collides, Hands, Allocates, AddsAreNew
  <2>9. CASE patcher' = patcher /\ source' = source
    BY <1>5, <2>1, <2>7, <2>9 DEF EachOwns, Keeps, Blocked, CopiesKnown
  <2>10. CASE source' = Package(w) /\ patcher' = ResetAfterInPlace(w.p)
    <3>1. /\ DOMAIN w.p = PatcherFields
          /\ DOMAIN source'.parts = (DOMAIN source.parts \ w.p.dels) \cup DOMAIN w.p.adds
          /\ source'.sheets = w.sheets
      BY <2>5, <2>10 DEF Package, Hands, Allocates
    <3>2. /\ patcher'.paths = w.p.paths /\ patcher'.deletes = <<>>
          /\ patcher'.deletedPaths = w.p.deletedPaths /\ patcher'.creates = <<>>
          /\ patcher'.copies = <<>> /\ patcher'.order = w.p.order
          /\ patcher'.renames = w.p.renames /\ patcher'.moves = w.p.moves
          /\ DOMAIN patcher'.adds = {} /\ patcher'.dels = {}
      BY <2>5, <2>6, <2>10, <3>1 DEF ResetAfterInPlace, PatcherFields
    <3>3. Placed(patcher') = Placed(w.p)
      BY <3>2 DEF Placed
    <3>4. OwnParts(patcher', DOMAIN source'.parts)
      BY <2>5, <3>1, <3>2, <3>3 DEF Hands, OwnParts
    <3>5. DeletedApart(patcher', DOMAIN source'.parts)
      BY <2>5, <3>2, NothingListed DEF DeletedApart
    <3>6. Keeps(patcher)'
      BY <3>2, <3>4, <3>5 DEF Keeps
    <3>7. Blocked(patcher)'
      BY <3>2 DEF Blocked
    <3>8. ASSUME "copy" \in session.calls
          PROVE  Ready(patcher', source'.sheets) /\ Whole(source'.parts)
      <4>1. Ready(patcher, source.sheets) /\ Whole(source.parts)
        BY <3>8 DEF CopiesKnown
      <4>2. Settled(w) /\ w.p.renames = <<>>
        BY <2>2, <2>4, <2>5, <3>8, <4>1 DEF Ready
      <4>3. Ready(patcher', source'.sheets)
        BY <3>1, <3>2, <3>3, <4>2, NothingListed DEF Ready, Settled
      <4>4. \A x \in DOMAIN source'.parts : source'.parts[x] = Current(w, x)
        BY <2>10 DEF Package
      <4>5. \A x \in DOMAIN source'.parts : x \in DOMAIN source.parts \cup DOMAIN w.p.adds
        BY <3>1
      <4>6. \A x \in DOMAIN source'.parts : Current(w, x) \in Promise!Contents
        BY <4>1, <4>2, <4>5, CurrentIsWhole DEF Settled
      <4>7. QED
        BY <4>3, <4>4, <4>6 DEF Whole
    <3>9. QED
      BY <1>5, <2>7, <3>6, <3>7, <3>8 DEF EachOwns, CopiesKnown
  <2>11. ~session.faults
    BY DEF AddsReachTheSource
  <2>12. QED
    BY <1>7, <2>5, <2>8, <2>9, <2>10, <2>11 DEF Save, SaveRefused, SaveFails, SaveSucceeds, w
<1>8. QED
  BY <1>6, <1>7

\* OnePartEach (part_id_allocator.rs:1-80, patcher_workbook.rs:1906-1911), for every
\* workbook and every session whose saves are in place and do not fail, however many
\* sheets it creates, copies, moves and removes: no two sheets have the same part.
THEOREM EachSheetHasItsPart == Spec => []OnePartEach
<1>1. QueuesTyped /\ PartsApart /\ EachOwns /\ [Next]_vars => EachOwns'
  <2> SUFFICES ASSUME QueuesTyped, PartsApart, EachOwns, [Next]_vars
               PROVE  EachOwns'
    OBVIOUS
  <2>1. CASE UNCHANGED vars
    BY <2>1 DEF vars, EachOwns, AddsReachTheSource, Keeps, Blocked, CopiesKnown
  <2>2. CASE Next
    <3>1. session' = session
      BY <2>2 DEF Next, Call, Save, Create, RemoveSheet, Retitle, Rename, MoveSheet,
                  CopyWorksheet, InsertRows
    <3>2. CASE ~AddsReachTheSource
      BY <3>1, <3>2 DEF EachOwns, AddsReachTheSource
    <3>3. CASE AddsReachTheSource
      <4>1. Keeps(patcher) /\ Blocked(patcher) /\ CopiesKnown(patcher)
        BY <3>3 DEF EachOwns
      <4>2. QED
        BY <2>2, <3>3, <4>1, CallsOwn, SavesOwn
    <3>4. QED
      BY <3>2, <3>3
  <2>3. QED
    BY <2>1, <2>2
<1>2. EachOwns => OnePartEach
  BY DEF EachOwns, OnePartEach, Keeps, OwnParts, Placed
<1>3. QED
  BY <1>1, <1>2, InitApart, StepApart, InitOwns, PTL DEF Spec
=============================================================================
