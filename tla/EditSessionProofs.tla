------------------------- MODULE EditSessionProofs -------------------------
(* For every well-formed package, every sheet size and any number of edits,
   saves and new sessions.  First what edits make of a package: its worksheets,
   its parts and what links them; then that each action makes such an edit. *)
EXTENDS EditSession, SequenceLemmas, FiniteSetTheorems

-----------------------------------------------------------------------------
(* The list of worksheets. *)

SheetStep(rels, found, e) ==
  IF rels[e.rid].kind = "worksheet"
  THEN Append(found, [name |-> e.name, path |-> rels[e.rid].path]) ELSE found

Listings == INSTANCE FoldInduction WITH Op <- SheetStep, Good <- LAMBDA rels, found : TRUE

SheetOf(entries, rels, i) == [name |-> entries[i].name, path |-> rels[entries[i].rid].path]

\* Where the worksheets are among the entries, and the list that is made of them.
Positions(entries, rels) ==
  {i \in 1..Len(entries) : rels[entries[i].rid].kind = "worksheet"}
Listing(entries, rels, pos, m) == [j \in 1..m |-> SheetOf(entries, rels, pos[j])]

\* The worksheets are those of the entries that link one, in order.
LEMMA SheetsHaveAListing ==
  ASSUME NEW D, NEW workbook, workbook.entries \in Seq(D), NEW rels
  PROVE  \E m, pos : /\ Enumerates(pos, m, Positions(workbook.entries, rels))
                     /\ SheetsOf(workbook, rels) = Listing(workbook.entries, rels, pos, m)
<1> DEFINE e == workbook.entries
           n == Len(e)
           Upto(k) == {i \in 1..k : rels[e[i].rid].kind = "worksheet"}
<1>1. SheetsOf(workbook, rels) = Listings!Folded(rels, <<>>, e)
  BY DEF SheetsOf, FoldLeft, MapThenFoldSet, Max, SheetStep,
         Listings!Folded, Listings!IsFold, Listings!Top
<1>2. PICK f : Listings!PrefixFolds(rels, <<>>, e, f)
  BY Listings!PrefixesFold
<1>3. /\ n \in Nat
      /\ f[1..0] = <<>>
      /\ \A k \in 0..(n - 1) : f[1..(k + 1)] = SheetStep(rels, f[1..k], e[k + 1])
      /\ SheetsOf(workbook, rels) = f[1..n]
  BY <1>1, <1>2 DEF Listings!PrefixFolds
<1> DEFINE Has1(k) == \E m, pos : Enumerates(pos, m, Upto(k)) /\ f[1..k] = Listing(e, rels, pos, m)
           T == {k \in Nat : k <= n => Has1(k)}
<1> HIDE DEF e, n, Has1
<1>4. 0 \in T
  <2> DEFINE none == [j \in 1..0 |-> 0]
  <2>1. Enumerates(none, 0, Upto(0))
    BY DEF Enumerates
  <2>2. Listing(e, rels, none, 0) = <<>>
    BY DEF Listing
  <2>3. QED
    BY <1>3, <2>1, <2>2 DEF Has1
<1>5. ASSUME NEW k \in T PROVE k + 1 \in T
  <2> SUFFICES ASSUME k + 1 <= n PROVE Has1(k + 1)
    OBVIOUS
  <2>1. k \in Nat /\ k <= n /\ k \in 0..(n - 1)
    BY <1>3
  <2>2. PICK m, pos : Enumerates(pos, m, Upto(k)) /\ f[1..k] = Listing(e, rels, pos, m)
    BY <2>1 DEF Has1
  <2>3. CASE rels[e[k + 1].rid].kind = "worksheet"
    <3> DEFINE longer == [j \in 1..(m + 1) |-> IF j = m + 1 THEN k + 1 ELSE pos[j]]
    <3>1. /\ m \in Nat /\ \A j \in 1..m : pos[j] \in Upto(k) /\ pos[j] \in Nat /\ pos[j] <= k
          /\ \A j, l \in 1..m : j < l => pos[j] < pos[l]
          /\ \A i \in Upto(k) : \E j \in 1..m : pos[j] = i
      BY <2>1, <2>2 DEF Enumerates
    <3>2. \A i : i \in Upto(k + 1) <=> i \in Upto(k) \/ i = k + 1
      BY <2>1, <2>3
    <3> HIDE DEF Upto
    <3>3. longer \in [1..(m + 1) -> Upto(k + 1)]
      BY <3>1, <3>2
    <3>4. \A j, l \in 1..(m + 1) : j < l => longer[j] < longer[l]
      BY <2>1, <3>1
    <3>5. \A i \in Upto(k + 1) : \E j \in 1..(m + 1) : longer[j] = i
      <4> TAKE i \in Upto(k + 1)
      <4>1. CASE i = k + 1
        <5>1. m + 1 \in 1..(m + 1) /\ longer[m + 1] = k + 1
          BY <3>1
        <5>2. QED
          BY <4>1, <5>1
      <4>2. CASE i # k + 1
        BY <3>1, <3>2, <4>2
      <4>3. QED
        BY <4>1, <4>2
    <3>6. Upto(k + 1) \subseteq Nat
      BY <2>1 DEF Upto
    <3>7. Enumerates(longer, m + 1, Upto(k + 1))
      BY <3>1, <3>3, <3>4, <3>5, <3>6 DEF Enumerates
    <3>8. f[1..(k + 1)] = Append(Listing(e, rels, pos, m), SheetOf(e, rels, k + 1))
      BY <1>3, <2>1, <2>2, <2>3 DEF SheetStep, SheetOf
    <3>9. Append(Listing(e, rels, pos, m), SheetOf(e, rels, k + 1)) = Listing(e, rels, longer, m + 1)
      <4> DEFINE D1 == {SheetOf(e, rels, i) : i \in 0..n}
                 a == Listing(e, rels, pos, m)
                 b == Listing(e, rels, longer, m + 1)
                 x == SheetOf(e, rels, k + 1)
      <4>1. \A i \in 0..n : SheetOf(e, rels, i) \in D1
        OBVIOUS
      <4>9. k + 1 \in 0..n /\ \A j \in 1..m : pos[j] \in 0..n
        BY <1>3, <2>1, <3>1
      <4>10. \A j \in 1..(m + 1) : longer[j] \in 0..n
        BY <3>1, <4>9
      <4>11. longer[m + 1] = k + 1 /\ \A j \in 1..m : longer[j] = pos[j]
        BY <3>1
      <4> HIDE DEF D1, longer
      <4>2. a \in [1..m -> D1] /\ \A j \in 1..m : a[j] = SheetOf(e, rels, pos[j])
        BY <4>1, <4>9 DEF Listing
      <4>3. b \in [1..(m + 1) -> D1] /\ \A j \in 1..(m + 1) : b[j] = SheetOf(e, rels, longer[j])
        BY <4>1, <4>10 DEF Listing
      <4>12. x \in D1
        BY <4>1, <4>9
      <4> HIDE DEF a, b, x
      <4>4. a \in Seq(D1) /\ Len(a) = m /\ b \in Seq(D1) /\ Len(b) = m + 1
        BY <3>1, <4>2, <4>3, FunctionIsSeq
      <4>5. Append(a, x) \in Seq(D1) /\ Len(Append(a, x)) = m + 1
            /\ Append(a, x)[m + 1] = x /\ \A j \in 1..m : Append(a, x)[j] = a[j]
        BY <3>1, <4>4, <4>12, AppendProperties
      <4>6. \A j \in 1..(m + 1) : Append(a, x)[j] = b[j]
        <5> TAKE j \in 1..(m + 1)
        <5>1. CASE j = m + 1
          BY <4>3, <4>5, <4>11, <5>1 DEF x
        <5>2. CASE j # m + 1
          <6>1. j \in 1..m
            BY <3>1, <5>2
          <6>2. QED
            BY <4>2, <4>3, <4>5, <4>11, <6>1
        <5>3. QED
          BY <5>1, <5>2
      <4>7. Append(a, x) = b
        BY <4>4, <4>5, <4>6, SameSequence
      <4>8. QED
        BY <4>7 DEF a, b, x
    <3>10. QED
      BY <3>7, <3>8, <3>9 DEF Has1
  <2>4. CASE rels[e[k + 1].rid].kind # "worksheet"
    <3>1. Upto(k + 1) = Upto(k)
      BY <2>1, <2>4
    <3>2. f[1..(k + 1)] = f[1..k]
      BY <1>3, <2>1, <2>4 DEF SheetStep
    <3>3. QED
      BY <2>2, <3>1, <3>2 DEF Has1
  <2>5. QED
    BY <2>3, <2>4
<1>6. T = Nat
  <2>1. T \in SUBSET Nat
    OBVIOUS
  <2> HIDE DEF T
  <2>2. QED
    BY <1>4, <1>5, <2>1, AllNaturals
<1>7. Has1(n)
  <2>1. n \in T /\ n <= n
    BY <1>3, <1>6
  <2>2. QED
    BY <2>1
<1>8. Upto(n) = Positions(e, rels)
  BY DEF Positions, n
<1>9. QED
  BY <1>3, <1>7, <1>8 DEF e, Has1

\* Any such listing is the list.
LEMMA SheetsAreTheListing ==
  ASSUME NEW D, NEW workbook, workbook.entries \in Seq(D), NEW rels, NEW m, NEW pos,
         Enumerates(pos, m, Positions(workbook.entries, rels))
  PROVE  SheetsOf(workbook, rels) = Listing(workbook.entries, rels, pos, m)
<1>1. PICK n, q : /\ Enumerates(q, n, Positions(workbook.entries, rels))
                  /\ SheetsOf(workbook, rels) = Listing(workbook.entries, rels, q, n)
  BY SheetsHaveAListing
<1>2. m = n /\ pos = q
  BY <1>1, EnumerationsAgree
<1>3. QED
  BY <1>1, <1>2

\* So every worksheet is one of an entry, and every such entry has one.
LEMMA SheetsAreEntries ==
  ASSUME NEW D, NEW workbook, workbook.entries \in Seq(D), NEW rels
  PROVE  LET entries == workbook.entries
             listed  == SheetsOf(workbook, rels)
         IN /\ DOMAIN listed = 1..Len(listed) /\ Len(listed) \in Nat
            /\ listed = [j \in 1..Len(listed) |-> listed[j]]
            /\ \A j \in 1..Len(listed) : \E i \in Positions(entries, rels) :
                 listed[j] = SheetOf(entries, rels, i)
            /\ \A i \in Positions(entries, rels) : \E j \in 1..Len(listed) :
                 listed[j] = SheetOf(entries, rels, i)
<1> DEFINE entries == workbook.entries
           listed  == SheetsOf(workbook, rels)
<1>1. PICK m, pos : /\ Enumerates(pos, m, Positions(entries, rels))
                    /\ listed = Listing(entries, rels, pos, m)
  BY SheetsHaveAListing
<1> HIDE DEF entries, listed
<1>2. m \in Nat /\ \A j \in 1..m : pos[j] \in Positions(entries, rels)
  BY <1>1 DEF Enumerates
<1>3. \A i \in Positions(entries, rels) : \E j \in 1..m : pos[j] = i
  BY <1>1 DEF Enumerates
<1>4. listed = [j \in 1..m |-> SheetOf(entries, rels, pos[j])]
  BY <1>1 DEF Listing
<1>5. Len(listed) = m
  BY <1>2, <1>4
<1>6. QED
  BY <1>2, <1>3, <1>4, <1>5 DEF entries, listed

\* Only the entries and what they link to count.
LEMMA SheetsStay ==
  ASSUME NEW D, NEW before, before.entries \in Seq(D), NEW after, NEW rels, NEW links,
         after.entries = before.entries,
         \A i \in 1..Len(before.entries) :
           links[before.entries[i].rid] = rels[before.entries[i].rid]
  PROVE  SheetsOf(after, links) = SheetsOf(before, rels)
<1> DEFINE e == before.entries
<1>1. PICK m, pos : /\ Enumerates(pos, m, Positions(e, rels))
                    /\ SheetsOf(before, rels) = Listing(e, rels, pos, m)
  BY SheetsHaveAListing
<1>2. Positions(e, links) = Positions(e, rels)
  BY DEF Positions
<1>3. SheetsOf(after, links) = Listing(e, links, pos, m)
  BY <1>1, <1>2, SheetsAreTheListing
<1>4. \A j \in 1..m : pos[j] \in 1..Len(e)
  BY <1>1 DEF Enumerates, Positions
<1> HIDE DEF e
<1>5. \A j \in 1..m : SheetOf(e, links, pos[j]) = SheetOf(e, rels, pos[j])
  BY <1>4 DEF SheetOf, e
<1>6. QED
  BY <1>1, <1>3, <1>5 DEF Listing

\* A new name is a new name in the list.
LEMMA SheetsRenamed ==
  ASSUME NEW before, before.entries \in Seq(Entries), NEW after, NEW rels, NEW old, NEW new,
         after.entries = Renamed(before.entries, old, new),
         after.entries \in Seq(Entries)
  PROVE  SheetsOf(after, rels) = Renamed(SheetsOf(before, rels), old, new)
<1> DEFINE e == before.entries
           d == after.entries
           listed == SheetsOf(before, rels)
<1>1. PICK m, pos : /\ Enumerates(pos, m, Positions(e, rels))
                    /\ SheetsOf(before, rels) = Listing(e, rels, pos, m)
  BY SheetsHaveAListing
<1>2. /\ DOMAIN e = 1..Len(e) /\ DOMAIN d = 1..Len(e) /\ Len(d) = Len(e)
      /\ \A i \in 1..Len(e) : e[i] \in Entries
      /\ \A i \in 1..Len(e) : d[i] = IF e[i].name = old THEN [e[i] EXCEPT !.name = new] ELSE e[i]
  BY DEF Renamed
<1> HIDE DEF e, d
<1>3. \A i \in 1..Len(e) : /\ d[i].rid = e[i].rid
                          /\ d[i].name = IF e[i].name = old THEN new ELSE e[i].name
  BY <1>2 DEF Entries
<1>4. Positions(d, rels) = Positions(e, rels)
  BY <1>2, <1>3 DEF Positions
<1>5. SheetsOf(after, rels) = Listing(d, rels, pos, m)
  <2>1. Enumerates(pos, m, Positions(after.entries, rels))
    BY <1>1, <1>4 DEF d
  <2>2. QED
    BY <2>1, SheetsAreTheListing DEF d
<1>6. \A j \in 1..m : pos[j] \in 1..Len(e)
  BY <1>1 DEF Enumerates, Positions
<1>7. ASSUME NEW i \in 1..Len(e)
      PROVE  SheetOf(d, rels, i) = IF SheetOf(e, rels, i).name = old
                                   THEN [SheetOf(e, rels, i) EXCEPT !.name = new]
                                   ELSE SheetOf(e, rels, i)
  BY <1>3 DEF SheetOf
<1>8. listed = [j \in 1..m |-> SheetOf(e, rels, pos[j])]
  BY <1>1 DEF Listing
<1> HIDE DEF listed
<1>9. DOMAIN listed = 1..m /\ \A j \in 1..m : listed[j] = SheetOf(e, rels, pos[j])
  BY <1>8
<1>10. \A j \in 1..m : SheetOf(d, rels, pos[j])
                        = IF listed[j].name = old THEN [listed[j] EXCEPT !.name = new] ELSE listed[j]
  BY <1>6, <1>7, <1>9
<1>11. SheetsOf(after, rels) =
         [j \in 1..m |-> IF listed[j].name = old THEN [listed[j] EXCEPT !.name = new] ELSE listed[j]]
  BY <1>5, <1>10 DEF Listing
<1>12. QED
  BY <1>9, <1>11 DEF listed, Renamed

HasInserted(d, e, at, x) ==
  \A j \in 1..(Len(e) + 1) :
    d[j] = IF j < at + 1 THEN e[j] ELSE IF j = at + 1 THEN x ELSE e[j - 1]

\* The entries with one more at a zero-based position.
LEMMA Inserted ==
  ASSUME NEW D, NEW e \in Seq(D), NEW x \in D, NEW at \in 0..Len(e)
  PROVE  /\ InsertAt(e, at + 1, x) \in Seq(D)
         /\ Len(InsertAt(e, at + 1, x)) = Len(e) + 1
         /\ HasInserted(InsertAt(e, at + 1, x), e, at, x)
<1> DEFINE i == at + 1
           d == InsertAt(e, i, x)
<1>1. i \in 1..(Len(e) + 1)
  OBVIOUS
<1> HIDE DEF i
<1>2. /\ d \in Seq(D) /\ Len(d) = Len(e) + 1
      /\ \A j \in 1..(Len(e) + 1) : d[j] = IF j < i THEN e[j] ELSE IF j = i THEN x ELSE e[j - 1]
  BY <1>1, InsertAtProperties
<1> HIDE DEF d
<1>3. d \in Seq(D) /\ Len(d) = Len(e) + 1 /\ HasInserted(d, e, at, x)
  BY <1>2 DEF HasInserted, i
<1>4. QED
  BY <1>3 DEF d, i

\* The same of a sequence that is the result.
LEMMA InsertedThere ==
  ASSUME NEW D, NEW e \in Seq(D), NEW x \in D, NEW at \in 0..Len(e), NEW d, d = InsertAt(e, at + 1, x)
  PROVE  HasInserted(d, e, at, x)
BY Inserted

\* A workbook with one more entry, before that of a worksheet or after the last.
Grows(before, after, rels, links, at, entry, place) ==
  /\ before.entries \in Seq(Entries)
  /\ at \in 0..Len(before.entries) /\ entry \in Entries
  /\ place \in 0..Len(SheetsOf(before, rels))
  /\ after.entries = InsertAt(before.entries, at + 1, entry)
  /\ IF place < Len(SheetsOf(before, rels))
     THEN /\ at < Len(before.entries)
          /\ SheetsOf(before, rels)[place + 1] = SheetOf(before.entries, rels, at + 1)
          /\ at + 1 \in Positions(before.entries, rels)
     ELSE at = Len(before.entries)
  /\ \A i, j \in 1..Len(before.entries) :
       before.entries[i].name = before.entries[j].name => i = j
  /\ links[entry.rid].kind = "worksheet"
  /\ \A i \in 1..Len(before.entries) :
       links[before.entries[i].rid] = rels[before.entries[i].rid]

OneMore(list, place, x) ==
  [j \in 1..(Len(list) + 1) |->
     IF j <= place THEN list[j] ELSE IF j = place + 1 THEN x ELSE list[j - 1]]

\* The entry put before that of a worksheet, or after the last, is put before
\* that worksheet in the list, or after the last.
LEMMA SheetsWithOneMore ==
  ASSUME NEW before, NEW after, NEW rels, NEW links, NEW at, NEW entry, NEW place,
         Grows(before, after, rels, links, at, entry, place)
  PROVE  SheetsOf(after, links) =
           OneMore(SheetsOf(before, rels), place, [name |-> entry.name, path |-> links[entry.rid].path])
<1> DEFINE e == before.entries
           d == after.entries
           n == Len(e)
           listed == SheetsOf(before, rels)
           sheet  == [name |-> entry.name, path |-> links[entry.rid].path]
<1>0. /\ before.entries \in Seq(Entries)
      /\ at \in 0..Len(before.entries) /\ entry \in Entries
      /\ place \in 0..Len(SheetsOf(before, rels))
      /\ after.entries = InsertAt(before.entries, at + 1, entry)
      /\ IF place < Len(SheetsOf(before, rels))
         THEN /\ at < Len(before.entries)
              /\ SheetsOf(before, rels)[place + 1] = SheetOf(before.entries, rels, at + 1)
              /\ at + 1 \in Positions(before.entries, rels)
         ELSE at = Len(before.entries)
      /\ \A i, j \in 1..Len(before.entries) :
           before.entries[i].name = before.entries[j].name => i = j
      /\ links[entry.rid].kind = "worksheet"
      /\ \A i \in 1..Len(before.entries) :
           links[before.entries[i].rid] = rels[before.entries[i].rid]
  BY DEF Grows
<1>1. PICK m, pos : /\ Enumerates(pos, m, Positions(e, rels))
                    /\ listed = Listing(e, rels, pos, m)
  BY <1>0, SheetsHaveAListing
<1>2. /\ n \in Nat /\ at \in 0..n
      /\ d \in Seq(Entries) /\ Len(d) = n + 1
      /\ \A j \in 1..(n + 1) : d[j] = IF j < at + 1 THEN e[j] ELSE IF j = at + 1 THEN entry ELSE e[j - 1]
  <2>1. /\ n \in Nat /\ at \in 0..n /\ at + 1 \in 1..(n + 1) /\ n = Len(e)
        /\ e \in Seq(Entries) /\ d = InsertAt(e, at + 1, entry) /\ entry \in Entries
    BY <1>0
  <2> HIDE DEF e, d, n
  <2>2. e \in Seq(Entries) /\ entry \in Entries /\ at \in 0..Len(e)
    BY <2>1
  <2>3. /\ InsertAt(e, at + 1, entry) \in Seq(Entries)
        /\ Len(InsertAt(e, at + 1, entry)) = Len(e) + 1
        /\ HasInserted(InsertAt(e, at + 1, entry), e, at, entry)
    BY <2>2, Inserted
  <2>5. HasInserted(d, e, at, entry)
    BY <2>1, <2>3
  <2>4. QED
    BY <2>1, <2>3, <2>5 DEF HasInserted
<1> HIDE DEF e, d, n
<1>3. listed = [j \in 1..m |-> SheetOf(e, rels, pos[j])]
  BY <1>1 DEF Listing
<1> HIDE DEF listed
<1>4. /\ m \in Nat /\ Len(listed) = m /\ place \in 0..m
      /\ \A j \in 1..m : pos[j] \in Positions(e, rels) /\ pos[j] \in 1..n
      /\ \A j, k \in 1..m : j < k => pos[j] < pos[k]
      /\ \A i \in Positions(e, rels) : \E j \in 1..m : pos[j] = i
      /\ \A j \in 1..m : listed[j] = SheetOf(e, rels, pos[j])
  <2>1. m \in Nat
    BY <1>1 DEF Enumerates
  <2>2. Len(listed) = m
    BY <1>3, <2>1
  <2>3. place \in 0..m
    BY <1>0, <2>2 DEF listed
  <2>4. \A j \in 1..m : pos[j] \in Positions(e, rels)
    BY <1>1 DEF Enumerates
  <2>5. QED
    BY <1>1, <1>3, <2>1, <2>2, <2>3, <2>4 DEF Enumerates, Positions, n
<1>5. place < m => at < n /\ pos[place + 1] = at + 1
  <2> SUFFICES ASSUME place < m PROVE at < n /\ pos[place + 1] = at + 1
    OBVIOUS
  <2>0. place < m
    OBVIOUS
  <2>1. /\ at < n
        /\ listed[place + 1] = SheetOf(e, rels, at + 1)
    BY <1>0, <1>4, <2>0 DEF listed, e, n
  <2>2. place + 1 \in 1..m /\ at + 1 \in 1..n
    BY <1>2, <1>4, <2>1
  <2>3. e[pos[place + 1]].name = e[at + 1].name
    BY <1>4, <2>1, <2>2 DEF SheetOf
  <2>4. \A i, j \in 1..n : e[i].name = e[j].name => i = j
    BY <1>0 DEF e, n
  <2>5. QED
    BY <1>4, <2>1, <2>2, <2>3, <2>4
<1>6. place = m => at = n
  BY <1>0, <1>4 DEF listed, e, n
<1>7. \A j \in 1..m : (j <= place => pos[j] < at + 1) /\ (j > place => pos[j] >= at + 1)
  <2> TAKE j \in 1..m
  <2>1. CASE place < m
    <3>1. place + 1 \in 1..m
      BY <1>4, <2>1
    <3>2. j < place + 1 => pos[j] < pos[place + 1]
      BY <1>4, <3>1
    <3>3. place + 1 < j => pos[place + 1] < pos[j]
      BY <1>4, <3>1
    <3>4. QED
      BY <1>2, <1>4, <1>5, <2>1, <3>1, <3>2, <3>3
  <2>2. CASE place = m
    BY <1>2, <1>4, <1>6, <2>2
  <2>3. QED
    BY <1>4, <2>1, <2>2
<1> DEFINE q == Pushed(pos, m, place, at + 1)
<1>8. ASSUME NEW j \in 1..(m + 1)
      PROVE  q[j] = IF j <= place THEN pos[j] ELSE IF j = place + 1 THEN at + 1 ELSE pos[j - 1] + 1
  BY DEF Pushed
<1> HIDE DEF q, sheet
<1>9. /\ \A i \in 1..n : i <= at => (i \in Positions(d, links) <=> i \in Positions(e, rels))
      /\ at + 1 \in Positions(d, links)
      /\ \A i \in 1..n : i >= at + 1 => (i + 1 \in Positions(d, links) <=> i \in Positions(e, rels))
  <2>1. \A i \in 1..n : links[e[i].rid] = rels[e[i].rid]
    BY <1>0 DEF e, n
  <2>2. \A i \in 1..n : i <= at => d[i] = e[i]
    BY <1>2
  <2>3. d[at + 1] = entry
    BY <1>2
  <2>4. \A i \in 1..n : i >= at + 1 => d[i + 1] = e[i]
    BY <1>2
  <2>5. Len(e) = n /\ Len(d) = n + 1
    BY <1>2 DEF n
  <2>6. \A i \in 1..n : i \in Positions(e, rels) <=> rels[e[i].rid].kind = "worksheet"
    BY <2>5 DEF Positions
  <2>7. \A i \in 1..(n + 1) : i \in Positions(d, links) <=> links[d[i].rid].kind = "worksheet"
    BY <2>5 DEF Positions
  <2>8. at + 1 \in Positions(d, links)
    BY <1>0, <1>2, <2>3, <2>7
  <2>9. ASSUME NEW i \in 1..n, i <= at
        PROVE  i \in Positions(d, links) <=> i \in Positions(e, rels)
    <3>1. i \in 1..(n + 1)
      BY <1>2
    <3>2. QED
      BY <2>1, <2>2, <2>6, <2>7, <2>9, <3>1
  <2>10. ASSUME NEW i \in 1..n, i >= at + 1
         PROVE  i + 1 \in Positions(d, links) <=> i \in Positions(e, rels)
    <3>1. i + 1 \in 1..(n + 1)
      BY <1>2
    <3>2. QED
      BY <2>1, <2>4, <2>6, <2>7, <2>10, <3>1
  <2>11. QED
    BY <2>8, <2>9, <2>10
<1>10. \A j \in 1..(m + 1) :
         SheetOf(d, links, q[j]) =
           IF j <= place THEN listed[j] ELSE IF j = place + 1 THEN sheet ELSE listed[j - 1]
  <2> TAKE j \in 1..(m + 1)
  <2>1. \A i \in 1..n : links[e[i].rid] = rels[e[i].rid]
    BY <1>0 DEF e, n
  <2>2. CASE j <= place
    <3>1. j \in 1..m /\ q[j] = pos[j]
      BY <1>4, <1>8, <2>2
    <3>2. pos[j] \in 1..n /\ d[pos[j]] = e[pos[j]]
      BY <1>2, <1>4, <1>7, <2>2, <3>1
    <3>3. SheetOf(d, links, q[j]) = SheetOf(e, rels, pos[j])
      BY <2>1, <3>1, <3>2 DEF SheetOf
    <3>4. QED
      BY <1>4, <2>2, <3>1, <3>3
  <2>3. CASE j = place + 1
    <3>1. q[j] = at + 1 /\ d[at + 1] = entry
      BY <1>2, <1>4, <1>8, <2>3
    <3>2. ~(j <= place)
      BY <1>4, <2>3
    <3>3. QED
      BY <2>3, <3>1, <3>2 DEF SheetOf, sheet
  <2>4. CASE j > place + 1
    <3>1. j - 1 \in 1..m /\ j - 1 > place /\ ~(j <= place) /\ j # place + 1
      BY <1>4, <2>4
    <3>2. q[j] = pos[j - 1] + 1
      BY <1>8, <3>1
    <3>3. pos[j - 1] \in 1..n /\ d[pos[j - 1] + 1] = e[pos[j - 1]]
      BY <1>2, <1>4, <1>7, <3>1
    <3>4. SheetOf(d, links, q[j]) = SheetOf(e, rels, pos[j - 1])
      BY <2>1, <3>2, <3>3 DEF SheetOf
    <3>5. QED
      BY <1>4, <3>1, <3>4
  <2>5. QED
    BY <1>4, <2>2, <2>3, <2>4
<1>11. Enumerates(q, m + 1, Positions(d, links))
  <2>1. /\ Positions(d, links) \in SUBSET Nat /\ at \in Nat /\ at + 1 \in Positions(d, links)
        /\ \A i \in Positions(e, rels) : i \in 1..n
        /\ \A i \in Positions(d, links) : i \in 1..(n + 1)
    BY <1>2, <1>9 DEF Positions, n
  <2>2. \A i \in Nat : i <= at => (i \in Positions(d, links) <=> i \in Positions(e, rels))
    BY <1>2, <1>9, <2>1
  <2>3. \A i \in Nat : i > at => (i + 1 \in Positions(d, links) <=> i \in Positions(e, rels))
    BY <1>2, <1>9, <2>1
  <2>4. \A j \in 1..m : (j <= place => pos[j] <= at) /\ (j > place => pos[j] > at)
    BY <1>2, <1>4, <1>7
  <2>5. Enumerates(pos, m, Positions(e, rels)) /\ place \in 0..m
    BY <1>1, <1>4 DEF e
  <2>6. QED
    BY <2>1, <2>2, <2>3, <2>4, <2>5, EnumerationWithOneMore DEF q
<1>12. SheetsOf(after, links) = Listing(d, links, q, m + 1)
  <2>1. after.entries \in Seq(Entries) /\ Enumerates(q, m + 1, Positions(after.entries, links))
    BY <1>2, <1>11 DEF d
  <2>2. QED
    BY <2>1, SheetsAreTheListing DEF d
<1>13. QED
  BY <1>4, <1>10, <1>12 DEF Listing, listed, sheet, OneMore

-----------------------------------------------------------------------------
(* The package that a session shows. *)

Patched(package, changes, drops) ==
  [p \in (DOMAIN package \cup DOMAIN changes) \ drops |->
     IF p \in DOMAIN changes THEN changes[p] ELSE package[p]]

\* The parts of the package are the session's.
LEMMA ViewParts ==
  /\ \A p : Has(p) <=> p \in DOMAIN View
  /\ \A p \in DOMAIN View : Part(p) = View[p]
BY DEF View, Has

\* An edit lays its changes over the package and takes its drops away.
LEMMA ViewAfterApply ==
  ASSUME NEW changes, NEW drops, Apply(changes, drops), original' = original
  PROVE  View' = Patched(View, changes, drops)
<1> DEFINE after == Patched(View, changes, drops)
<1>1. /\ changed' = [p \in (DOMAIN changed \cup DOMAIN changes) \ drops |->
                       IF p \in DOMAIN changes THEN changes[p] ELSE changed[p]]
      /\ removed' = (removed \ DOMAIN changes) \cup drops
  BY DEF Apply
<1>2. \A p : p \in (DOMAIN original' \cup DOMAIN changed') \ removed' <=> p \in DOMAIN after
  BY <1>1 DEF View, Patched
<1>3. \A p \in DOMAIN after :
        (IF p \in DOMAIN changed' THEN changed'[p] ELSE original'[p]) = after[p]
  <2> TAKE p \in DOMAIN after
  <2>1. p \notin drops
    BY DEF Patched
  <2>2. CASE p \in DOMAIN changes
    BY <1>1, <2>1, <2>2 DEF Patched
  <2>3. CASE p \notin DOMAIN changes
    <3>1. p \in DOMAIN View /\ after[p] = View[p]
      BY <2>1, <2>3 DEF Patched
    <3>2. View[p] = Part(p)
      BY <3>1 DEF View
    <3>3. p \in DOMAIN changed' <=> p \in DOMAIN changed
      BY <1>1, <2>1, <2>3
    <3>4. p \in DOMAIN changed => changed'[p] = changed[p]
      BY <1>1, <2>1, <2>3
    <3>5. QED
      BY <3>1, <3>2, <3>3, <3>4 DEF Part
  <2>4. QED
    BY <2>2, <2>3
<1>4. View' = [p \in (DOMAIN original' \cup DOMAIN changed') \ removed' |->
                 IF p \in DOMAIN changed' THEN changed'[p] ELSE original'[p]]
  BY DEF View, Part
<1>5. after = [p \in DOMAIN after |-> after[p]]
  BY DEF Patched
<1> HIDE DEF after
<1>6. (DOMAIN original' \cup DOMAIN changed') \ removed' = DOMAIN after
  BY <1>2
<1>7. QED
  BY <1>3, <1>4, <1>5, <1>6 DEF after

\* What a package with changes holds.
LEMMA PatchedParts ==
  ASSUME NEW package, NEW changes, NEW drops
  PROVE  LET after == Patched(package, changes, drops)
         IN /\ DOMAIN after = (DOMAIN package \cup DOMAIN changes) \ drops
            /\ \A p \in DOMAIN changes : p \notin drops => after[p] = changes[p]
            /\ \A p \in DOMAIN package :
                 p \notin drops /\ p \notin DOMAIN changes => after[p] = package[p]
            /\ after = [p \in DOMAIN after |-> after[p]]
BY DEF Patched

\* What one function laid over another holds.
LEMMA WithParts ==
  ASSUME NEW f, NEW g
  PROVE  /\ DOMAIN With(f, g) = DOMAIN f \cup DOMAIN g
         /\ \A x \in DOMAIN g : With(f, g)[x] = g[x]
         /\ \A x \in DOMAIN f : x \notin DOMAIN g => With(f, g)[x] = f[x]
         /\ With(f, g) = [x \in DOMAIN With(f, g) |-> With(f, g)[x]]
BY DEF With

\* The package that is recalculated when it is opened, without its chain.
Recalculated(package) ==
  LET rels == package["rels"]  types == package["types"]
  IN [p \in DOMAIN package \ {"chain"} |->
        IF p = "workbook" THEN [package["workbook"] EXCEPT !.fullCalc = TRUE]
        ELSE IF p = "rels"
        THEN [r \in {r \in DOMAIN rels : rels[r].kind # "calcChain"} |-> rels[r]]
        ELSE IF p = "types" THEN [q \in DOMAIN types \ {"chain"} |-> types[q]]
        ELSE package[p]]

\* The changes that ask for a recalculation do what Recalculated says.
LEMMA RecalculationOnView ==
  ASSUME WellFormed(View), NEW c, DOMAIN c \cap {"rels", "types", "chain"} = {}
  PROVE  LET full == Recalculation(c)
         IN /\ Patched(View, full.changes, full.drops) = Recalculated(Patched(View, c, {}))
            /\ full.drops \subseteq {"chain"}
            /\ "chain" \notin DOMAIN full.changes
<1> DEFINE g == Patched(View, c, {})
           full == Recalculation(c)
           rels == Part("rels")
           types == Part("types")
           links == {r \in DOMAIN rels : rels[r].kind = "calcChain"}
           chains == {rels[r].path : r \in links}
           typed == {p \in DOMAIN types : types[p] = "calcChain"
                                          \/ \E q \in chains : PathKey(q) = PathKey(p)}
<1>18. {"workbook", "rels", "types"} \subseteq DOMAIN View
  BY DEF WellFormed, PartsTyped
<1>2. Part("workbook") = View["workbook"] /\ rels = View["rels"] /\ types = View["types"]
  BY <1>18, ViewParts
<1> HIDE DEF rels, types
<1>1. /\ {"workbook", "rels", "types"} \subseteq DOMAIN View
      /\ \A r \in DOMAIN rels : rels[r].kind = "calcChain" <=> rels[r].path = "chain"
      /\ \A r \in DOMAIN rels : rels[r].path \in DOMAIN View
      /\ DOMAIN types \subseteq DOMAIN View
      /\ \A p \in DOMAIN types : types[p] = "calcChain" <=> p = "chain"
  BY <1>2, <1>18 DEF WellFormed, Linked
<1>3. Has("chain") <=> "chain" \in DOMAIN View
  BY ViewParts
<1>4. chains \subseteq {"chain"} /\ (chains # {} => "chain" \in DOMAIN View)
  BY <1>1
<1>5. \A p : PathKey("chain") = PathKey(p) => p = "chain"
  BY DEF PathKey
<1>6. typed = DOMAIN types \cap {"chain"}
  <2>1. \A p \in typed : p = "chain"
    BY <1>1, <1>4, <1>5
  <2>2. QED
    BY <1>1, <2>1
<1> DEFINE workbook == IF "workbook" \in DOMAIN c THEN c["workbook"] ELSE Part("workbook")
           put == [workbook |-> [workbook EXCEPT !.fullCalc = TRUE],
                   rels |-> [r \in DOMAIN rels \ links |-> rels[r]],
                   types |-> [p \in DOMAIN types \ typed |-> types[p]]]
<1>7. /\ full.changes = With(c, put)
      /\ full.drops = chains \cup typed \cup (IF Has("chain") THEN {"chain"} ELSE {})
  BY DEF Recalculation, rels, types
<1> HIDE DEF chains, typed, full
<1>8. full.drops = {"chain"} \cap DOMAIN View
  BY <1>1, <1>3, <1>4, <1>6, <1>7
<1>9. /\ DOMAIN put = {"workbook", "rels", "types"}
      /\ put["workbook"] = [workbook EXCEPT !.fullCalc = TRUE]
      /\ put["rels"] = [r \in DOMAIN rels \ links |-> rels[r]]
      /\ put["types"] = [p \in DOMAIN types \ typed |-> types[p]]
  OBVIOUS
<1> HIDE DEF put
<1>10. /\ DOMAIN full.changes = DOMAIN c \cup {"workbook", "rels", "types"}
       /\ \A p \in {"workbook", "rels", "types"} : full.changes[p] = put[p]
       /\ \A p \in DOMAIN c : p \notin {"workbook", "rels", "types"} => full.changes[p] = c[p]
  <2>1. /\ DOMAIN With(c, put) = DOMAIN c \cup DOMAIN put
        /\ \A x \in DOMAIN put : With(c, put)[x] = put[x]
        /\ \A x \in DOMAIN c : x \notin DOMAIN put => With(c, put)[x] = c[x]
    BY DEF With
  <2>2. QED
    BY <1>7, <1>9, <2>1
<1>11. /\ DOMAIN g = DOMAIN View \cup DOMAIN c
       /\ g["workbook"] = workbook /\ g["rels"] = rels /\ g["types"] = types
       /\ \A p \in DOMAIN g : g[p] = IF p \in DOMAIN c THEN c[p] ELSE View[p]
  BY <1>1, <1>2 DEF Patched
<1> HIDE DEF g, workbook, links
<1> DEFINE after == Patched(View, full.changes, full.drops)
<1>12. /\ DOMAIN after = DOMAIN g \ {"chain"}
       /\ after = [p \in DOMAIN after |-> after[p]]
       /\ \A p \in DOMAIN full.changes : p # "chain" => after[p] = full.changes[p]
       /\ \A p \in DOMAIN View : p # "chain" /\ p \notin DOMAIN full.changes => after[p] = View[p]
  BY <1>1, <1>8, <1>10, <1>11 DEF Patched
<1>13. /\ [r \in DOMAIN rels \ links |-> rels[r]]
            = [r \in {r \in DOMAIN rels : rels[r].kind # "calcChain"} |-> rels[r]]
       /\ [p \in DOMAIN types \ typed |-> types[p]] = [p \in DOMAIN types \ {"chain"} |-> types[p]]
  BY <1>6 DEF links
<1> DEFINE want == Recalculated(g)
<1>14. /\ DOMAIN want = DOMAIN g \ {"chain"}
       /\ want = [p \in DOMAIN want |-> want[p]]
       /\ want["workbook"] = [workbook EXCEPT !.fullCalc = TRUE]
       /\ want["rels"] = [r \in {r \in DOMAIN rels : rels[r].kind # "calcChain"} |-> rels[r]]
       /\ want["types"] = [p \in DOMAIN types \ {"chain"} |-> types[p]]
       /\ \A p \in DOMAIN want : p \notin {"workbook", "rels", "types"} => want[p] = g[p]
  BY <1>1, <1>11 DEF Recalculated
<1> HIDE DEF after, want
<1>15. \A p \in DOMAIN want : after[p] = want[p]
  <2> TAKE p \in DOMAIN want
  <2>1. CASE p \in {"workbook", "rels", "types"}
    BY <1>9, <1>10, <1>12, <1>13, <1>14, <2>1
  <2>2. CASE p \notin {"workbook", "rels", "types"} /\ p \in DOMAIN c
    BY <1>10, <1>11, <1>12, <1>14, <2>2
  <2>3. CASE p \notin {"workbook", "rels", "types"} /\ p \notin DOMAIN c
    BY <1>10, <1>11, <1>12, <1>14, <2>3
  <2>4. QED
    BY <2>1, <2>2, <2>3
<1>16. after = want
  BY <1>12, <1>14, <1>15
<1>17. QED
  BY <1>8, <1>10, <1>16 DEF after, want, full, g

-----------------------------------------------------------------------------
(* Well-formed packages. *)

Listing1(package) == SheetsOf(package["workbook"], package["rels"])

\* The names of worksheets' parts are no others', and but one pair differs in case alone.
LEMMA PartNames ==
  /\ SheetPaths = {"sheet1", "sheet2", "sheet3", "sheet4", "sheet5", "Sheet1", "data"}
  /\ \A p \in SheetPaths : p \notin {"workbook", "rels", "types", "app", "styles", "chain", "chart"}
  /\ \A p, q : PathKey(p) = PathKey(q) => p = q \/ {p, q} = {"sheet1", "Sheet1"}
<1>1. SheetPaths = {"sheet1", "sheet2", "sheet3", "sheet4", "sheet5", "Sheet1", "data"}
  BY DEF SheetPaths, NewSheetPaths, ToSet
<1>2. \A p, q : PathKey(p) = PathKey(q) => p = q \/ {p, q} = {"sheet1", "Sheet1"}
  BY DEF PathKey
<1>3. QED
  BY <1>1, <1>2

\* Edits that leave the entries, the links, the types and the titles alone.
LEMMA SameOutline ==
  ASSUME NEW before, WellFormed(before), NEW after,
         PartsTyped(after), Indexed(after["workbook"]),
         DOMAIN after = DOMAIN before,
         after["workbook"].entries = before["workbook"].entries,
         after["rels"] = before["rels"], after["types"] = before["types"],
         "app" \in DOMAIN before => after["app"] = before["app"]
  PROVE  WellFormed(after) /\ Listing1(after) = Listing1(before)
<1>1. before["workbook"].entries \in Seq(Entries)
  BY DEF WellFormed, PartsTyped, Workbooks
<1>2. Listing1(after) = Listing1(before)
  BY <1>1, SheetsStay DEF Listing1
<1>3. Opens(after)
  BY <1>2 DEF WellFormed, Opens, Listing1, PartsTyped
<1>4. Linked(after) /\ Listed(after)
  BY <1>2 DEF WellFormed, Linked, Listed, Listing1
<1>5. QED
  BY <1>2, <1>3, <1>4 DEF WellFormed

HoldsFormulasIn(package) ==
  \E s \in ToSet(Listing1(package)) : \E r \in DOMAIN package[s.path].cells :
    package[s.path].cells[r].ref # NoRef

Chainless(package) ==
  /\ package["workbook"].fullCalc
  /\ "chain" \notin DOMAIN package
  /\ \A r \in DOMAIN package["rels"] : package["rels"][r].kind # "calcChain"
  /\ "chain" \notin DOMAIN package["types"]

\* A package without its chain is as well formed as with it.
LEMMA RecalculatedIsWellFormed ==
  ASSUME NEW before, WellFormed(before)
  PROVE  LET after == Recalculated(before)
         IN /\ WellFormed(after)
            /\ Listing1(after) = Listing1(before)
            /\ Chainless(after)
            /\ \A p \in DOMAIN before : p \notin {"workbook", "rels", "types", "chain"} =>
                 p \in DOMAIN after /\ after[p] = before[p]
            /\ after["workbook"].names = before["workbook"].names
            /\ after["workbook"].entries = before["workbook"].entries
<1> DEFINE after == Recalculated(before)
           w == before["workbook"]
           rels == before["rels"]
           types == before["types"]
<1>1. /\ {"workbook", "rels", "types"} \subseteq DOMAIN before
      /\ w \in Workbooks
      /\ before = [p \in DOMAIN before |-> before[p]]
      /\ \A p \in SheetPaths \cap DOMAIN before : IsWorksheet(before[p])
      /\ "chart" \in DOMAIN before => before["chart"] \in Charts
  BY DEF WellFormed, PartsTyped
<1>2. /\ rels = [r \in DOMAIN rels |-> rels[r]] /\ IsFiniteSet(DOMAIN rels)
      /\ \A r \in DOMAIN rels : r \in Nat /\ rels[r] \in [kind : {rels[r].kind}, path : DOMAIN before]
      /\ \A r \in DOMAIN rels : rels[r].kind = "calcChain" <=> rels[r].path = "chain"
      /\ types = [p \in DOMAIN types |-> types[p]] /\ DOMAIN types \subseteq DOMAIN before
      /\ \A p \in DOMAIN types : types[p] = "calcChain" <=> p = "chain"
      /\ SheetPaths \cap DOMAIN before \subseteq DOMAIN types
  BY DEF WellFormed, Linked
<1> HIDE DEF w, rels, types
<1>3. /\ DOMAIN after = DOMAIN before \ {"chain"}
      /\ after = [p \in DOMAIN after |-> after[p]]
      /\ after["workbook"] = [w EXCEPT !.fullCalc = TRUE]
      /\ after["rels"] = [r \in {r \in DOMAIN rels : rels[r].kind # "calcChain"} |-> rels[r]]
      /\ after["types"] = [p \in DOMAIN types \ {"chain"} |-> types[p]]
      /\ \A p \in DOMAIN after : p \notin {"workbook", "rels", "types"} => after[p] = before[p]
  BY <1>1 DEF Recalculated, w, rels, types
<1> HIDE DEF after
<1>4. /\ after["workbook"] \in Workbooks
      /\ after["workbook"].entries = w.entries /\ after["workbook"].names = w.names
      /\ after["workbook"].active = w.active
      /\ after["workbook"].fullCalc = TRUE
  BY <1>1, <1>3 DEF Workbooks
<1>5. /\ \A r : r \in DOMAIN after["rels"] <=> r \in DOMAIN rels /\ rels[r].kind # "calcChain"
      /\ \A r \in DOMAIN after["rels"] : after["rels"][r] = rels[r]
      /\ \A p : p \in DOMAIN after["types"] <=> p \in DOMAIN types /\ p # "chain"
      /\ \A p \in DOMAIN after["types"] : after["types"][p] = types[p]
      /\ after["rels"] = [r \in DOMAIN after["rels"] |-> after["rels"][r]]
      /\ after["types"] = [r \in DOMAIN after["types"] |-> after["types"][r]]
  BY <1>3
<1>6. PartsTyped(after)
  BY <1>1, <1>3, <1>4, PartNames DEF PartsTyped
<1>7. Indexed(after["workbook"])
  BY <1>4 DEF Indexed, WellFormed, w
<1>8. \A i \in 1..Len(w.entries) : w.entries[i].rid \in DOMAIN rels /\ w.entries[i].rid \in DOMAIN after["rels"]
                                    /\ after["rels"][w.entries[i].rid] = rels[w.entries[i].rid]
  <2> TAKE i \in 1..Len(w.entries)
  <2>1. w.entries \in Seq(Entries)
    BY <1>1 DEF Workbooks
  <2>2. i \in DOMAIN w.entries /\ w.entries[i] \in ToSet(w.entries)
    BY <2>1 DEF ToSet
  <2>3. w.entries[i].rid \in DOMAIN rels
    BY <2>2 DEF WellFormed, Opens, w, rels
  <2>4. rels[w.entries[i].rid].kind # "calcChain"
    BY <2>2 DEF WellFormed, Listed, w, rels
  <2>5. QED
    BY <1>5, <2>3, <2>4
<1>9. Listing1(after) = Listing1(before)
  <2>1. w.entries \in Seq(Entries)
    BY <1>1 DEF Workbooks
  <2>2. SheetsOf(after["workbook"], after["rels"]) = SheetsOf(w, rels)
    <3> DEFINE v == after["workbook"]
               links == after["rels"]
    <3>1. v.entries = w.entries
      BY <1>4
    <3>2. \A i \in 1..Len(w.entries) : links[w.entries[i].rid] = rels[w.entries[i].rid]
      BY <1>8
    <3> HIDE DEF v, links
    <3>3. SheetsOf(v, links) = SheetsOf(w, rels)
      BY <2>1, <3>1, <3>2, SheetsStay
    <3>4. QED
      BY <3>3 DEF v, links
  <2>3. QED
    BY <2>2 DEF Listing1, w, rels
<1>10. Linked(after)
  <2>1. IsFiniteSet(DOMAIN after["rels"])
    BY <1>2, <1>5, FS_Subset
  <2>2. \A r \in DOMAIN after["rels"] : r \in Nat /\ after["rels"][r] \in [kind : {after["rels"][r].kind}, path : DOMAIN after]
    <3> TAKE r \in DOMAIN after["rels"]
    <3>1. /\ r \in Nat /\ rels[r] \in [kind : {rels[r].kind}, path : DOMAIN before]
          /\ rels[r].path # "chain" /\ after["rels"][r] = rels[r]
      BY <1>2, <1>5
    <3>2. rels[r].path \in DOMAIN after
      BY <1>3, <3>1
    <3>3. QED
      BY <3>1, <3>2
  <2>3. \A r \in DOMAIN after["rels"] : after["rels"][r].kind = "calcChain" <=> after["rels"][r].path = "chain"
    BY <1>2, <1>5
  <2>4. DOMAIN after["types"] \subseteq DOMAIN after
    BY <1>2, <1>3, <1>5
  <2>5. \A p \in DOMAIN after["types"] : after["types"][p] = "calcChain" <=> p = "chain"
    BY <1>2, <1>5
  <2>6. SheetPaths \cap DOMAIN after \subseteq DOMAIN after["types"]
    BY <1>2, <1>3, <1>5, PartNames
  <2>7. QED
    BY <1>5, <2>1, <2>2, <2>3, <2>4, <2>5, <2>6 DEF Linked
<1>11. Listed(after)
  <2>1. \A e \in ToSet(w.entries) : after["rels"][e.rid].kind # "calcChain"
    <3> TAKE e \in ToSet(w.entries)
    <3>1. w.entries \in Seq(Entries)
      BY <1>1 DEF Workbooks
    <3>2. PICK i \in 1..Len(w.entries) : e = w.entries[i]
      BY <3>1 DEF ToSet
    <3>3. e.rid \in DOMAIN after["rels"]
      BY <1>8, <3>2
    <3>4. QED
      BY <1>5, <3>3
  <2>2. "app" \in DOMAIN after => "app" \in DOMAIN before /\ after["app"] = before["app"]
    BY <1>3
  <2>3. QED
    BY <1>4, <1>9, <2>1, <2>2 DEF Listed, Listing1, WellFormed
<1>12. Opens(after)
  <2>1. \A s \in ToSet(Listing1(after)) : s.path \in DOMAIN after
    <3> TAKE s \in ToSet(Listing1(after))
    <3>1. s.path \in DOMAIN before /\ s.path \in SheetPaths
      BY <1>9 DEF WellFormed, Opens, Listed, Listing1
    <3>2. s.path # "chain"
      BY <3>1, PartNames
    <3>3. QED
      BY <1>3, <3>1, <3>2
  <2>2. \A i \in DOMAIN w.entries : w.entries[i].rid \in DOMAIN after["rels"]
    BY <1>1, <1>8 DEF Workbooks
  <2>3. \A p, q \in DOMAIN after : PathKey(p) = PathKey(q) => p = q
    BY <1>3 DEF WellFormed, Opens
  <2>4. QED
    BY <1>1, <1>3, <1>4, <1>9, <2>1, <2>2, <2>3 DEF WellFormed, Opens, Listing1, w
<1>13. Chainless(after)
  BY <1>3, <1>4, <1>5 DEF Chainless
<1>14. QED
  BY <1>3, <1>4, <1>6, <1>7, <1>9, <1>10, <1>11, <1>12, <1>13 DEF WellFormed, after, w

\* Other contents for some worksheets and charts, or the names of the workbook.
LEMMA PartsReplaced ==
  ASSUME NEW before, WellFormed(before), NEW c, DOMAIN c \subseteq DOMAIN before,
         DOMAIN c \cap {"rels", "types", "app"} = {},
         \A p \in SheetPaths \cap DOMAIN c : IsWorksheet(c[p]),
         "chart" \in DOMAIN c => c["chart"] \in Charts,
         "workbook" \in DOMAIN c =>
           /\ c["workbook"] \in Workbooks /\ Indexed(c["workbook"])
           /\ c["workbook"].entries = before["workbook"].entries
  PROVE  LET after == Patched(before, c, {})
         IN WellFormed(after) /\ Listing1(after) = Listing1(before)
<1> DEFINE after == Patched(before, c, {})
<1>1. /\ {"workbook", "rels", "types"} \subseteq DOMAIN before
      /\ before["workbook"] \in Workbooks
      /\ Indexed(before["workbook"])
      /\ \A p \in SheetPaths \cap DOMAIN before : IsWorksheet(before[p])
      /\ "chart" \in DOMAIN before => before["chart"] \in Charts
  BY DEF WellFormed, PartsTyped
<1>2. /\ DOMAIN after = DOMAIN before
      /\ after = [p \in DOMAIN after |-> after[p]]
      /\ \A p \in DOMAIN before : after[p] = IF p \in DOMAIN c THEN c[p] ELSE before[p]
  BY DEF Patched
<1> HIDE DEF after
<1>3. /\ after["rels"] = before["rels"] /\ after["types"] = before["types"]
      /\ "app" \in DOMAIN before => after["app"] = before["app"]
  BY <1>1, <1>2
<1>4. /\ after["workbook"] \in Workbooks /\ Indexed(after["workbook"])
      /\ after["workbook"].entries = before["workbook"].entries
  BY <1>1, <1>2
<1>5. PartsTyped(after)
  BY <1>1, <1>2, <1>4 DEF PartsTyped
<1>6. QED
  BY <1>2, <1>3, <1>4, <1>5, SameOutline DEF after

\* What there is to know of the entries and the worksheets of such a package.
LEMMA Outline ==
  ASSUME NEW package, WellFormed(package)
  PROVE  LET entries == package["workbook"].entries
             rels    == package["rels"]
             listed  == Listing1(package)
         IN /\ entries \in Seq(Entries) /\ DOMAIN entries = 1..Len(entries) /\ Len(entries) \in Nat
            /\ \A i, j \in 1..Len(entries) : NameKey(entries[i].name) = NameKey(entries[j].name) => i = j
            /\ \A i, j \in 1..Len(entries) : entries[i].id = entries[j].id => i = j
            /\ \A i, j \in 1..Len(entries) : entries[i].rid = entries[j].rid => i = j
            /\ \A i \in 1..Len(entries) : entries[i].rid \in DOMAIN rels
            /\ DOMAIN listed = 1..Len(listed) /\ Len(listed) \in Nat
            /\ listed = [j \in 1..Len(listed) |-> listed[j]]
            /\ \A j \in 1..Len(listed) : \E i \in Positions(entries, rels) :
                 listed[j] = SheetOf(entries, rels, i)
            /\ \A i \in Positions(entries, rels) : \E j \in 1..Len(listed) :
                 listed[j] = SheetOf(entries, rels, i)
            /\ \A j \in 1..Len(listed) : listed[j].path \in SheetPaths \cap DOMAIN package
            /\ \A j, k \in 1..Len(listed) : PathKey(listed[j].path) = PathKey(listed[k].path) => j = k
<1> DEFINE w == package["workbook"]
           rels == package["rels"]
           listed == Listing1(package)
<1>1. w.entries \in Seq(Entries)
  BY DEF WellFormed, PartsTyped, Workbooks
<1>2. DOMAIN w.entries = 1..Len(w.entries) /\ Len(w.entries) \in Nat
  BY <1>1
<1>3. /\ DOMAIN listed = 1..Len(listed) /\ Len(listed) \in Nat
      /\ listed = [j \in 1..Len(listed) |-> listed[j]]
      /\ \A j \in 1..Len(listed) : \E i \in Positions(w.entries, rels) :
           listed[j] = SheetOf(w.entries, rels, i)
      /\ \A i \in Positions(w.entries, rels) : \E j \in 1..Len(listed) :
           listed[j] = SheetOf(w.entries, rels, i)
  BY <1>1, SheetsAreEntries DEF Listing1
<1>4. /\ \A i, j \in 1..Len(w.entries) : NameKey(w.entries[i].name) = NameKey(w.entries[j].name) => i = j
      /\ \A i, j \in 1..Len(w.entries) : w.entries[i].id = w.entries[j].id => i = j
      /\ \A i, j \in 1..Len(w.entries) : w.entries[i].rid = w.entries[j].rid => i = j
      /\ \A i \in 1..Len(w.entries) : w.entries[i].rid \in DOMAIN rels
  BY <1>2 DEF WellFormed, Opens, Unique
<1>5. \A j \in 1..Len(listed) : listed[j] \in ToSet(listed)
  BY <1>3 DEF ToSet
<1>6. \A s \in ToSet(listed) : s.path \in SheetPaths \cap DOMAIN package
  BY DEF WellFormed, Opens, Listed, Listing1
<1>7. \A j, k \in 1..Len(listed) : PathKey(listed[j].path) = PathKey(listed[k].path) => j = k
  BY <1>3 DEF WellFormed, Opens, Unique, Listing1
<1>8. QED
  BY <1>1, <1>2, <1>3, <1>4, <1>5, <1>6, <1>7

\* No two worksheets have a name in common, whatever its case.
LEMMA ListedNamesDiffer ==
  ASSUME NEW package, WellFormed(package)
  PROVE  LET listed == Listing1(package)
         IN \A j, k \in 1..Len(listed) : NameKey(listed[j].name) = NameKey(listed[k].name) => j = k
<1> DEFINE e == package["workbook"].entries
           rels == package["rels"]
           listed == Listing1(package)
<1>1. package["workbook"].entries \in Seq(Entries)
  BY Outline
<1>2. PICK m, pos : /\ Enumerates(pos, m, Positions(e, rels))
                    /\ listed = Listing(e, rels, pos, m)
  BY <1>1, SheetsHaveAListing DEF Listing1
<1>3. \A i, j \in 1..Len(e) : NameKey(e[i].name) = NameKey(e[j].name) => i = j
  BY Outline
<1> HIDE DEF e, rels, listed
<1>4. listed = [j \in 1..m |-> SheetOf(e, rels, pos[j])]
  BY <1>2 DEF Listing
<1>5. /\ m \in Nat /\ Len(listed) = m
      /\ \A j \in 1..m : pos[j] \in 1..Len(e) /\ pos[j] \in Nat
      /\ \A j, k \in 1..m : j < k => pos[j] < pos[k]
  BY <1>2, <1>4 DEF Enumerates, Positions
<1>6. \A j, k \in 1..m : pos[j] = pos[k] => j = k
  BY <1>5
<1>7. \A j \in 1..m : listed[j].name = e[pos[j]].name
  BY <1>4 DEF SheetOf
<1>8. QED
  BY <1>3, <1>5, <1>6, <1>7 DEF listed

\* The entries after a rename.
LEMMA RenamedEntries ==
  ASSUME NEW e \in Seq(Entries), NEW old, NEW new, Renamed(e, old, new) \in Seq(Entries)
  PROVE  LET d == Renamed(e, old, new)
         IN /\ DOMAIN e = 1..Len(e) /\ Len(e) \in Nat /\ DOMAIN d = 1..Len(e) /\ Len(d) = Len(e)
            /\ \A i \in 1..Len(e) :
                 d[i].id = e[i].id /\ d[i].rid = e[i].rid
                 /\ d[i].name = IF e[i].name = old THEN new ELSE e[i].name
<1> DEFINE d == Renamed(e, old, new)
<1>1. DOMAIN e = 1..Len(e) /\ Len(e) \in Nat /\ \A i \in 1..Len(e) : e[i] \in Entries
  OBVIOUS
<1>2. /\ DOMAIN d = 1..Len(e)
      /\ \A i \in 1..Len(e) : d[i] = IF e[i].name = old THEN [e[i] EXCEPT !.name = new] ELSE e[i]
  BY <1>1 DEF Renamed
<1> HIDE DEF d
<1>3. Len(d) = Len(e)
  BY <1>1, <1>2 DEF d
<1>4. QED
  BY <1>1, <1>2, <1>3 DEF d, Entries

\* The worksheet named old gets a new name, in the workbook and in the titles.
Renames(before, c, old, new) ==
  /\ WellFormed(before)
  /\ DOMAIN c \subseteq DOMAIN before /\ DOMAIN c \cap {"rels", "types"} = {}
  /\ \A p \in SheetPaths \cap DOMAIN c : IsWorksheet(c[p])
  /\ "chart" \in DOMAIN c => c["chart"] \in Charts
  /\ ~NameTaken(new, before["workbook"].entries, old)
  /\ "workbook" \in DOMAIN c /\ c["workbook"] \in Workbooks /\ Indexed(c["workbook"])
  /\ c["workbook"].entries = Renamed(before["workbook"].entries, old, new)
  /\ "app" \in DOMAIN before =>
       (IF "app" \in DOMAIN c THEN c["app"] ELSE before["app"])
         = [j \in DOMAIN Listing1(before) |->
              IF Listing1(before)[j].name = old THEN new ELSE Listing1(before)[j].name]

\* The key of a renamed worksheet is its own.
LEMMA RenamedIsWellFormed ==
  ASSUME NEW before, NEW c, NEW old, NEW new, Renames(before, c, old, new)
  PROVE  LET after == Patched(before, c, {})
             listed == Listing1(before)
         IN /\ WellFormed(after)
            /\ Listing1(after) = Renamed(listed, old, new)
<1> DEFINE after == Patched(before, c, {})
           e == before["workbook"].entries
           d == after["workbook"].entries
           rels == before["rels"]
           listed == Listing1(before)
<1>19. WellFormed(before)
  BY DEF Renames
<1>1. /\ {"workbook", "rels", "types"} \subseteq DOMAIN before
      /\ \A p \in SheetPaths \cap DOMAIN before : IsWorksheet(before[p])
      /\ "chart" \in DOMAIN before => before["chart"] \in Charts
  BY <1>19 DEF WellFormed, PartsTyped
<1>2. /\ DOMAIN after = DOMAIN before
      /\ after = [p \in DOMAIN after |-> after[p]]
      /\ \A p \in DOMAIN before : after[p] = IF p \in DOMAIN c THEN c[p] ELSE before[p]
  BY DEF Patched, Renames
<1> HIDE DEF after
<1>3. /\ after["rels"] = rels /\ after["types"] = before["types"]
      /\ after["workbook"] = c["workbook"]
      /\ "app" \in DOMAIN before =>
           after["app"] = [j \in DOMAIN listed |-> IF listed[j].name = old THEN new ELSE listed[j].name]
  BY <1>1, <1>2 DEF Renames
<1>4. /\ e \in Seq(Entries) /\ DOMAIN e = 1..Len(e) /\ Len(e) \in Nat
      /\ \A i, j \in 1..Len(e) : NameKey(e[i].name) = NameKey(e[j].name) => i = j
      /\ \A i, j \in 1..Len(e) : e[i].id = e[j].id => i = j
      /\ \A i, j \in 1..Len(e) : e[i].rid = e[j].rid => i = j
      /\ \A i \in 1..Len(e) : e[i].rid \in DOMAIN rels
  BY <1>19, Outline
<1>5. /\ DOMAIN listed = 1..Len(listed) /\ Len(listed) \in Nat
      /\ \A j \in 1..Len(listed) : \E i \in Positions(e, rels) : listed[j] = SheetOf(e, rels, i)
      /\ \A j \in 1..Len(listed) : listed[j].path \in SheetPaths \cap DOMAIN before
      /\ \A j, k \in 1..Len(listed) : PathKey(listed[j].path) = PathKey(listed[k].path) => j = k
  BY <1>19, Outline
<1>6. /\ d \in Seq(Entries) /\ d = Renamed(e, old, new)
      /\ after["workbook"] \in Workbooks /\ Indexed(after["workbook"])
  BY <1>3 DEF Workbooks, Renames
<1>7. PartsTyped(after)
  BY <1>1, <1>2, <1>6 DEF PartsTyped, Renames
<1>8. Listing1(after) = Renamed(listed, old, new)
  <2> DEFINE v == after["workbook"]
             w == before["workbook"]
  <2>1. w.entries \in Seq(Entries)
    BY <1>4
  <2>6. v.entries \in Seq(Entries)
    BY <1>6
  <2>2. v.entries = Renamed(w.entries, old, new)
    BY <1>6
  <2>3. Listing1(after) = SheetsOf(v, rels) /\ listed = SheetsOf(w, rels)
    BY <1>3 DEF Listing1
  <2> HIDE DEF v, w, rels, listed
  <2>4. SheetsOf(v, rels) = Renamed(SheetsOf(w, rels), old, new)
    BY <2>1, <2>2, <2>6, SheetsRenamed
  <2>5. QED
    BY <2>3, <2>4
<1> HIDE DEF e, d, rels, listed
<1>20. /\ DOMAIN e = 1..Len(e) /\ Len(e) \in Nat /\ DOMAIN d = 1..Len(e) /\ Len(d) = Len(e)
       /\ \A i \in 1..Len(e) :
            d[i].id = e[i].id /\ d[i].rid = e[i].rid
            /\ d[i].name = IF e[i].name = old THEN new ELSE e[i].name
  <2>1. e \in Seq(Entries)
    BY <1>4
  <2>2. Renamed(e, old, new) \in Seq(Entries)
    BY <1>6
  <2>3. QED
    BY <1>6, <2>1, <2>2, RenamedEntries
<1>9. ASSUME NEW i \in 1..Len(e)
      PROVE  d[i].id = e[i].id /\ d[i].rid = e[i].rid /\ d[i].name = IF e[i].name = old THEN new ELSE e[i].name
  BY <1>20
<1>10. Len(d) = Len(e) /\ DOMAIN d = 1..Len(e)
  BY <1>20
<1> DEFINE now == Listing1(after)
<1> HIDE DEF now
<1>11. \A i, j \in 1..Len(e) : NameKey(d[i].name) = NameKey(d[j].name) => i = j
  <2> TAKE i, j \in 1..Len(e)
  <2>1. \A k \in 1..Len(e) : e[k].name # old => NameKey(e[k].name) # NameKey(new)
    BY <1>4 DEF NameTaken, e, Renames
  <2>2. CASE e[i].name = old /\ e[j].name = old
    BY <1>4, <2>2
  <2>3. CASE e[i].name # old /\ e[j].name # old
    BY <1>4, <1>9, <2>3
  <2>4. CASE e[i].name = old /\ e[j].name # old
    BY <1>9, <2>1, <2>4
  <2>5. CASE e[i].name # old /\ e[j].name = old
    BY <1>9, <2>1, <2>5
  <2>6. QED
    BY <2>2, <2>3, <2>4, <2>5
<1>12. \A s \in ToSet(now) : s.path \in SheetPaths \cap DOMAIN before
  <2> TAKE s \in ToSet(now)
  <2>1. PICK j \in DOMAIN listed : s = IF listed[j].name = old THEN [listed[j] EXCEPT !.name = new] ELSE listed[j]
    BY <1>8 DEF ToSet, now, Renamed
  <2>2. PICK i \in Positions(e, rels) : listed[j] = SheetOf(e, rels, i)
    BY <1>5
  <2>3. s.path = listed[j].path
    BY <2>1, <2>2 DEF SheetOf
  <2>4. QED
    BY <1>5, <2>3
<1>13. \A j \in 1..Len(listed) : /\ now[j].path = listed[j].path
                               /\ now[j].name = IF listed[j].name = old THEN new ELSE listed[j].name
  <2> TAKE j \in 1..Len(listed)
  <2>1. PICK i \in Positions(e, rels) : listed[j] = SheetOf(e, rels, i)
    BY <1>5
  <2>2. now[j] = IF listed[j].name = old THEN [listed[j] EXCEPT !.name = new] ELSE listed[j]
    BY <1>5, <1>8 DEF now, Renamed
  <2>3. QED
    BY <2>1, <2>2 DEF SheetOf
<1>14. DOMAIN now = 1..Len(listed)
  BY <1>5, <1>8 DEF now, Renamed
<1>15. Opens(after)
  <2>1. \A p, q \in DOMAIN after : PathKey(p) = PathKey(q) => p = q
    BY <1>2, <1>19 DEF WellFormed, Opens
  <2>2. \A j, k \in DOMAIN now : PathKey(now[j].path) = PathKey(now[k].path) => j = k
    BY <1>5, <1>13, <1>14
  <2>3. \A i, j \in DOMAIN d : d[i].id = d[j].id => i = j
    BY <1>4, <1>9, <1>10
  <2>4. \A i, j \in DOMAIN d : d[i].rid = d[j].rid => i = j
    BY <1>4, <1>9, <1>10
  <2>5. \A i \in DOMAIN d : d[i].rid \in DOMAIN rels
    BY <1>4, <1>9, <1>10
  <2>6. QED
    BY <1>1, <1>2, <1>3, <1>10, <1>11, <1>12, <2>1, <2>2, <2>3, <2>4, <2>5
    DEF Opens, Unique, d, now, Listing1
<1>16. Linked(after)
  <2>1. after["rels"] = before["rels"] /\ after["types"] = before["types"]
    BY <1>3 DEF rels
  <2>2. DOMAIN after = DOMAIN before
    BY <1>2
  <2>3. Linked(before)
    BY <1>19 DEF WellFormed
  <2>4. QED
    BY <2>1, <2>2, <2>3 DEF Linked
<1>17. Listed(after)
  <2>1. \A x \in ToSet(d) : rels[x.rid].kind # "calcChain"
    <3> TAKE x \in ToSet(d)
    <3>1. PICK i \in 1..Len(e) : x = d[i]
      BY <1>10 DEF ToSet
    <3>2. e[i] \in ToSet(e) /\ x.rid = e[i].rid
      BY <1>4, <1>9, <3>1 DEF ToSet
    <3>3. QED
      BY <1>19, <3>2 DEF WellFormed, Listed, e, rels
  <2>2. "app" \in DOMAIN after => after["app"] = [j \in DOMAIN now |-> now[j].name]
    <3>1. [j \in DOMAIN listed |-> IF listed[j].name = old THEN new ELSE listed[j].name]
            = [j \in DOMAIN now |-> now[j].name]
      BY <1>5, <1>13, <1>14
    <3>2. QED
      BY <1>2, <1>3, <3>1
  <2>3. QED
    BY <1>3, <1>12, <2>1, <2>2 DEF Listed, Listing1, d, now
<1>18. QED
  BY <1>6, <1>7, <1>8, <1>15, <1>16, <1>17 DEF WellFormed, after, listed

-----------------------------------------------------------------------------
(* A worksheet more. *)

\* Keys that differ still do when a new one is put among them.
LEMMA KeysStayApart ==
  ASSUME NEW n \in Nat, NEW a, NEW b, NEW at \in 0..n, NEW key,
         \A i, j \in 1..n : a[i] = a[j] => i = j,
         \A i \in 1..n : a[i] # key,
         \A j \in 1..(n + 1) :
           b[j] = IF j < at + 1 THEN a[j] ELSE IF j = at + 1 THEN key ELSE a[j - 1]
  PROVE  \A i, j \in 1..(n + 1) : b[i] = b[j] => i = j
<1> DEFINE From(j) == IF j < at + 1 THEN j ELSE j - 1
<1>1. ASSUME NEW j \in 1..(n + 1), j # at + 1
      PROVE  From(j) \in 1..n /\ b[j] = a[From(j)]
  BY <1>1
<1>2. ASSUME NEW i \in 1..(n + 1), NEW j \in 1..(n + 1), i # at + 1, j # at + 1, From(i) = From(j)
      PROVE  i = j
  BY <1>2
<1>3. b[at + 1] = key
  OBVIOUS
<1> HIDE DEF From
<1> TAKE i, j \in 1..(n + 1)
<1>4. CASE i # at + 1 /\ j # at + 1
  BY <1>1, <1>2, <1>4
<1>5. CASE i = at + 1 /\ j # at + 1
  BY <1>1, <1>3, <1>5
<1>6. CASE i # at + 1 /\ j = at + 1
  BY <1>1, <1>3, <1>6
<1>7. QED
  BY <1>4, <1>5, <1>6

\* The place before which an entry is put, or the end, and that of its worksheet.
Before(entries, rels, listed, at, place) ==
  /\ at \in 0..Len(entries) /\ place \in 0..Len(listed)
  /\ IF place < Len(listed)
     THEN at < Len(entries) /\ listed[place + 1] = SheetOf(entries, rels, at + 1)
          /\ at + 1 \in Positions(entries, rels)
     ELSE at = Len(entries)

\* A worksheet at a path that nothing uses, with a name and ids that nothing has.
Adds(before, c, path, entry, at, place) ==
  LET w == before["workbook"]  rels == before["rels"]  types == before["types"]
  IN /\ WellFormed(before)
     /\ path \in SheetPaths
     /\ \A p \in DOMAIN before : PathKey(p) # PathKey(path)
     /\ entry \in Entries /\ entry.rid \notin DOMAIN rels
     /\ \A i \in 1..Len(w.entries) : w.entries[i].id # entry.id
     /\ \A i \in 1..Len(w.entries) : NameKey(w.entries[i].name) # NameKey(entry.name)
     /\ Before(w.entries, rels, Listing1(before), at, place)
     /\ DOMAIN c = {path, "workbook", "rels", "types"} \cup ({"app"} \cap DOMAIN before)
     /\ c[path] = BlankSheet
     /\ c["workbook"] \in Workbooks /\ Indexed(c["workbook"])
     /\ c["workbook"].entries = InsertAt(w.entries, at + 1, entry)
     /\ c["rels"] = With(rels, Single(entry.rid, [kind |-> "worksheet", path |-> path]))
     /\ c["types"] = With(types, Single(path, "worksheet"))
     /\ "app" \in DOMAIN before => c["app"] = InsertAt(before["app"], place + 1, entry.name)

\* The package with a worksheet more is well formed and lists it where it was put.
LEMMA AddedIsWellFormed ==
  ASSUME NEW before, NEW c, NEW path, NEW entry, NEW at, NEW place,
         Adds(before, c, path, entry, at, place)
  PROVE  LET after == Patched(before, c, {})
             listed == Listing1(before)
         IN /\ WellFormed(after)
            /\ Listing1(after) = OneMore(listed, place, [name |-> entry.name, path |-> path])
<1> DEFINE after == Patched(before, c, {})
           w == before["workbook"]
           e == w.entries
           n == Len(e)
           v == after["workbook"]
           d == v.entries
           rels == before["rels"]
           links == after["rels"]
           types == before["types"]
           listed == Listing1(before)
           now == Listing1(after)
           link == [kind |-> "worksheet", path |-> path]
           sheet == [name |-> entry.name, path |-> path]
<1>1. WellFormed(before)
  BY DEF Adds
<1>2. /\ {"workbook", "rels", "types"} \subseteq DOMAIN before
      /\ \A p \in SheetPaths \cap DOMAIN before : IsWorksheet(before[p])
      /\ "chart" \in DOMAIN before => before["chart"] \in Charts
  BY <1>1 DEF WellFormed, PartsTyped
<1>3. /\ path \in SheetPaths /\ path \notin DOMAIN before
      /\ path \notin {"workbook", "rels", "types", "app", "chart", "chain"}
  BY PartNames DEF Adds
<1>4. /\ DOMAIN after = DOMAIN before \cup {path}
      /\ after = [p \in DOMAIN after |-> after[p]]
      /\ after[path] = BlankSheet
      /\ v = c["workbook"] /\ links = c["rels"] /\ after["types"] = c["types"]
      /\ "app" \in DOMAIN before => after["app"] = c["app"]
      /\ \A p \in DOMAIN before : p \notin {path, "workbook", "rels", "types", "app"} =>
           after[p] = before[p]
  BY <1>2, <1>3 DEF Patched, Adds
<1> HIDE DEF after
<1>5. /\ v \in Workbooks /\ Indexed(v) /\ d = InsertAt(e, at + 1, entry)
      /\ links = With(rels, Single(entry.rid, link))
      /\ after["types"] = With(types, Single(path, "worksheet"))
      /\ "app" \in DOMAIN before => after["app"] = InsertAt(before["app"], place + 1, entry.name)
  BY <1>4 DEF Adds
<1>6. /\ e \in Seq(Entries) /\ DOMAIN e = 1..n /\ n \in Nat
      /\ \A i, j \in 1..n : NameKey(e[i].name) = NameKey(e[j].name) => i = j
      /\ \A i, j \in 1..n : e[i].id = e[j].id => i = j
      /\ \A i, j \in 1..n : e[i].rid = e[j].rid => i = j
      /\ \A i \in 1..n : e[i].rid \in DOMAIN rels
  BY <1>1, Outline
<1>7. /\ DOMAIN listed = 1..Len(listed) /\ Len(listed) \in Nat
      /\ listed = [j \in 1..Len(listed) |-> listed[j]]
      /\ \A j \in 1..Len(listed) : \E i \in Positions(e, rels) : listed[j] = SheetOf(e, rels, i)
      /\ \A j \in 1..Len(listed) : listed[j].path \in SheetPaths \cap DOMAIN before
      /\ \A j, k \in 1..Len(listed) : PathKey(listed[j].path) = PathKey(listed[k].path) => j = k
  BY <1>1, Outline
<1>8. /\ entry \in Entries /\ entry.rid \notin DOMAIN rels
      /\ \A i \in 1..n : e[i].id # entry.id
      /\ \A i \in 1..n : NameKey(e[i].name) # NameKey(entry.name)
      /\ \A p \in DOMAIN before : PathKey(p) # PathKey(path)
      /\ at \in 0..n /\ place \in 0..Len(listed)
      /\ IF place < Len(listed)
         THEN at < n /\ listed[place + 1] = SheetOf(e, rels, at + 1)
              /\ at + 1 \in Positions(e, rels)
         ELSE at = n
  BY DEF Adds, Before
<1>9. \A r : r \in DOMAIN links <=> r \in DOMAIN rels \/ r = entry.rid
  BY <1>5 DEF With, Single
<1>10. /\ links[entry.rid] = link
       /\ \A r \in DOMAIN rels : links[r] = rels[r]
       /\ links = [r \in DOMAIN links |-> links[r]]
  BY <1>5, <1>8 DEF With, Single
<1>11. /\ DOMAIN after["types"] = DOMAIN types \cup {path}
       /\ after["types"][path] = "worksheet"
       /\ \A p \in DOMAIN types : p # path => after["types"][p] = types[p]
       /\ after["types"] = [p \in DOMAIN after["types"] |-> after["types"][p]]
  BY <1>5 DEF With, Single
<1> HIDE DEF w, e, n, v, d, rels, links, types, listed, now, link, sheet
<1>12. /\ d \in Seq(Entries) /\ Len(d) = n + 1 /\ DOMAIN d = 1..(n + 1)
       /\ \A j \in 1..(n + 1) : d[j] = IF j < at + 1 THEN e[j] ELSE IF j = at + 1 THEN entry ELSE e[j - 1]
  <2>1. e \in Seq(Entries)
    BY <1>6
  <2>4. entry \in Entries
    BY <1>8
  <2>5. at \in 0..Len(e)
    BY <1>8 DEF n
  <2>2. /\ InsertAt(e, at + 1, entry) \in Seq(Entries)
        /\ Len(InsertAt(e, at + 1, entry)) = Len(e) + 1
        /\ HasInserted(InsertAt(e, at + 1, entry), e, at, entry)
    BY <2>1, <2>4, <2>5, Inserted
  <2>6. HasInserted(d, e, at, entry)
    BY <1>5, <2>2
  <2>3. QED
    BY <1>5, <2>2, <2>6 DEF HasInserted, n
<1>13. \A i \in 1..n : links[e[i].rid] = rels[e[i].rid]
  BY <1>6, <1>10
<1>14. now = OneMore(listed, place, sheet)
  <2>1. Grows(w, v, rels, links, at, entry, place)
    BY <1>5, <1>6, <1>8, <1>10, <1>13 DEF Grows, e, n, d, listed, Listing1, link, w, rels
  <2>2. SheetsOf(v, links)
          = OneMore(SheetsOf(w, rels), place, [name |-> entry.name, path |-> links[entry.rid].path])
    BY <2>1, SheetsWithOneMore
  <2>3. QED
    BY <1>10, <2>2 DEF now, listed, Listing1, w, v, rels, links, link, sheet
<1>15. /\ DOMAIN now = 1..(Len(listed) + 1) /\ now = [j \in DOMAIN now |-> now[j]]
       /\ \A j \in 1..(Len(listed) + 1) :
            now[j] = IF j <= place THEN listed[j] ELSE IF j = place + 1 THEN sheet ELSE listed[j - 1]
  BY <1>14 DEF OneMore
<1>16. /\ sheet.name = entry.name /\ sheet.path = path /\ link.kind = "worksheet" /\ link.path = path
       /\ entry.rid \in Nat /\ entry.name \in SheetNames
  BY <1>8 DEF sheet, link, Entries
<1>17. PartsTyped(after)
  <2>1. IsWorksheet(BlankSheet)
    BY DEF IsWorksheet, BlankSheet
  <2>2. \A p \in SheetPaths \cap DOMAIN after : IsWorksheet(after[p])
    BY <1>2, <1>4, <2>1, PartNames
  <2>3. "chart" \in DOMAIN after => after["chart"] \in Charts
    BY <1>2, <1>3, <1>4
  <2>4. QED
    BY <1>2, <1>4, <1>5, <2>2, <2>3 DEF PartsTyped, v
<1>18. Linked(after)
  <2>1. IsFiniteSet(DOMAIN links)
    <3>1. DOMAIN links = DOMAIN rels \cup {entry.rid}
      BY <1>9
    <3>2. IsFiniteSet(DOMAIN rels)
      BY <1>1 DEF WellFormed, Linked, rels
    <3>3. QED
      BY <3>1, <3>2, FS_AddElement
  <2>2. \A r \in DOMAIN rels : /\ r \in Nat /\ rels[r] \in [kind : {rels[r].kind}, path : DOMAIN before]
                               /\ rels[r].kind = "calcChain" <=> rels[r].path = "chain"
    BY <1>1 DEF WellFormed, Linked, rels
  <2>3. \A r \in DOMAIN links : r \in Nat /\ links[r] \in [kind : {links[r].kind}, path : DOMAIN after]
    <3> TAKE r \in DOMAIN links
    <3>1. CASE r = entry.rid
      <4>1. path \in DOMAIN after
        BY <1>4
      <4>2. link \in [kind : {link.kind}, path : DOMAIN after]
        BY <4>1 DEF link
      <4>3. QED
        BY <1>10, <1>16, <3>1, <4>2
    <3>2. CASE r \in DOMAIN rels
      <4>1. r \in Nat /\ rels[r] \in [kind : {rels[r].kind}, path : DOMAIN before]
        BY <2>2, <3>2
      <4>2. links[r] = rels[r] /\ DOMAIN before \subseteq DOMAIN after
        BY <1>4, <1>10, <3>2
      <4>3. QED
        BY <4>1, <4>2
    <3>3. QED
      BY <1>9, <3>1, <3>2
  <2>4. \A r \in DOMAIN links : links[r].kind = "calcChain" <=> links[r].path = "chain"
    BY <1>3, <1>9, <1>10, <1>16, <2>2
  <2>5. /\ DOMAIN types \subseteq DOMAIN before
        /\ \A p \in DOMAIN types : types[p] = "calcChain" <=> p = "chain"
        /\ SheetPaths \cap DOMAIN before \subseteq DOMAIN types
    BY <1>1 DEF WellFormed, Linked, types
  <2>6. \A p \in DOMAIN after["types"] : after["types"][p] = "calcChain" <=> p = "chain"
    BY <1>3, <1>11, <2>5
  <2>7. DOMAIN after["types"] \subseteq DOMAIN after
    BY <1>4, <1>11, <2>5
  <2>8. SheetPaths \cap DOMAIN after \subseteq DOMAIN after["types"]
    BY <1>4, <1>11, <2>5
  <2>9. QED
    BY <1>10, <1>11, <2>1, <2>3, <2>4, <2>6, <2>7, <2>8 DEF Linked, links
<1>19. \A j \in 1..(Len(listed) + 1) :
         /\ now[j].path \in SheetPaths \cap DOMAIN after
         /\ now[j].name = IF j <= place THEN listed[j].name
                          ELSE IF j = place + 1 THEN entry.name ELSE listed[j - 1].name
         /\ now[j].path = IF j <= place THEN listed[j].path
                          ELSE IF j = place + 1 THEN path ELSE listed[j - 1].path
  BY <1>3, <1>4, <1>7, <1>8, <1>15, <1>16
<1>20. \A s \in ToSet(now) : s.path \in SheetPaths \cap DOMAIN after
  BY <1>15, <1>19 DEF ToSet
<1>21. Listed(after)
  <2>1. \A x \in ToSet(d) : links[x.rid].kind # "calcChain"
    <3> TAKE x \in ToSet(d)
    <3>1. PICK j \in 1..(n + 1) : x = d[j]
      BY <1>12 DEF ToSet
    <3>2. CASE x = entry
      BY <1>10, <1>16, <3>2
    <3>3. ASSUME NEW i \in 1..n, x = e[i] PROVE links[x.rid].kind # "calcChain"
      <4>1. x \in ToSet(e)
        BY <1>6, <3>3 DEF ToSet
      <4>2. rels[x.rid].kind # "calcChain"
        BY <1>1, <4>1 DEF WellFormed, Listed, e, w, rels
      <4>3. QED
        BY <1>13, <3>3, <4>2
    <3>4. x = entry \/ \E i \in 1..n : x = e[i]
      BY <1>6, <1>8, <1>12, <3>1
    <3>5. QED
      BY <3>2, <3>3, <3>4
  <2>2. ASSUME "app" \in DOMAIN after PROVE after["app"] = [j \in DOMAIN now |-> now[j].name]
    <3> DEFINE titles == before["app"]
               put == InsertAt(titles, place + 1, entry.name)
    <3>1. "app" \in DOMAIN before
      BY <1>3, <1>4, <2>2
    <3>2. titles = [i \in DOMAIN listed |-> listed[i].name] /\ after["app"] = put
      BY <1>1, <1>5, <3>1 DEF WellFormed, Listed, Listing1, listed
    <3>3. \A i \in 1..Len(listed) : listed[i].name \in SheetNames
      <4> TAKE i \in 1..Len(listed)
      <4>1. PICK k \in Positions(e, rels) : listed[i] = SheetOf(e, rels, k)
        BY <1>7
      <4>2. k \in 1..n /\ e[k] \in Entries
        BY <1>6 DEF Positions, n
      <4>3. e[k].name \in SheetNames
        BY <4>2 DEF Entries
      <4>4. listed[i].name = e[k].name
        BY <4>1 DEF SheetOf
      <4>5. QED
        BY <4>3, <4>4
    <3> HIDE DEF titles, put
    <3>4. titles \in Seq(SheetNames)
      BY <1>7, <3>2, <3>3
    <3>5. Len(titles) = Len(listed)
      BY <1>7, <3>2
    <3>6. place \in 0..Len(titles)
      BY <1>8, <3>5
    <3>7. entry.name \in SheetNames
      BY <1>16
    <3> DEFINE x == entry.name
               D == SheetNames
    <3> HIDE DEF x, D
    <3>8. x \in D
      BY <3>7 DEF x, D
    <3>15. titles \in Seq(D)
      BY <3>4 DEF D
    <3>9. /\ InsertAt(titles, place + 1, x) \in Seq(D)
          /\ Len(InsertAt(titles, place + 1, x)) = Len(titles) + 1
          /\ HasInserted(InsertAt(titles, place + 1, x), titles, place, x)
      BY <3>6, <3>8, <3>15, Inserted
    <3>10. /\ put \in Seq(D) /\ Len(put) = Len(listed) + 1
           /\ \A j \in 1..(Len(listed) + 1) :
                put[j] = IF j < place + 1 THEN titles[j] ELSE IF j = place + 1 THEN x ELSE titles[j - 1]
      <4>1. /\ put = InsertAt(titles, place + 1, x)
            /\ HasInserted(put, titles, place, x)
        BY <3>9 DEF put, x
      <4>2. QED
        BY <3>5, <3>9, <4>1 DEF HasInserted
    <3>11. \A j \in 1..Len(listed) : titles[j] = listed[j].name
      BY <1>7, <3>2
    <3>12. \A j \in 1..(Len(listed) + 1) : put[j] = now[j].name
      <4> TAKE j \in 1..(Len(listed) + 1)
      <4>1. CASE j <= place
        <5>1. j \in 1..Len(listed) /\ j < place + 1
          BY <1>7, <1>8, <4>1
        <5>2. QED
          BY <1>19, <3>10, <3>11, <4>1, <5>1
      <4>2. CASE j = place + 1
        BY <1>8, <1>19, <3>10, <4>2 DEF x
      <4>3. CASE j > place + 1
        <5>1. j - 1 \in 1..Len(listed) /\ ~(j < place + 1) /\ ~(j <= place) /\ j # place + 1
          BY <1>7, <1>8, <4>3
        <5>2. QED
          BY <1>19, <3>10, <3>11, <5>1
      <4>4. QED
        BY <1>7, <1>8, <4>1, <4>2, <4>3
    <3>13. DOMAIN put = 1..(Len(listed) + 1) /\ put = [j \in DOMAIN put |-> put[j]]
      BY <3>10
    <3>14. QED
      BY <1>15, <3>2, <3>12, <3>13
  <2>3. QED
    BY <1>20, <2>1, <2>2 DEF Listed, Listing1, now, d, v, links
<1>22. Opens(after)
  <2>1. \A p, q \in DOMAIN after : PathKey(p) = PathKey(q) => p = q
    <3>1. \A p, q \in DOMAIN before : PathKey(p) = PathKey(q) => p = q
      BY <1>1 DEF WellFormed, Opens
    <3>2. QED
      BY <1>4, <1>8, <3>1
  <2>2. \A i, j \in 1..(n + 1) : NameKey(d[i].name) = NameKey(d[j].name) => i = j
    <3> DEFINE a == [i \in 1..n |-> NameKey(e[i].name)]
               b == [j \in 1..(n + 1) |-> NameKey(d[j].name)]
               key == NameKey(entry.name)
    <3>1. \A i, j \in 1..n : a[i] = a[j] => i = j
      BY <1>6
    <3>2. \A i \in 1..n : a[i] # key
      BY <1>8
    <3>3. \A j \in 1..(n + 1) : b[j] = IF j < at + 1 THEN a[j] ELSE IF j = at + 1 THEN key ELSE a[j - 1]
      BY <1>6, <1>8, <1>12
    <3>4. n \in Nat
      BY <1>6
    <3>5. at \in 0..n
      BY <1>8
    <3>6. \A j \in 1..(n + 1) : b[j] = NameKey(d[j].name)
      OBVIOUS
    <3> HIDE DEF a, b, key
    <3>7. \A i, j \in 1..(n + 1) : b[i] = b[j] => i = j
      BY <3>1, <3>2, <3>3, <3>4, <3>5, KeysStayApart
    <3>8. QED
      BY <3>6, <3>7
  <2>3. \A i, j \in 1..(n + 1) : d[i].id = d[j].id => i = j
    <3> DEFINE a == [i \in 1..n |-> e[i].id]
               b == [j \in 1..(n + 1) |-> d[j].id]
               key == entry.id
    <3>1. \A i, j \in 1..n : a[i] = a[j] => i = j
      BY <1>6
    <3>2. \A i \in 1..n : a[i] # key
      BY <1>8
    <3>3. \A j \in 1..(n + 1) : b[j] = IF j < at + 1 THEN a[j] ELSE IF j = at + 1 THEN key ELSE a[j - 1]
      BY <1>6, <1>8, <1>12
    <3>4. n \in Nat
      BY <1>6
    <3>5. at \in 0..n
      BY <1>8
    <3>6. \A j \in 1..(n + 1) : b[j] = d[j].id
      OBVIOUS
    <3> HIDE DEF a, b, key
    <3>7. \A i, j \in 1..(n + 1) : b[i] = b[j] => i = j
      BY <3>1, <3>2, <3>3, <3>4, <3>5, KeysStayApart
    <3>8. QED
      BY <3>6, <3>7
  <2>4. \A i, j \in 1..(n + 1) : d[i].rid = d[j].rid => i = j
    <3> DEFINE a == [i \in 1..n |-> e[i].rid]
               b == [j \in 1..(n + 1) |-> d[j].rid]
               key == entry.rid
    <3>1. \A i, j \in 1..n : a[i] = a[j] => i = j
      BY <1>6
    <3>2. \A i \in 1..n : a[i] # key
      BY <1>6, <1>8
    <3>3. \A j \in 1..(n + 1) : b[j] = IF j < at + 1 THEN a[j] ELSE IF j = at + 1 THEN key ELSE a[j - 1]
      BY <1>6, <1>8, <1>12
    <3>4. n \in Nat
      BY <1>6
    <3>5. at \in 0..n
      BY <1>8
    <3>6. \A j \in 1..(n + 1) : b[j] = d[j].rid
      OBVIOUS
    <3> HIDE DEF a, b, key
    <3>7. \A i, j \in 1..(n + 1) : b[i] = b[j] => i = j
      BY <3>1, <3>2, <3>3, <3>4, <3>5, KeysStayApart
    <3>8. QED
      BY <3>6, <3>7
  <2>5. \A i \in 1..(n + 1) : d[i].rid \in DOMAIN links
    <3> TAKE i \in 1..(n + 1)
    <3>1. d[i] = entry \/ \E j \in 1..n : d[i] = e[j]
      BY <1>6, <1>8, <1>12
    <3>2. \A j \in 1..n : e[j].rid \in DOMAIN links
      BY <1>6, <1>9
    <3>3. entry.rid \in DOMAIN links
      BY <1>9
    <3>4. QED
      BY <3>1, <3>2, <3>3
  <2>6. \A j, k \in 1..(Len(listed) + 1) : PathKey(now[j].path) = PathKey(now[k].path) => j = k
    <3> DEFINE m == Len(listed)
               a == [i \in 1..m |-> PathKey(listed[i].path)]
               b == [j \in 1..(m + 1) |-> PathKey(now[j].path)]
               key == PathKey(path)
    <3>1. \A i, j \in 1..m : a[i] = a[j] => i = j
      BY <1>7
    <3>2. \A i \in 1..m : a[i] # key
      BY <1>7, <1>8
    <3>3. \A j \in 1..(m + 1) :
            b[j] = IF j < place + 1 THEN a[j] ELSE IF j = place + 1 THEN key ELSE a[j - 1]
      BY <1>7, <1>8, <1>19
    <3>4. m \in Nat
      BY <1>7
    <3>5. place \in 0..m
      BY <1>8
    <3>6. \A j \in 1..(m + 1) : b[j] = PathKey(now[j].path)
      OBVIOUS
    <3> HIDE DEF a, b, key, m
    <3>7. \A i, j \in 1..(m + 1) : b[i] = b[j] => i = j
      BY <3>1, <3>2, <3>3, <3>4, <3>5, KeysStayApart
    <3>8. QED
      BY <3>6, <3>7 DEF m
  <2>7. {"workbook", "rels", "types"} \subseteq DOMAIN after
    BY <1>2, <1>4
  <2>8. QED
    BY <1>12, <1>15, <1>20, <2>1, <2>2, <2>3, <2>4, <2>5, <2>6, <2>7
    DEF Opens, Unique, Listing1, now, d, v, links
<1>23. QED
  BY <1>5, <1>14, <1>17, <1>18, <1>21, <1>22 DEF WellFormed, after, v, listed, now, sheet

-----------------------------------------------------------------------------
(* Number formats. *)

\* PositionOf is a place of the element, or 0 when there is none.
LEMMA PositionFound ==
  ASSUME NEW x, NEW s, NEW n \in Nat, Len(s) = n
  PROVE  \/ PositionOf(x, s) = 0
         \/ PositionOf(x, s) \in 1..n /\ s[PositionOf(x, s)] = x
<1> DEFINE found == {i \in 1..Len(s) : s[i] = x}
<1>1. PositionOf(x, s) = IF found # {} THEN Min(found) ELSE 0
  BY DEF PositionOf, IndexOf, SelectInSeq
<1>2. found \in SUBSET Nat
  OBVIOUS
<1>3. \A i \in found : i \in 1..n /\ s[i] = x
  OBVIOUS
<1> HIDE DEF found
<1>4. found # {} => Min(found) \in found
  BY <1>2, MinIsLeast
<1>5. QED
  BY <1>1, <1>3, <1>4

-----------------------------------------------------------------------------
(* What a plan for a number format has gathered. *)

IsStart(start) ==
  /\ start = [fmt |-> start.fmt, formats |-> start.formats, xfs |-> start.xfs,
              appended |-> <<>>, targets |-> <<>>]
  /\ start.fmt \in Nat /\ start.xfs \in Seq(CellFormats)

Found(start, appended, target, base) ==
  /\ base \in 0..(Len(start.xfs) - 1)
  /\ target \in 0..(Len(start.xfs) + Len(appended) - 1)
  /\ (start.xfs \o appended)[target + 1] = Copied(start, base)

PlanGood(start, plan) ==
  /\ plan = [fmt |-> start.fmt, formats |-> start.formats, xfs |-> start.xfs,
             appended |-> plan.appended, targets |-> plan.targets]
  /\ plan.appended \in Seq(CellFormats)
  /\ \A b \in DOMAIN plan.targets : Found(start, plan.appended, plan.targets[b], b)

PlanStep(start, plan, base) == Visit(plan, base)

Plans == INSTANCE FoldInduction WITH Op <- PlanStep, Good <- PlanGood

\* The copy of a cell format has the plan's number format.
LEMMA CopiedType ==
  ASSUME NEW start, IsStart(start), NEW base \in 0..(Len(start.xfs) - 1)
  PROVE  /\ Copied(start, base) \in CellFormats
         /\ Copied(start, base).fmt = start.fmt
         /\ Copied(start, base).other = start.xfs[base + 1].other
<1> DEFINE xf == start.xfs[base + 1]
<1>1. start.fmt \in Nat /\ start.xfs \in Seq(CellFormats)
  BY DEF IsStart
<1>2. base + 1 \in 1..Len(start.xfs)
  OBVIOUS
<1>3. xf \in CellFormats
  BY <1>1, <1>2
<1>4. Copied(start, base) = [xf EXCEPT !.fmt = start.fmt, !.applied = TRUE]
  BY DEF Copied
<1> HIDE DEF xf
<1>5. QED
  BY <1>1, <1>3, <1>4 DEF CellFormats, xf

\* More formats leave those that there are where they are.
LEMMA StaysFound ==
  ASSUME NEW start, IsStart(start), NEW a \in Seq(CellFormats), NEW x \in CellFormats,
         NEW target, NEW base, Found(start, a, target, base)
  PROVE  Found(start, Append(a, x), target, base)
<1> DEFINE xfs == start.xfs
           all == xfs \o a
           more == xfs \o Append(a, x)
<1>1. xfs \in Seq(CellFormats)
  BY DEF IsStart
<1>2. /\ base \in 0..(Len(xfs) - 1) /\ target \in 0..(Len(xfs) + Len(a) - 1)
      /\ all[target + 1] = Copied(start, base)
  BY DEF Found
<1> HIDE DEF xfs
<1>3. Append(a, x) \in Seq(CellFormats) /\ Len(Append(a, x)) = Len(a) + 1 /\ Len(a) \in Nat /\ Len(xfs) \in Nat
  BY <1>1
<1>4. more[target + 1] = all[target + 1]
  BY <1>1, <1>2, <1>3
<1>5. target \in 0..(Len(xfs) + Len(Append(a, x)) - 1)
  BY <1>2, <1>3
<1>6. QED
  BY <1>2, <1>4, <1>5 DEF Found, xfs

\* A copy that is appended is at the end.
LEMMA NewIsFound ==
  ASSUME NEW start, IsStart(start), NEW a \in Seq(CellFormats), NEW base \in 0..(Len(start.xfs) - 1)
  PROVE  Found(start, Append(a, Copied(start, base)), Len(start.xfs) + Len(a), base)
<1> DEFINE xfs == start.xfs
           x == Copied(start, base)
           more == xfs \o Append(a, x)
<1>1. xfs \in Seq(CellFormats) /\ x \in CellFormats /\ Len(xfs) \in Nat
  BY CopiedType DEF IsStart
<1>2. base \in 0..(Len(xfs) - 1)
  OBVIOUS
<1> HIDE DEF xfs, x
<1>3. Append(a, x) \in Seq(CellFormats) /\ Len(Append(a, x)) = Len(a) + 1 /\ Len(a) \in Nat
      /\ Append(a, x)[Len(a) + 1] = x
  BY <1>1
<1>4. more[Len(xfs) + Len(a) + 1] = x
  BY <1>1, <1>3
<1>5. Len(xfs) + Len(a) \in 0..(Len(xfs) + Len(Append(a, x)) - 1)
  BY <1>1, <1>3
<1>6. QED
  BY <1>2, <1>4, <1>5 DEF Found, xfs, x

\* The style of one more cell gets its target, and the others keep theirs.
LEMMA VisitKeeps ==
  ASSUME NEW start, IsStart(start), NEW plan, PlanGood(start, plan),
         NEW base \in 0..(Len(start.xfs) - 1)
  PROVE  /\ PlanGood(start, Visit(plan, base))
         /\ DOMAIN Visit(plan, base).targets = DOMAIN plan.targets \cup {base}
<1> DEFINE xfs == start.xfs
           a == plan.appended
           targets == plan.targets
           all == xfs \o a
           copy == Copied(start, base)
           known == PositionOf(copy, all)
           longer == IF known = 0 THEN Append(a, copy) ELSE a
           target == IF known # 0 THEN known - 1 ELSE Len(xfs) + Len(a)
           more == With(targets, Single(base, target))
           after == Visit(plan, base)
<1>1. CASE base \in DOMAIN plan.targets
  BY <1>1 DEF Visit
<1>2. CASE base \notin DOMAIN plan.targets
  <2>1. /\ plan = [fmt |-> start.fmt, formats |-> start.formats, xfs |-> xfs,
                   appended |-> a, targets |-> targets]
        /\ a \in Seq(CellFormats)
        /\ \A b \in DOMAIN targets : Found(start, a, targets[b], b)
    BY DEF PlanGood
  <2>2. plan.xfs = xfs /\ plan.fmt = start.fmt
    BY <2>1
  <2>3. Copied(plan, base) = copy
    BY <2>2 DEF Copied
  <2> HIDE DEF copy
  <2>4. after = [plan EXCEPT !.appended = longer, !.targets = more]
    BY <1>2, <2>2, <2>3 DEF Visit, AddCopy
  <2> HIDE DEF after, longer, more
  <2>5. after = [fmt |-> start.fmt, formats |-> start.formats, xfs |-> xfs,
                 appended |-> longer, targets |-> more]
    <3> HIDE DEF a, targets, xfs
    <3>1. QED
      BY <2>1, <2>4
  <2>6. after.appended = longer /\ after.targets = more
    BY <2>5
  <2>7. copy \in CellFormats /\ xfs \in Seq(CellFormats)
    BY CopiedType DEF IsStart, copy
  <2>8. /\ Len(all) = Len(xfs) + Len(a) /\ Len(all) \in Nat /\ Len(xfs) \in Nat /\ Len(a) \in Nat
    <3> HIDE DEF xfs, a
    <3>1. QED
      BY <2>1, <2>7
  <2> HIDE DEF all, known
  <2>9. known = 0 \/ (known \in 1..Len(all) /\ all[known] = copy)
    BY <2>8, PositionFound DEF known
  <2>10. longer \in Seq(CellFormats)
    BY <2>1, <2>7 DEF longer
  <2>11. \A b \in DOMAIN targets : Found(start, longer, targets[b], b)
    BY <2>1, <2>7, StaysFound DEF longer
  <2>12. Found(start, longer, target, base)
    <3>1. CASE known = 0
      <4>1. longer = Append(a, copy) /\ target = Len(xfs) + Len(a)
        BY <3>1 DEF longer
      <4>2. Found(start, Append(a, copy), Len(xfs) + Len(a), base)
        BY <2>1, NewIsFound DEF copy
      <4>3. QED
        BY <4>1, <4>2
    <3>2. CASE known # 0
      <4>1. longer = a /\ target = known - 1 /\ known \in 1..Len(all) /\ all[known] = copy
        BY <2>9, <3>2 DEF longer
      <4>2. target \in 0..(Len(xfs) + Len(a) - 1) /\ target + 1 = known
        <5> HIDE DEF a, xfs
        <5>1. QED
          BY <2>8, <4>1
      <4>3. QED
        BY <4>1, <4>2 DEF Found, all, copy
    <3>3. QED
      BY <3>1, <3>2
  <2> HIDE DEF target
  <2>13. /\ DOMAIN more = DOMAIN targets \cup {base} /\ more[base] = target
         /\ \A b \in DOMAIN targets : b # base => more[b] = targets[b]
    BY DEF more, With, Single
  <2>14. \A b \in DOMAIN more : Found(start, longer, more[b], b)
    BY <2>11, <2>12, <2>13
  <2>15. PlanGood(start, after)
    BY <2>5, <2>6, <2>10, <2>14 DEF PlanGood
  <2>16. QED
    BY <2>6, <2>13, <2>15 DEF after
<1>3. QED
  BY <1>1, <1>2

\* After all of them every style visited has its target.
LEMMA PlansVisit ==
  ASSUME NEW start, IsStart(start), NEW bases \in Seq(0..(Len(start.xfs) - 1))
  PROVE  LET plan == VisitAll(start, bases)
         IN /\ PlanGood(start, plan)
            /\ \A i \in 1..Len(bases) : bases[i] \in DOMAIN plan.targets
<1> DEFINE n == Len(bases)
<1>1. VisitAll(start, bases) = Plans!Folded(start, start, bases)
  BY DEF VisitAll, FoldLeft, MapThenFoldSet, Max, PlanStep,
         Plans!Folded, Plans!IsFold, Plans!Top
<1>2. PICK f : Plans!PrefixFolds(start, start, bases, f)
  BY Plans!PrefixesFold
<1>3. /\ n \in Nat
      /\ f[1..0] = start
      /\ \A k \in 0..(n - 1) : f[1..(k + 1)] = Visit(f[1..k], bases[k + 1])
      /\ VisitAll(start, bases) = f[1..n]
  BY <1>1, <1>2 DEF Plans!PrefixFolds, PlanStep
<1>4. \A i \in 1..n : bases[i] \in 0..(Len(start.xfs) - 1)
  OBVIOUS
<1> DEFINE Done(k) == /\ PlanGood(start, f[1..k])
                      /\ \A i \in 1..k : bases[i] \in DOMAIN f[1..k].targets
           T == {k \in Nat : k <= n => Done(k)}
<1> HIDE DEF n
<1>5. 0 \in T
  <2>1. start.targets = <<>> /\ start.appended = <<>>
    BY DEF IsStart
  <2>2. DOMAIN start.targets = {} /\ start.appended \in Seq(CellFormats)
    BY <2>1
  <2>3. PlanGood(start, start)
    BY <2>1, <2>2 DEF PlanGood, IsStart
  <2>4. QED
    BY <1>3, <2>3
<1>6. ASSUME NEW k \in T PROVE k + 1 \in T
  <2> SUFFICES ASSUME k + 1 <= n PROVE Done(k + 1)
    OBVIOUS
  <2>1. k \in Nat /\ k \in 0..(n - 1) /\ k + 1 \in 1..n /\ Done(k)
    BY <1>3
  <2>2. f[1..(k + 1)] = Visit(f[1..k], bases[k + 1])
    BY <1>3, <2>1
  <2>3. PlanGood(start, f[1..k])
    BY <2>1
  <2>4. bases[k + 1] \in 0..(Len(start.xfs) - 1)
    BY <1>4, <2>1
  <2>5. PlanGood(start, Visit(f[1..k], bases[k + 1]))
        /\ DOMAIN Visit(f[1..k], bases[k + 1]).targets = DOMAIN f[1..k].targets \cup {bases[k + 1]}
    BY <2>3, <2>4, VisitKeeps
  <2>6. \A i \in 1..(k + 1) : bases[i] \in DOMAIN f[1..(k + 1)].targets
    <3> TAKE i \in 1..(k + 1)
    <3>1. i \in 1..k \/ i = k + 1
      BY <2>1
    <3>2. QED
      BY <2>1, <2>2, <2>5, <3>1
  <2>7. QED
    BY <2>2, <2>5, <2>6
<1>7. T = Nat
  <2>1. T \in SUBSET Nat
    OBVIOUS
  <2> HIDE DEF T
  <2>2. QED
    BY <1>5, <1>6, <2>1, AllNaturals
<1>8. Done(n)
  <2>1. n \in T /\ n <= n
    BY <1>3, <1>7
  <2>2. QED
    BY <2>1
<1>9. QED
  BY <1>3, <1>8 DEF n

-----------------------------------------------------------------------------
(* The plan a number format starts with. *)

IsStyles(styles) ==
  /\ styles \in [formats : Seq(NumberFormats), xfs : Seq(CellFormats)]
  /\ \A i, j \in DOMAIN styles.formats : styles.formats[i].id = styles.formats[j].id => i = j
  /\ styles.xfs # <<>>

Planned(styles, code, start) ==
  /\ IsStart(start) /\ start.xfs = styles.xfs
  /\ \/ /\ start.formats = styles.formats
        /\ \E k \in 1..Len(styles.formats) :
             styles.formats[k].code = code /\ styles.formats[k].id = start.fmt
     \/ /\ start.formats = Append(styles.formats, [id |-> start.fmt, code |-> code])
        /\ \A k \in 1..Len(styles.formats) : styles.formats[k].id < start.fmt
        /\ \A k \in 1..Len(styles.xfs) : styles.xfs[k].fmt < start.fmt

\* FormatOf is a number format with this code, or 0.
LEMMA FormatFound ==
  ASSUME NEW code, NEW formats, NEW n \in Nat, Len(formats) = n
  PROVE  \/ FormatOf(code, formats) = 0
         \/ FormatOf(code, formats) \in 1..n /\ formats[FormatOf(code, formats)].code = code
<1> DEFINE found == {i \in 1..Len(formats) : formats[i].code = code}
<1>1. FormatOf(code, formats) = IF found # {} THEN Min(found) ELSE 0
  BY DEF FormatOf, IndexOf, SelectInSeq
<1>2. found \in SUBSET Nat /\ \A i \in found : i \in 1..n /\ formats[i].code = code
  OBVIOUS
<1> HIDE DEF found
<1>4. found # {} => Min(found) \in found
  BY <1>2, MinIsLeast
<1>5. QED
  BY <1>1, <1>2, <1>4

\* The plan's number format has the code, under an id that no other format has.
LEMMA PlanStarts ==
  ASSUME NEW styles, IsStyles(styles), NEW code
  PROVE  Planned(styles, code, FormatPlan(styles, code))
<1> DEFINE fs == styles.formats
           xfs == styles.xfs
           reused == FormatOf(code, fs)
           ids == {f.id : f \in ToSet(fs)}
           fmts == {x.fmt : x \in ToSet(xfs)}
           used == ids \cup fmts
           id == IF reused # 0 THEN fs[reused].id ELSE Max({FirstCustom - 1} \cup used) + 1
           formats == IF reused # 0 THEN fs ELSE Append(fs, [id |-> id, code |-> code])
           start == FormatPlan(styles, code)
<1>1. start = [fmt |-> id, formats |-> formats, xfs |-> xfs, appended |-> <<>>, targets |-> <<>>]
  BY DEF FormatPlan
<1>2. fs \in Seq(NumberFormats) /\ xfs \in Seq(CellFormats)
  BY DEF IsStyles
<1>3. /\ DOMAIN fs = 1..Len(fs) /\ Len(fs) \in Nat /\ DOMAIN xfs = 1..Len(xfs) /\ Len(xfs) \in Nat
      /\ \A k \in 1..Len(fs) : fs[k] \in NumberFormats
      /\ \A k \in 1..Len(xfs) : xfs[k] \in CellFormats
  BY <1>2
<1>4. /\ \A f \in NumberFormats : f.id \in Nat
      /\ \A x \in CellFormats : x.fmt \in Nat
  BY DEF NumberFormats, CellFormats
<1>5. /\ \A k \in 1..Len(fs) : fs[k].id \in Nat /\ fs[k].id \in ids
      /\ \A k \in 1..Len(xfs) : xfs[k].fmt \in Nat /\ xfs[k].fmt \in fmts
  BY <1>3, <1>4 DEF ToSet
<1>6. /\ \A x \in ids : \E k \in 1..Len(fs) : x = fs[k].id
      /\ \A x \in fmts : \E k \in 1..Len(xfs) : x = xfs[k].fmt
  BY <1>3 DEF ToSet
<1>7. Bounded(ids)
  <2> DEFINE f == [k \in 1..Len(fs) |-> fs[k].id]
  <2>1. f \in [1..Len(fs) -> Nat] /\ \A k \in 1..Len(fs) : f[k] = fs[k].id
    BY <1>5
  <2> HIDE DEF f, fs, ids
  <2>2. \A x \in ids : \E k \in 1..Len(fs) : x = f[k]
    BY <1>6, <2>1
  <2>3. QED
    BY <1>3, <2>1, <2>2, ValuesAreBounded
<1>8. Bounded(fmts)
  <2> DEFINE f == [k \in 1..Len(xfs) |-> xfs[k].fmt]
  <2>1. f \in [1..Len(xfs) -> Nat] /\ \A k \in 1..Len(xfs) : f[k] = xfs[k].fmt
    BY <1>5
  <2> HIDE DEF f, xfs, fmts
  <2>2. \A x \in fmts : \E k \in 1..Len(xfs) : x = f[k]
    BY <1>6, <2>1
  <2>3. QED
    BY <1>3, <2>1, <2>2, ValuesAreBounded
<1> HIDE DEF start, fs, xfs, ids, fmts, id, formats
<1>9. Bounded({FirstCustom - 1})
  <2>1. FirstCustom - 1 \in Nat
    BY BoundsAssumption
  <2>2. QED
    BY <2>1 DEF Bounded
<1>10. /\ Max({FirstCustom - 1} \cup used) \in Nat
       /\ \A k \in used : k \in Nat /\ k <= Max({FirstCustom - 1} \cup used)
  <2>1. Bounded(used)
    BY <1>7, <1>8, BoundedUnion
  <2> HIDE DEF used
  <2>2. Bounded({FirstCustom - 1} \cup used)
    BY <1>9, <2>1, BoundedUnion
  <2>3. {FirstCustom - 1} \cup used # {}
    OBVIOUS
  <2> DEFINE all == {FirstCustom - 1} \cup used
  <2>4. \A k \in used : k \in all
    OBVIOUS
  <2> HIDE DEF all
  <2>5. Max(all) \in Nat /\ \A k \in all : k \in Nat /\ k <= Max(all)
    BY <2>2, <2>3, MaxIsGreatest DEF all
  <2>6. QED
    BY <2>4, <2>5 DEF all
<1>11. reused = 0 \/ (reused \in 1..Len(fs) /\ fs[reused].code = code)
  BY <1>3, FormatFound
<1> HIDE DEF reused
<1>12. CASE reused # 0
  <2>1. id = fs[reused].id /\ formats = fs /\ id \in Nat
    BY <1>5, <1>11, <1>12 DEF id, formats
  <2>2. start.fmt = id /\ start.formats = formats /\ start.xfs = xfs
    BY <1>1
  <2>3. IsStart(start)
    BY <1>1, <1>2, <2>1, <2>2 DEF IsStart
  <2>4. QED
    BY <1>11, <1>12, <2>1, <2>2, <2>3 DEF Planned, fs, xfs, start
<1>13. CASE reused = 0
  <2> DEFINE top == Max({FirstCustom - 1} \cup used)
  <2>1. id = top + 1 /\ formats = Append(fs, [id |-> id, code |-> code])
    BY <1>13 DEF id, formats
  <2>2. \A k \in used : k \in Nat /\ k <= top
    BY <1>10
  <2>9. top \in Nat
    BY <1>10
  <2> HIDE DEF top
  <2>3. id \in Nat /\ \A k \in used : k < id
    BY <2>1, <2>2, <2>9
  <2>4. start.fmt = id /\ start.formats = formats /\ start.xfs = xfs
    BY <1>1
  <2>5. IsStart(start)
    BY <1>1, <1>2, <2>3, <2>4 DEF IsStart
  <2>6. /\ \A k \in 1..Len(fs) : fs[k].id < id
        /\ \A k \in 1..Len(xfs) : xfs[k].fmt < id
    BY <1>5, <2>3
  <2>7. start.formats = Append(fs, [id |-> start.fmt, code |-> code])
    BY <2>1, <2>4
  <2>8. QED
    BY <2>4, <2>5, <2>6, <2>7 DEF Planned, fs, xfs, start
<1>14. QED
  BY <1>12, <1>13

\* The number format of an id is the only one that has it.
LEMMA FormatWithId ==
  ASSUME NEW fs, NEW n \in Nat, Len(fs) = n, \A i, j \in 1..n : fs[i].id = fs[j].id => i = j,
         NEW id
  PROVE  /\ \A k \in 1..n : fs[k].id = id => FormatWith(id, fs) = k
         /\ (\A k \in 1..n : fs[k].id # id) => FormatWith(id, fs) = 0
<1> DEFINE found == {i \in 1..Len(fs) : fs[i].id = id}
<1>1. FormatWith(id, fs) = IF found # {} THEN Min(found) ELSE 0
  BY DEF FormatWith, SelectInSeq
<1>2. found \in SUBSET Nat /\ \A i \in 1..n : i \in found <=> fs[i].id = id
  OBVIOUS
<1>3. \A i \in found : i \in 1..n
  OBVIOUS
<1> HIDE DEF found
<1>4. found # {} => Min(found) \in found
  BY <1>2, MinIsLeast
<1>5. ASSUME NEW k \in 1..n, fs[k].id = id PROVE FormatWith(id, fs) = k
  <2>1. k \in found
    BY <1>2, <1>5
  <2>2. Min(found) = k
    BY <1>2, <1>3, <1>4, <1>5, <2>1
  <2>3. QED
    BY <1>1, <2>1, <2>2
<1>6. ASSUME \A k \in 1..n : fs[k].id # id PROVE FormatWith(id, fs) = 0
  BY <1>1, <1>2, <1>3, <1>6
<1>7. QED
  BY <1>5, <1>6

\* The formats of the plan: those that there were, and its own.
LEMMA FormatsPlanned ==
  ASSUME NEW styles, IsStyles(styles), NEW code \in Texts, NEW start, Planned(styles, code, start)
  PROVE  LET fs == styles.formats  gs == start.formats
         IN /\ gs \in Seq(NumberFormats)
            /\ \A i, j \in DOMAIN gs : gs[i].id = gs[j].id => i = j
            /\ FormatWith(start.fmt, gs) \in 1..Len(gs)
            /\ gs[FormatWith(start.fmt, gs)].code = code
            /\ \A k \in 1..Len(styles.xfs) :
                 LET id == styles.xfs[k].fmt
                 IN /\ FormatWith(id, gs) = FormatWith(id, fs)
                    /\ FormatWith(id, fs) # 0 => gs[FormatWith(id, fs)] = fs[FormatWith(id, fs)]
<1> DEFINE fs == styles.formats
           gs == start.formats
           n == Len(fs)
           x == [id |-> start.fmt, code |-> code]
           xfs == styles.xfs
<1>1. fs \in Seq(NumberFormats) /\ \A i, j \in DOMAIN fs : fs[i].id = fs[j].id => i = j
  BY DEF IsStyles
<1>2. n \in Nat /\ DOMAIN fs = 1..n
  BY <1>1
<1>3. start.fmt \in Nat
  BY DEF Planned, IsStart
<1>4. x \in NumberFormats /\ x.id = start.fmt /\ x.code = code
  BY <1>3 DEF NumberFormats
<1> HIDE DEF fs, gs, x, n, xfs
<1>12. Len(fs) = n /\ \A i, j \in 1..n : fs[i].id = fs[j].id => i = j
  BY <1>1, <1>2 DEF n
<1>5. CASE /\ gs = fs
           /\ \E k \in 1..n : fs[k].code = code /\ fs[k].id = start.fmt
  <2>1. PICK k \in 1..n : fs[k].code = code /\ fs[k].id = start.fmt
    BY <1>5
  <2>2. FormatWith(start.fmt, fs) = k
    BY <1>2, <1>12, <2>1, FormatWithId
  <2>3. QED
    BY <1>1, <1>5, <1>12, <2>1, <2>2 DEF fs, gs, xfs
<1>6. CASE /\ gs = Append(fs, x)
           /\ \A k \in 1..n : fs[k].id < start.fmt
           /\ \A k \in 1..Len(xfs) : xfs[k].fmt < start.fmt
  <2>1. /\ gs \in Seq(NumberFormats) /\ Len(gs) = n + 1 /\ DOMAIN gs = 1..(n + 1)
        /\ gs[n + 1] = x /\ \A k \in 1..n : gs[k] = fs[k]
    BY <1>1, <1>2, <1>4, <1>6 DEF n
  <2>2. \A k \in 1..n : fs[k].id # start.fmt
    BY <1>3, <1>6
  <2>3. \A i, j \in 1..(n + 1) : gs[i].id = gs[j].id => i = j
    <3> SUFFICES ASSUME NEW i \in 1..(n + 1), NEW j \in 1..(n + 1), gs[i].id = gs[j].id PROVE i = j
      OBVIOUS
    <3>1. i \in 1..n \/ i = n + 1
      BY <1>2
    <3>2. j \in 1..n \/ j = n + 1
      BY <1>2
    <3>3. QED
      BY <1>4, <1>12, <2>1, <2>2, <3>1, <3>2
  <2>4. n + 1 \in Nat /\ n + 1 \in 1..(n + 1)
    BY <1>2
  <2>5. FormatWith(start.fmt, gs) = n + 1
    BY <1>4, <2>1, <2>3, <2>4, FormatWithId
  <2>6. ASSUME NEW k \in 1..Len(xfs)
        PROVE  /\ FormatWith(xfs[k].fmt, gs) = FormatWith(xfs[k].fmt, fs)
               /\ FormatWith(xfs[k].fmt, fs) # 0 =>
                    gs[FormatWith(xfs[k].fmt, fs)] = fs[FormatWith(xfs[k].fmt, fs)]
    <3> DEFINE id == xfs[k].fmt
    <3>1. id # start.fmt
      BY <1>3, <1>6
    <3> HIDE DEF id
    <3>2. CASE \E i \in 1..n : fs[i].id = id
      <4>1. PICK i \in 1..n : fs[i].id = id
        BY <3>2
      <4>2. FormatWith(id, fs) = i
        BY <1>2, <1>12, <4>1, FormatWithId
      <4>3. i \in 1..(n + 1) /\ gs[i].id = id
        BY <1>2, <2>1, <4>1
      <4>4. FormatWith(id, gs) = i
        BY <2>1, <2>3, <2>4, <4>3, FormatWithId
      <4>5. QED
        BY <2>1, <4>1, <4>2, <4>4 DEF id
    <3>3. CASE \A i \in 1..n : fs[i].id # id
      <4>1. FormatWith(id, fs) = 0
        BY <1>2, <1>12, <3>3, FormatWithId
      <4>2. \A i \in 1..(n + 1) : gs[i].id # id
        <5> TAKE i \in 1..(n + 1)
        <5>1. i \in 1..n \/ i = n + 1
          BY <1>2
        <5>2. QED
          BY <1>4, <2>1, <3>1, <3>3, <5>1
      <4>3. FormatWith(id, gs) = 0
        BY <2>1, <2>3, <2>4, <4>2, FormatWithId
      <4>4. QED
        BY <4>1, <4>3 DEF id
    <3>4. QED
      BY <3>2, <3>3
  <2>7. QED
    BY <1>4, <2>1, <2>3, <2>4, <2>5, <2>6 DEF fs, gs, xfs
<1>7. QED
  BY <1>5, <1>6 DEF Planned, fs, gs, x, n, xfs

\* Every style looks as it did, and a copy as the style it is of, but for the
\* number format.
LEMMA StylesPlanned ==
  ASSUME NEW styles, IsStyles(styles), NEW code \in Texts, NEW start, Planned(styles, code, start),
         NEW plan, PlanGood(start, plan)
  PROVE  LET after == StylesOf(plan)
         IN /\ IsStyles(after)
            /\ Len(styles.xfs) \in Nat /\ Len(after.xfs) \in Nat /\ Len(styles.xfs) <= Len(after.xfs)
            /\ \A style \in 0..(Len(styles.xfs) - 1) : StyleLook(after, style) = StyleLook(styles, style)
            /\ \A base \in DOMAIN plan.targets :
                 /\ plan.targets[base] \in 0..(Len(after.xfs) - 1)
                 /\ StyleLook(after, plan.targets[base]) = [StyleLook(styles, base) EXCEPT !.code = code]
<1> DEFINE after == StylesOf(plan)
           xfs == styles.xfs
           fs == styles.formats
           gs == start.formats
           new == plan.appended
           all == xfs \o new
<1>1. /\ xfs \in Seq(CellFormats) /\ xfs # <<>>
  BY DEF IsStyles
<1>2. start.xfs = xfs /\ IsStart(start)
  BY DEF Planned
<1>3. /\ plan.formats = gs /\ plan.xfs = xfs /\ new \in Seq(CellFormats)
      /\ \A b \in DOMAIN plan.targets : Found(start, new, plan.targets[b], b)
  BY <1>2 DEF PlanGood
<1>4. after = [formats |-> gs, xfs |-> all]
  BY <1>3 DEF StylesOf
<1> HIDE DEF after, xfs, fs, gs, new
<1>5. /\ all \in Seq(CellFormats) /\ Len(all) = Len(xfs) + Len(new) /\ all # <<>>
      /\ Len(xfs) \in Nat /\ Len(new) \in Nat
      /\ \A k \in 1..Len(xfs) : all[k] = xfs[k]
  BY <1>1, <1>3
<1> HIDE DEF all
<1>6. after.formats = gs /\ after.xfs = all
  BY <1>4
<1>7. /\ gs \in Seq(NumberFormats)
      /\ \A i, j \in DOMAIN gs : gs[i].id = gs[j].id => i = j
      /\ FormatWith(start.fmt, gs) \in 1..Len(gs)
      /\ gs[FormatWith(start.fmt, gs)].code = code
      /\ \A k \in 1..Len(xfs) :
           /\ FormatWith(xfs[k].fmt, gs) = FormatWith(xfs[k].fmt, fs)
           /\ FormatWith(xfs[k].fmt, fs) # 0 =>
                gs[FormatWith(xfs[k].fmt, fs)] = fs[FormatWith(xfs[k].fmt, fs)]
  BY FormatsPlanned DEF gs, fs, xfs
<1>8. IsStyles(after)
  BY <1>4, <1>5, <1>6, <1>7 DEF IsStyles
<1>9. ASSUME NEW style \in 0..(Len(xfs) - 1)
      PROVE  StyleLook(after, style) = StyleLook(styles, style)
  <2> DEFINE k == style + 1
  <2>1. k \in 1..Len(xfs)
    BY <1>5
  <2> HIDE DEF k
  <2>2. CodeOf(xfs[k].fmt, gs) = CodeOf(xfs[k].fmt, fs)
    BY <1>7, <2>1 DEF CodeOf
  <2>3. StyleLook(after, style) = [code |-> CodeOf(xfs[k].fmt, gs), other |-> xfs[k].other]
    BY <1>5, <1>6, <2>1 DEF StyleLook, k
  <2>4. StyleLook(styles, style) = [code |-> CodeOf(xfs[k].fmt, fs), other |-> xfs[k].other]
    BY DEF StyleLook, k, fs, xfs
  <2>5. QED
    BY <2>2, <2>3, <2>4
<1>10. ASSUME NEW base \in DOMAIN plan.targets
       PROVE  /\ plan.targets[base] \in 0..(Len(all) - 1)
              /\ StyleLook(after, plan.targets[base]) = [StyleLook(styles, base) EXCEPT !.code = code]
  <2> DEFINE target == plan.targets[base]
             k == target + 1
             other == xfs[base + 1].other
             was == CodeOf(xfs[base + 1].fmt, fs)
  <2>1. /\ base \in 0..(Len(xfs) - 1) /\ target \in 0..(Len(xfs) + Len(new) - 1)
        /\ all[k] = Copied(start, base)
    BY <1>2, <1>3 DEF Found, all
  <2> HIDE DEF target
  <2>2. /\ Copied(start, base).fmt = start.fmt
        /\ Copied(start, base).other = xfs[base + 1].other
    BY <1>2, <2>1, CopiedType
  <2> HIDE DEF k
  <2>3. all[k].fmt = start.fmt /\ all[k].other = other
    BY <2>1, <2>2
  <2>4. CodeOf(start.fmt, gs) = code
    <3> DEFINE f == FormatWith(start.fmt, gs)
    <3>1. f \in 1..Len(gs) /\ gs[f].code = code /\ gs \in Seq(NumberFormats)
      BY <1>7
    <3> HIDE DEF f
    <3>2. f # 0
      BY <3>1
    <3>3. CodeOf(start.fmt, gs) = gs[f].code
      BY <3>2, Zenon DEF CodeOf, f
    <3>4. QED
      BY <3>1, <3>3
  <2>5. StyleLook(after, target) = [code |-> code, other |-> other]
    BY <1>6, <2>3, <2>4 DEF StyleLook, k
  <2>6. StyleLook(styles, base) = [code |-> was, other |-> other]
    BY DEF StyleLook, fs, xfs
  <2>7. target \in 0..(Len(all) - 1)
    BY <1>5, <2>1
  <2> HIDE DEF was, other
  <2>9. [StyleLook(styles, base) EXCEPT !.code = code] = [code |-> code, other |-> other]
    BY <2>6
  <2>8. QED
    BY <2>5, <2>7, <2>9 DEF target
<1>11. QED
  BY <1>5, <1>6, <1>8, <1>9, <1>10 DEF after, xfs

-----------------------------------------------------------------------------
(* A worksheet restyled. *)

\* A worksheet that is there, and the styles, which are linked when they are new.
Formats(before, c, path, link) ==
  /\ WellFormed(before)
  /\ path \in SheetPaths \cap DOMAIN before /\ IsWorksheet(c[path])
  /\ IF "styles" \in DOMAIN before THEN DOMAIN c = {path, "styles"}
     ELSE /\ DOMAIN c = {path, "styles", "rels", "types"}
          /\ link \in Nat /\ link \notin DOMAIN before["rels"]
          /\ c["rels"] = With(before["rels"], Single(link, [kind |-> "styles", path |-> "styles"]))
          /\ c["types"] = With(before["types"], Single("styles", "styles"))

\* The package with restyled cells is well formed and lists the same worksheets.
LEMMA FormattedIsWellFormed ==
  ASSUME NEW before, NEW c, NEW path, NEW link, Formats(before, c, path, link)
  PROVE  LET after == Patched(before, c, {})
         IN WellFormed(after) /\ Listing1(after) = Listing1(before)
<1> DEFINE after == Patched(before, c, {})
           e == before["workbook"].entries
           n == Len(e)
           rels == before["rels"]
           links == after["rels"]
           types == before["types"]
           styled == [kind |-> "styles", path |-> "styles"]
           listed == Listing1(before)
<1>1. WellFormed(before) /\ path \in SheetPaths /\ path \in DOMAIN before /\ IsWorksheet(c[path])
  BY DEF Formats
<1>2. path \notin {"workbook", "rels", "types", "app", "styles", "chain", "chart"}
  BY <1>1, PartNames
<1>3. /\ {"workbook", "rels", "types"} \subseteq DOMAIN before
      /\ before["workbook"] \in Workbooks
      /\ \A p \in SheetPaths \cap DOMAIN before : IsWorksheet(before[p])
      /\ "chart" \in DOMAIN before => before["chart"] \in Charts
  BY <1>1 DEF WellFormed, PartsTyped
<1>4. CASE "styles" \in DOMAIN before
  <2>1. DOMAIN c = {path, "styles"}
    BY <1>4 DEF Formats
  <2>2. DOMAIN c \subseteq DOMAIN before
    BY <1>1, <1>4, <2>1
  <2>3. DOMAIN c \cap {"rels", "types", "app"} = {}
    BY <1>2, <2>1
  <2>4. \A p \in SheetPaths \cap DOMAIN c : IsWorksheet(c[p])
    BY <1>1, <2>1, PartNames
  <2>5. "chart" \notin DOMAIN c /\ "workbook" \notin DOMAIN c
    BY <1>2, <2>1
  <2>6. QED
    BY <1>1, <2>2, <2>3, <2>4, <2>5, PartsReplaced
<1>5. CASE "styles" \notin DOMAIN before
  <2>1. /\ DOMAIN c = {path, "styles", "rels", "types"}
        /\ link \in Nat /\ link \notin DOMAIN rels
        /\ c["rels"] = With(rels, Single(link, styled))
        /\ c["types"] = With(types, Single("styles", "styles"))
    BY <1>5 DEF Formats
  <2>2. /\ DOMAIN after = DOMAIN before \cup {"styles"}
        /\ after = [p \in DOMAIN after |-> after[p]]
        /\ after["workbook"] = before["workbook"]
        /\ links = c["rels"] /\ after["types"] = c["types"]
        /\ after[path] = c[path]
        /\ \A p \in DOMAIN before : p \notin {path, "rels", "types"} => after[p] = before[p]
    BY <1>1, <1>2, <1>3, <1>5, <2>1 DEF Patched
  <2> HIDE DEF after
  <2>3. /\ DOMAIN links = DOMAIN rels \cup {link} /\ links[link] = styled
        /\ \A r \in DOMAIN rels : links[r] = rels[r]
        /\ links = [r \in DOMAIN links |-> links[r]]
    BY <2>1, <2>2 DEF With, Single
  <2>4. /\ DOMAIN after["types"] = DOMAIN types \cup {"styles"}
        /\ after["types"]["styles"] = "styles"
        /\ \A p \in DOMAIN types : p # "styles" => after["types"][p] = types[p]
        /\ after["types"] = [p \in DOMAIN after["types"] |-> after["types"][p]]
    BY <2>1, <2>2 DEF With, Single
  <2>5. styled.kind = "styles" /\ styled.path = "styles"
    OBVIOUS
  <2> HIDE DEF e, rels, links, types, listed, styled
  <2>6. /\ e \in Seq(Entries) /\ \A i \in 1..Len(e) : e[i].rid \in DOMAIN rels
        /\ DOMAIN e = 1..Len(e)
    BY <1>1, Outline DEF e, rels
  <2>7. Listing1(after) = listed
    <3> DEFINE w == before["workbook"]
               v == after["workbook"]
    <3>1. w.entries = e /\ v.entries = e
      BY <2>2 DEF e
    <3> HIDE DEF w, v
    <3>2. w.entries \in Seq(Entries)
      BY <2>6, <3>1
    <3>3. v.entries = w.entries
      BY <3>1
    <3>4. \A i \in 1..Len(w.entries) : links[w.entries[i].rid] = rels[w.entries[i].rid]
      BY <2>3, <2>6, <3>1
    <3>5. SheetsOf(v, links) = SheetsOf(w, rels)
      BY <3>2, <3>3, <3>4, SheetsStay
    <3>6. QED
      BY <3>5 DEF Listing1, listed, links, rels, w, v
  <2>8. PartsTyped(after)
    <3>1. \A p \in SheetPaths \cap DOMAIN after : IsWorksheet(after[p])
      BY <1>1, <1>3, <2>2, PartNames
    <3>2. "chart" \in DOMAIN after => after["chart"] \in Charts
      BY <1>2, <1>3, <2>2
    <3>3. QED
      BY <1>3, <2>2, <3>1, <3>2 DEF PartsTyped
  <2>9. Indexed(after["workbook"])
    BY <1>1, <2>2 DEF WellFormed
  <2>10. Linked(after)
    <3>1. IsFiniteSet(DOMAIN links)
      <4>1. IsFiniteSet(DOMAIN rels)
        BY <1>1 DEF WellFormed, Linked, rels
      <4>2. QED
        BY <2>3, <4>1, FS_AddElement
    <3>2. \A r \in DOMAIN rels : /\ r \in Nat /\ rels[r] \in [kind : {rels[r].kind}, path : DOMAIN before]
                                 /\ rels[r].kind = "calcChain" <=> rels[r].path = "chain"
      BY <1>1 DEF WellFormed, Linked, rels
    <3>3. \A r \in DOMAIN links : r \in Nat /\ links[r] \in [kind : {links[r].kind}, path : DOMAIN after]
      <4> TAKE r \in DOMAIN links
      <4>1. CASE r = link
        <5>1. "styles" \in DOMAIN after
          BY <2>2
        <5>2. styled \in [kind : {styled.kind}, path : DOMAIN after]
          BY <5>1 DEF styled
        <5>3. QED
          BY <2>1, <2>3, <4>1, <5>2
      <4>2. CASE r \in DOMAIN rels
        <5>1. r \in Nat /\ rels[r] \in [kind : {rels[r].kind}, path : DOMAIN before]
          BY <3>2, <4>2
        <5>2. links[r] = rels[r] /\ DOMAIN before \subseteq DOMAIN after
          BY <2>2, <2>3, <4>2
        <5>3. QED
          BY <5>1, <5>2
      <4>3. QED
        BY <2>3, <4>1, <4>2
    <3>4. \A r \in DOMAIN links : links[r].kind = "calcChain" <=> links[r].path = "chain"
      BY <2>3, <2>5, <3>2
    <3>5. /\ DOMAIN types \subseteq DOMAIN before
          /\ \A p \in DOMAIN types : types[p] = "calcChain" <=> p = "chain"
          /\ SheetPaths \cap DOMAIN before \subseteq DOMAIN types
      BY <1>1 DEF WellFormed, Linked, types
    <3>6. \A p \in DOMAIN after["types"] : after["types"][p] = "calcChain" <=> p = "chain"
      BY <2>4, <3>5
    <3>7. DOMAIN after["types"] \subseteq DOMAIN after
      BY <2>2, <2>4, <3>5
    <3>8. SheetPaths \cap DOMAIN after \subseteq DOMAIN after["types"]
      BY <2>2, <2>4, <3>5, PartNames
    <3>9. QED
      BY <2>3, <2>4, <3>1, <3>3, <3>4, <3>6, <3>7, <3>8 DEF Linked, links
  <2>11. Listed(after)
    <3>1. \A x \in ToSet(e) : links[x.rid].kind # "calcChain"
      <4> TAKE x \in ToSet(e)
      <4>1. x.rid \in DOMAIN rels
        BY <2>6 DEF ToSet
      <4>2. rels[x.rid].kind # "calcChain"
        BY <1>1 DEF WellFormed, Listed, e, rels
      <4>3. QED
        BY <2>3, <4>1, <4>2
    <3>2. /\ \A s \in ToSet(listed) : s.path \in SheetPaths
          /\ "app" \in DOMAIN before => before["app"] = [j \in DOMAIN listed |-> listed[j].name]
      BY <1>1 DEF WellFormed, Listed, Listing1, listed
    <3>3. "app" \in DOMAIN after => "app" \in DOMAIN before /\ after["app"] = before["app"]
      BY <1>2, <2>2
    <3>4. QED
      BY <2>2, <2>7, <3>1, <3>2, <3>3 DEF Listed, Listing1, e, links
  <2>12. Opens(after)
    <3>1. \A p, q \in DOMAIN after : PathKey(p) = PathKey(q) => p = q
      <4>1. \A p, q \in DOMAIN before : PathKey(p) = PathKey(q) => p = q
        BY <1>1 DEF WellFormed, Opens
      <4>2. \A p : PathKey(p) = PathKey("styles") => p = "styles"
        BY DEF PathKey
      <4>3. QED
        BY <2>2, <4>1, <4>2
    <3>2. \A i \in DOMAIN e : e[i].rid \in DOMAIN links
      BY <2>3, <2>6
    <3>3. \A s \in ToSet(listed) : s.path \in DOMAIN after
      BY <1>1, <2>2 DEF WellFormed, Opens, Listing1, listed
    <3>4. {"workbook", "rels", "types"} \subseteq DOMAIN after
      BY <1>3, <2>2
    <3>5. Opens(before)
      BY <1>1 DEF WellFormed
    <3>6. QED
      BY <2>2, <2>7, <3>1, <3>2, <3>3, <3>4, <3>5 DEF Opens, Unique, Listing1, listed, e, links
  <2>13. QED
    BY <2>7, <2>8, <2>9, <2>10, <2>11, <2>12 DEF WellFormed, after, listed
<1>6. QED
  BY <1>4, <1>5


-----------------------------------------------------------------------------
(* The inductive invariant. *)

\* A package as a session shows it: its worksheets, the identities of their
\* rows and whether cells of it were edited.
Shown(package, list, ids, edited) ==
  /\ WellFormed(package) /\ Styled(package)
  /\ list = Listing1(package)
  /\ \A s \in ToSet(list) : s.path \in DOMAIN ids /\ ids[s.path] \in [Rows -> Nat \X Nat]
  /\ edited /\ HoldsFormulasIn(package) => Chainless(package)

\* Only the calculation chain is ever removed, and what was not edited is what
\* was read.
IInv ==
  /\ session \in Sessions /\ edits \in Nat
  /\ removed \subseteq {"chain"}
  /\ original = [p \in DOMAIN original |-> original[p]]
  /\ dirty \in BOOLEAN /\ (~dirty => changed = <<>> /\ removed = {})
  /\ Shown(View, sheets, rowIds, touched)
  /\ Shown(file.package, Listing1(file.package), file.rowIds, file.touched)

-----------------------------------------------------------------------------
(* References, and the parts they are in. *)

\* A shifted reference is a reference.
LEMMA ShiftRefType ==
  ASSUME NEW ref \in References, NEW source, NEW target, NEW plan, plan.at \in Nat, plan.count \in Nat
  PROVE  ShiftRef(ref, source, target, plan) \in References
<1>1. MovedRow(plan, ref.row) \in Int
  BY DEF MovedRow, References
<1>5. "" \in Texts /\ -1 \in Int
  BY DEF Texts
<1>2. Tombstone(ref) \in References
  BY <1>5 DEF Tombstone, References
<1>3. [ref EXCEPT !.row = MovedRow(plan, @)] \in References
  BY <1>1 DEF References
<1>4. QED
  BY <1>2, <1>3 DEF ShiftRef

\* So is one to a sheet that is renamed.
LEMMA RenameRefType ==
  ASSUME NEW ref \in References, NEW old, NEW new \in Texts
  PROVE  RenameRef(ref, old, new) \in References
BY DEF RenameRef, References

\* And so is none at all.
LEMMA NoRefType == NoRef \in References
BY DEF NoRef, References, Texts

\* The cells of a worksheet keep their places and styles, and a chart is a chart.
LEMMA RewrittenSheet ==
  ASSUME NEW part, IsWorksheet(part), NEW to, \A ref \in FormulasOf(part) : to[ref] \in References
  PROVE  LET after == RewriteFormulas(part, to)
         IN /\ IsWorksheet(after) /\ after.colStyle = part.colStyle
            /\ DOMAIN after.cells = DOMAIN part.cells
            /\ \A r \in DOMAIN part.cells :
                 /\ after.cells[r].style = part.cells[r].style
                 /\ part.cells[r].ref \in FormulasOf(part)
                 /\ after.cells[r].ref = to[part.cells[r].ref]
<1> DEFINE after == RewriteFormulas(part, to)
           cells == part.cells
<1>1. /\ part \in [cells : {part.cells}, colStyle : Nat]
      /\ DOMAIN cells \subseteq Rows /\ cells \in [DOMAIN cells -> Cells]
  BY DEF IsWorksheet
<1>2. "cells" \in DOMAIN part
  BY <1>1
<1> DEFINE new == RewriteCells(cells, to)
<1>3. after = [part EXCEPT !.cells = new]
  BY <1>2 DEF RewriteFormulas
<1>4. \A r \in DOMAIN cells : cells[r].ref \in FormulasOf(part) /\ to[cells[r].ref] \in References
  BY <1>2 DEF FormulasOf
<1> HIDE DEF after, cells, new
<1>5. /\ after.cells = new
      /\ after.colStyle = part.colStyle /\ part.colStyle \in Nat
      /\ after \in [cells : {after.cells}, colStyle : Nat]
  BY <1>1, <1>3
<1>6. \A r \in DOMAIN cells : cells[r] \in Cells
  BY <1>1
<1>7. \A r \in DOMAIN cells : /\ [cells[r] EXCEPT !.ref = to[@]] \in Cells
                             /\ [cells[r] EXCEPT !.ref = to[@]].style = cells[r].style
                             /\ [cells[r] EXCEPT !.ref = to[@]].ref = to[cells[r].ref]
  BY <1>4, <1>6 DEF Cells
<1>8. /\ DOMAIN after.cells = DOMAIN cells
      /\ \A r \in DOMAIN cells : /\ after.cells[r] \in Cells /\ after.cells[r].style = cells[r].style
                                /\ after.cells[r].ref = to[cells[r].ref]
      /\ after.cells = [r \in DOMAIN cells |-> after.cells[r]]
  BY <1>5, <1>7 DEF new, RewriteCells
<1>9. QED
  BY <1>1, <1>4, <1>5, <1>8 DEF IsWorksheet, after, cells

\* A chart is rewritten into a chart.
LEMMA RewrittenChart ==
  ASSUME NEW part \in Charts, NEW to, \A ref \in FormulasOf(part) : to[ref] \in References
  PROVE  /\ RewriteFormulas(part, to) \in Charts
         /\ part.ref \in FormulasOf(part) /\ RewriteFormulas(part, to).ref = to[part.ref]
<1>1. "cells" \notin DOMAIN part
  BY DEF Charts
<1>2. part.ref \in FormulasOf(part) /\ to[part.ref] \in References
  BY <1>1 DEF FormulasOf
<1>3. RewriteFormulas(part, to) = [part EXCEPT !.ref = to[@]]
  BY <1>1 DEF RewriteFormulas
<1>4. QED
  BY <1>2, <1>3 DEF Charts

\* An insertion or a deletion that the code accepts.
IsPlan(plan) ==
  /\ plan.at \in Nat \ {0} /\ plan.count \in Nat \ {0} /\ plan.delete \in BOOLEAN
  /\ plan.at + plan.count - 1 <= MaxRow

\* The cells that are moved stay on the sheet and keep their styles.
LEMMA ShiftedSheet ==
  ASSUME NEW part, IsWorksheet(part), NEW source, NEW plan, IsPlan(plan), Fits(part, plan)
  PROVE  LET after == ShiftCells(part, source, plan)
         IN /\ IsWorksheet(after) /\ after.colStyle = part.colStyle
            /\ \A row \in DOMAIN after.cells : \E r \in DOMAIN part.cells :
                 /\ after.cells[row].style = part.cells[r].style
                 /\ after.cells[row].ref = ShiftRef(part.cells[r].ref, source, source, plan)
<1> DEFINE cells == part.cells
           kept == {r \in DOMAIN cells : ~Gone(plan, r)}
           rows == {MovedRow(plan, r) : r \in kept}
           From(row) == CHOOSE r \in kept : MovedRow(plan, r) = row
           moved == [part EXCEPT !.cells = [row \in rows |-> @[From(row)]]]
           to == [ref \in FormulasOf(moved) |-> ShiftRef(ref, source, source, plan)]
<1>1. ShiftCells(part, source, plan) = RewriteFormulas(moved, to)
  BY DEF ShiftCells
<1>2. /\ part \in [cells : {part.cells}, colStyle : Nat]
      /\ DOMAIN cells \subseteq Rows /\ cells \in [DOMAIN cells -> Cells]
  BY DEF IsWorksheet
<1>3. rows \subseteq Rows
  <2> SUFFICES ASSUME NEW r \in kept PROVE MovedRow(plan, r) \in Rows
    OBVIOUS
  <2>1. r \in Rows /\ ~Gone(plan, r) /\ MaxRow \in Nat
    BY <1>2, BoundsAssumption
  <2>2. r >= plan.at /\ ~plan.delete => r + plan.count <= MaxRow
    BY DEF Fits
  <2>3. QED
    BY <2>1, <2>2 DEF IsPlan, Gone, MovedRow, Rows
<1>4. \A row \in rows : From(row) \in kept
  OBVIOUS
<1>5. /\ moved.cells = [row \in rows |-> cells[From(row)]]
      /\ moved.colStyle = part.colStyle
      /\ moved \in [cells : {moved.cells}, colStyle : Nat]
  BY <1>2
<1> HIDE DEF rows, From, moved, cells
<1>6. /\ DOMAIN moved.cells = rows
      /\ \A row \in rows : moved.cells[row] = cells[From(row)] /\ moved.cells[row] \in Cells
      /\ moved.cells = [row \in rows |-> moved.cells[row]]
  BY <1>2, <1>4, <1>5
<1>7. IsWorksheet(moved)
  BY <1>3, <1>5, <1>6 DEF IsWorksheet
<1>8. \A ref \in FormulasOf(moved) : to[ref] \in References
  <2>1. "cells" \in DOMAIN moved
    BY <1>5
  <2>2. FormulasOf(moved) \subseteq References
    BY <1>6, <2>1 DEF FormulasOf, Cells
  <2>3. QED
    BY <2>2, ShiftRefType DEF IsPlan
<1> HIDE DEF to
<1>9. LET after == RewriteFormulas(moved, to)
      IN /\ IsWorksheet(after) /\ after.colStyle = moved.colStyle
         /\ DOMAIN after.cells = DOMAIN moved.cells
         /\ \A r \in DOMAIN moved.cells : /\ after.cells[r].style = moved.cells[r].style
                                        /\ moved.cells[r].ref \in FormulasOf(moved)
                                        /\ after.cells[r].ref = to[moved.cells[r].ref]
  BY <1>7, <1>8, RewrittenSheet
<1>11. \A ref \in FormulasOf(moved) : to[ref] = ShiftRef(ref, source, source, plan)
  BY DEF to
<1>10. QED
  BY <1>1, <1>4, <1>5, <1>6, <1>9, <1>11 DEF cells, kept

-----------------------------------------------------------------------------
(* Styles. *)

\* Worksheets whose styles are there can replace others.
LEMMA StylesStay ==
  ASSUME NEW before, Styled(before), NEW c, "styles" \notin DOMAIN c,
         \A p \in SheetPaths \cap DOMAIN c :
           /\ c[p].colStyle < Len(StylesIn(before).xfs)
           /\ \A r \in DOMAIN c[p].cells : c[p].cells[r].style < Len(StylesIn(before).xfs)
  PROVE  Styled(Patched(before, c, {})) /\ StylesIn(Patched(before, c, {})) = StylesIn(before)
<1> DEFINE after == Patched(before, c, {})
<1>1. /\ DOMAIN after = DOMAIN before \cup DOMAIN c
      /\ \A p \in DOMAIN after : after[p] = IF p \in DOMAIN c THEN c[p] ELSE before[p]
  BY DEF Patched
<1> HIDE DEF after
<1>2. StylesIn(after) = StylesIn(before)
  BY <1>1 DEF StylesIn
<1>3. \A p \in SheetPaths \cap DOMAIN after :
        /\ after[p].colStyle < Len(StylesIn(after).xfs)
        /\ \A r \in DOMAIN after[p].cells : after[p].cells[r].style < Len(StylesIn(after).xfs)
  <2> TAKE p \in SheetPaths \cap DOMAIN after
  <2>1. CASE p \in DOMAIN c
    BY <1>1, <1>2, <2>1
  <2>2. CASE p \notin DOMAIN c
    BY <1>1, <1>2, <2>2 DEF Styled
  <2>3. QED
    BY <2>1, <2>2
<1>4. QED
  BY <1>2, <1>3 DEF Styled, after

\* A recalculation touches no style.
LEMMA StylesRecalculated ==
  ASSUME NEW before, Styled(before)
  PROVE  Styled(Recalculated(before)) /\ StylesIn(Recalculated(before)) = StylesIn(before)
<1> DEFINE after == Recalculated(before)
<1>1. /\ DOMAIN after = DOMAIN before \ {"chain"}
      /\ \A p \in DOMAIN after : p \notin {"workbook", "rels", "types"} => after[p] = before[p]
  BY DEF Recalculated
<1> HIDE DEF after
<1>2. StylesIn(after) = StylesIn(before)
  BY <1>1 DEF StylesIn
<1>3. \A p \in SheetPaths \cap DOMAIN after : p \in SheetPaths \cap DOMAIN before /\ after[p] = before[p]
  BY <1>1, PartNames
<1>4. QED
  BY <1>2, <1>3 DEF Styled, after

-----------------------------------------------------------------------------
(* What the session knows of a worksheet that it lists. *)

\* A name that is listed is that of a worksheet with row identities.
LEMMA NamedSheet ==
  ASSUME IInv, NEW name \in Names
  PROVE  /\ PathOf(name) \in SheetPaths \cap DOMAIN View
         /\ PathOf(name) \in {s.path : s \in ToSet(sheets)}
         /\ Part(PathOf(name)) = View[PathOf(name)]
         /\ IsWorksheet(Part(PathOf(name)))
         /\ PathOf(name) \in DOMAIN rowIds /\ rowIds[PathOf(name)] \in [Rows -> Nat \X Nat]
<1>1. WellFormed(View) /\ sheets = Listing1(View)
      /\ \A s \in ToSet(sheets) : s.path \in DOMAIN rowIds /\ rowIds[s.path] \in [Rows -> Nat \X Nat]
  BY DEF IInv, Shown
<1>2. PICK s \in ToSet(sheets) : s.name = name
  BY DEF Names
<1>3. PICK t \in ToSet(sheets) : PathOf(name) = t.path
  BY <1>2 DEF PathOf
<1>4. t.path \in SheetPaths /\ t.path \in DOMAIN View
  BY <1>1 DEF WellFormed, Opens, Listed, Listing1
<1>5. \A p \in SheetPaths \cap DOMAIN View : IsWorksheet(View[p])
  BY <1>1 DEF WellFormed, PartsTyped
<1>6. QED
  BY <1>1, <1>3, <1>4, <1>5, ViewParts

\* An edit leaves the invariant if what it shows then is in order.
LEMMA EditStep ==
  ASSUME IInv, UNCHANGED <<session, original, file>>, edits' = edits + 1, dirty' = TRUE,
         removed' \subseteq {"chain"}, Shown(View', sheets', rowIds', touched')
  PROVE  IInv'
BY DEF IInv

\* An edit that leaves the chain.
LEMMA PlainEdit ==
  ASSUME IInv, NEW c, Apply(c, {}), UNCHANGED <<session, original, file>>, edits' = edits + 1,
         Shown(Patched(View, c, {}), sheets', rowIds', touched')
  PROVE  IInv' /\ View' = Patched(View, c, {})
<1>1. View' = Patched(View, c, {})
  BY ViewAfterApply
<1>2. removed' \subseteq {"chain"} /\ dirty' = TRUE
  BY DEF Apply, IInv
<1>3. QED
  BY <1>1, <1>2, EditStep

\* Whether something was touched or not, nothing of the chain is left.
LEMMA RecalculatedEdit ==
  ASSUME IInv, NEW c, DOMAIN c \cap {"rels", "types", "chain"} = {},
         Apply(Recalculation(c).changes, Recalculation(c).drops),
         UNCHANGED <<session, original, file>>, edits' = edits + 1,
         WellFormed(Patched(View, c, {})), Styled(Patched(View, c, {})),
         sheets' = Listing1(Patched(View, c, {})),
         \A s \in ToSet(sheets') : s.path \in DOMAIN rowIds' /\ rowIds'[s.path] \in [Rows -> Nat \X Nat]
  PROVE  IInv' /\ View' = Recalculated(Patched(View, c, {}))
<1> DEFINE full == Recalculation(c)
           after == Patched(View, c, {})
<1>1. WellFormed(View)
  BY DEF IInv, Shown
<1>2. /\ Patched(View, full.changes, full.drops) = Recalculated(after)
      /\ full.drops \subseteq {"chain"} /\ "chain" \notin DOMAIN full.changes
  BY <1>1, RecalculationOnView
<1> HIDE DEF full, after
<1>3. View' = Recalculated(after)
  <2>1. Apply(full.changes, full.drops)
    BY DEF full
  <2>2. View' = Patched(View, full.changes, full.drops)
    BY <2>1, ViewAfterApply
  <2>3. QED
    BY <1>2, <2>2
<1>4. removed' \subseteq {"chain"} /\ dirty' = TRUE
  BY <1>2 DEF Apply, IInv, full
<1>5. WellFormed(after) /\ Styled(after) /\ sheets' = Listing1(after)
  BY DEF after
<1>6. WellFormed(Recalculated(after)) /\ Listing1(Recalculated(after)) = Listing1(after)
      /\ Chainless(Recalculated(after))
  BY <1>5, RecalculatedIsWellFormed
<1>7. Styled(Recalculated(after))
  BY <1>5, StylesRecalculated
<1>8. Shown(View', sheets', rowIds', touched')
  BY <1>3, <1>5, <1>6, <1>7 DEF Shown
<1>9. QED
  BY <1>3, <1>4, <1>8, EditStep DEF after

-----------------------------------------------------------------------------
(* Cells written. *)

\* Cells laid over those of a worksheet.
LEMMA CellsLaid ==
  ASSUME NEW part, IsWorksheet(part), NEW new, DOMAIN new \subseteq Rows,
         \A r \in DOMAIN new : new[r] \in Cells
  PROVE  LET after == [part EXCEPT !.cells = With(@, new)]
         IN /\ IsWorksheet(after) /\ after.colStyle = part.colStyle
            /\ DOMAIN after.cells = DOMAIN part.cells \cup DOMAIN new
            /\ \A r \in DOMAIN after.cells :
                 after.cells[r] = IF r \in DOMAIN new THEN new[r] ELSE part.cells[r]
<1> DEFINE cells == part.cells
           laid == With(cells, new)
           after == [part EXCEPT !.cells = laid]
<1>1. /\ part \in [cells : {part.cells}, colStyle : Nat]
      /\ DOMAIN cells \subseteq Rows /\ cells \in [DOMAIN cells -> Cells]
  BY DEF IsWorksheet
<1> HIDE DEF laid
<1>2. /\ after.cells = laid /\ after.colStyle = part.colStyle
      /\ after \in [cells : {after.cells}, colStyle : Nat]
  BY <1>1
<1> HIDE DEF after
<1>3. /\ DOMAIN laid = DOMAIN cells \cup DOMAIN new
      /\ \A r \in DOMAIN laid : laid[r] = IF r \in DOMAIN new THEN new[r] ELSE cells[r]
      /\ laid = [r \in DOMAIN laid |-> laid[r]]
  BY DEF laid, With
<1> HIDE DEF cells
<1>4. \A r \in DOMAIN laid : laid[r] \in Cells
  BY <1>1, <1>3
<1>5. IsWorksheet(after)
  BY <1>1, <1>2, <1>3, <1>4 DEF IsWorksheet
<1>6. QED
  BY <1>2, <1>3, <1>5 DEF after, laid, cells

\* What a cell written does to the references.
Writing(path, row, ref, part) ==
  /\ path \in SheetPaths \cap DOMAIN View
  /\ \A q \in DOMAIN part.cells :
       IF q = row THEN part.cells[q].ref = ref
       ELSE q \in DOMAIN View[path].cells /\ part.cells[q].ref = View[path].cells[q].ref
  /\ LET after == Patched(View, Single(path, part), {})
     IN /\ WellFormed(after) /\ Listing1(after) = sheets
        /\ View' = after \/ View' = Recalculated(after)
  /\ UNCHANGED <<session, file, sheets, rowIds>> /\ edits' = edits + 1

\* A cell is written, and the chain goes when there are formulas.
LEMMA WriteCellKeeps ==
  ASSUME IInv, NEW name \in Names, NEW row \in Rows, NEW data \in Texts, NEW ref \in References,
         WriteCell(name, row, data, ref)
  PROVE  IInv' /\ \E part : Writing(PathOf(name), row, ref, part)
<1> DEFINE path  == PathOf(name)
           part  == Part(path)
           style == IF row \in DOMAIN part.cells THEN part.cells[row].style ELSE part.colStyle
           cell  == [data |-> data, ref |-> ref, style |-> style]
           new   == [part EXCEPT !.cells = With(@, Single(row, cell))]
           alone == Single(path, new)
           after == Patched(View, alone, {})
           xfs   == StylesIn(View).xfs
<1>1. /\ WellFormed(View) /\ Styled(View) /\ sheets = Listing1(View)
      /\ \A s \in ToSet(sheets) : s.path \in DOMAIN rowIds /\ rowIds[s.path] \in [Rows -> Nat \X Nat]
      /\ touched /\ HoldsFormulasIn(View) => Chainless(View)
  BY DEF IInv, Shown
<1>2. path \in SheetPaths \cap DOMAIN View /\ part = View[path] /\ IsWorksheet(part)
  BY NamedSheet
<1>3. /\ UNCHANGED <<session, original, file>> /\ edits' = edits + 1
      /\ IF ref # NoRef \/ HasFormulas
         THEN Apply(Recalculation(alone).changes, Recalculation(alone).drops) ELSE Apply(alone, {})
      /\ touched' = TRUE /\ UNCHANGED <<sheets, rowIds>>
  BY DEF WriteCell, Edit
<1>4. style \in Nat /\ style < Len(xfs) /\ part.colStyle < Len(xfs)
      /\ \A r \in DOMAIN part.cells : part.cells[r].style < Len(xfs)
  <2>1. /\ part.colStyle < Len(xfs) /\ \A r \in DOMAIN part.cells : part.cells[r].style < Len(xfs)
    BY <1>1, <1>2 DEF Styled
  <2>2. part.colStyle \in Nat /\ \A r \in DOMAIN part.cells : part.cells[r] \in Cells
    BY <1>2 DEF IsWorksheet
  <2>3. \A r \in DOMAIN part.cells : part.cells[r].style \in Nat
    BY <2>2 DEF Cells
  <2>4. QED
    BY <2>1, <2>2, <2>3
<1> HIDE DEF path, part, style, new, alone, after, xfs
<1>5. cell \in Cells
  BY <1>4 DEF Cells
<1> HIDE DEF cell
<1>6. /\ DOMAIN Single(row, cell) = {row} /\ Single(row, cell)[row] = cell
      /\ DOMAIN alone = {path} /\ alone[path] = new
  BY DEF Single, alone
<1>7. /\ IsWorksheet(new) /\ new.colStyle = part.colStyle
      /\ DOMAIN new.cells = DOMAIN part.cells \cup {row}
      /\ \A r \in DOMAIN new.cells : new.cells[r] = IF r = row THEN cell ELSE part.cells[r]
  <2> DEFINE put == Single(row, cell)
  <2>1. DOMAIN put = {row}
    BY <1>6
  <2>5. DOMAIN put \subseteq Rows
    BY <1>6
  <2>6. \A r \in DOMAIN put : put[r] \in Cells
    BY <1>5, <1>6
  <2>7. IsWorksheet(part)
    BY <1>2
  <2>2. new = [part EXCEPT !.cells = With(@, put)]
    BY DEF new
  <2> HIDE DEF put
  <2>3. LET a == [part EXCEPT !.cells = With(@, put)]
        IN /\ IsWorksheet(a) /\ a.colStyle = part.colStyle
           /\ DOMAIN a.cells = DOMAIN part.cells \cup DOMAIN put
           /\ \A r \in DOMAIN a.cells : a.cells[r] = IF r \in DOMAIN put THEN put[r] ELSE part.cells[r]
    BY <2>5, <2>6, <2>7, CellsLaid
  <2>4. QED
    BY <1>6, <2>1, <2>2, <2>3 DEF put
<1>8. new.colStyle < Len(xfs) /\ \A r \in DOMAIN new.cells : new.cells[r].style < Len(xfs)
  BY <1>4, <1>7 DEF cell
<1>9. path \notin {"workbook", "rels", "types", "app", "styles", "chain", "chart"}
  BY <1>2, PartNames
<1>10. WellFormed(after) /\ Listing1(after) = Listing1(View)
  <2>1. /\ DOMAIN alone \subseteq DOMAIN View /\ DOMAIN alone \cap {"rels", "types", "app"} = {}
        /\ \A p \in SheetPaths \cap DOMAIN alone : IsWorksheet(alone[p])
        /\ "chart" \notin DOMAIN alone /\ "workbook" \notin DOMAIN alone
    BY <1>2, <1>6, <1>7, <1>9
  <2>2. QED
    BY <1>1, <2>1, PartsReplaced DEF after
<1>11. Styled(after)
  <2>1. "styles" \notin DOMAIN alone
    BY <1>6, <1>9
  <2>2. \A p \in SheetPaths \cap DOMAIN alone :
          /\ alone[p].colStyle < Len(StylesIn(View).xfs)
          /\ \A r \in DOMAIN alone[p].cells : alone[p].cells[r].style < Len(StylesIn(View).xfs)
    BY <1>6, <1>8 DEF xfs
  <2>3. QED
    BY <1>1, <2>1, <2>2, StylesStay DEF after
<1>12. sheets' = Listing1(after)
       /\ \A s \in ToSet(sheets') : s.path \in DOMAIN rowIds' /\ rowIds'[s.path] \in [Rows -> Nat \X Nat]
  BY <1>1, <1>3, <1>10
<1>13. ASSUME ref # NoRef \/ HasFormulas
       PROVE  IInv' /\ View' = Recalculated(after)
  <2>1. DOMAIN alone \cap {"rels", "types", "chain"} = {}
    BY <1>6, <1>9
  <2>2. Apply(Recalculation(alone).changes, Recalculation(alone).drops)
    BY <1>3, <1>13
  <2>3. QED
    BY <1>3, <1>10, <1>11, <1>12, <2>1, <2>2, RecalculatedEdit DEF after
<1>14. ASSUME ~(ref # NoRef \/ HasFormulas)
       PROVE  IInv' /\ View' = after
  <2>1. ~HoldsFormulasIn(after)
    <3> SUFFICES ASSUME NEW s \in ToSet(sheets), NEW r \in DOMAIN after[s.path].cells
                 PROVE  after[s.path].cells[r].ref = NoRef
      BY <1>1, <1>10 DEF HoldsFormulasIn
    <3>1. s.path \in DOMAIN View /\ Part(s.path) = View[s.path]
      BY <1>1, ViewParts DEF WellFormed, Opens, Listing1
    <3>2. \A q \in DOMAIN View[s.path].cells : View[s.path].cells[q].ref = NoRef
      BY <1>14, <3>1 DEF HasFormulas
    <3>3. CASE s.path = path
      <4>1. after[s.path] = new
        BY <1>6, <3>3 DEF after, Patched
      <4>2. QED
        BY <1>2, <1>7, <1>14, <3>2, <3>3, <4>1 DEF cell
    <3>4. CASE s.path # path
      <4>1. after[s.path] = View[s.path]
        BY <1>6, <3>1, <3>4 DEF after, Patched
      <4>2. QED
        BY <3>2, <4>1
    <3>5. QED
      BY <3>3, <3>4
  <2>2. Shown(after, sheets', rowIds', touched')
    BY <1>10, <1>11, <1>12, <2>1 DEF Shown
  <2>3. Apply(alone, {})
    BY <1>3, <1>14
  <2>4. QED
    BY <1>3, <2>2, <2>3, PlainEdit DEF after
<1>15. IInv' /\ (View' = after \/ View' = Recalculated(after))
  BY <1>13, <1>14
<1>16. \A q \in DOMAIN new.cells :
         IF q = row THEN new.cells[q].ref = ref
         ELSE q \in DOMAIN View[path].cells /\ new.cells[q].ref = View[path].cells[q].ref
  BY <1>2, <1>7 DEF cell
<1>17. WellFormed(after) /\ Listing1(after) = sheets
  BY <1>1, <1>10
<1>18. Writing(path, row, ref, new)
  BY <1>2, <1>3, <1>15, <1>16, <1>17 DEF Writing, after, alone
<1>19. QED
  BY <1>15, <1>18 DEF path

-----------------------------------------------------------------------------
(* Rows inserted and deleted. *)

\* The shift of a worksheet that is not the one the rows are of.
LEMMA SheetRewritten ==
  ASSUME NEW part, IsWorksheet(part), NEW source, NEW target, NEW plan, IsPlan(plan)
  PROVE  LET after == RewriteFormulas(part,
                        [ref \in FormulasOf(part) |-> ShiftRef(ref, source, target, plan)])
         IN /\ IsWorksheet(after) /\ after.colStyle = part.colStyle
            /\ DOMAIN after.cells = DOMAIN part.cells
            /\ \A r \in DOMAIN part.cells :
                 /\ after.cells[r].style = part.cells[r].style
                 /\ after.cells[r].ref = ShiftRef(part.cells[r].ref, source, target, plan)
<1> DEFINE to == [ref \in FormulasOf(part) |-> ShiftRef(ref, source, target, plan)]
<1>1. FormulasOf(part) \subseteq References
  <2>1. /\ "cells" \in DOMAIN part
        /\ \A r \in DOMAIN part.cells : part.cells[r] \in Cells
    BY DEF IsWorksheet
  <2>2. \A r \in DOMAIN part.cells : part.cells[r].ref \in References
    BY <2>1 DEF Cells
  <2>3. QED
    BY <2>1, <2>2 DEF FormulasOf
<1>2. \A ref \in FormulasOf(part) : to[ref] \in References
  BY <1>1, ShiftRefType DEF IsPlan
<1>3. \A ref \in FormulasOf(part) : to[ref] = ShiftRef(ref, source, target, plan)
  OBVIOUS
<1> HIDE DEF to
<1>4. QED
  BY <1>2, <1>3, RewrittenSheet DEF to

\* A shift leaves a chart a chart.
LEMMA ChartRewritten ==
  ASSUME NEW part \in Charts, NEW source, NEW target, NEW plan, IsPlan(plan)
  PROVE  LET after == RewriteFormulas(part,
                        [ref \in FormulasOf(part) |-> ShiftRef(ref, source, target, plan)])
         IN after \in Charts /\ after.ref = ShiftRef(part.ref, source, target, plan)
<1> DEFINE to == [ref \in FormulasOf(part) |-> ShiftRef(ref, source, target, plan)]
<1>1. FormulasOf(part) \subseteq References
  BY DEF FormulasOf, Charts
<1>2. \A ref \in FormulasOf(part) : to[ref] \in References
  BY <1>1, ShiftRefType DEF IsPlan
<1>3. \A ref \in FormulasOf(part) : to[ref] = ShiftRef(ref, source, target, plan)
  OBVIOUS
<1> HIDE DEF to
<1>4. QED
  BY <1>2, <1>3, RewrittenChart DEF to

\* The sheet that the code takes a sheetless reference of this name to be on: it
\* counts the worksheets alone.
NameSource(name) == IF name.scope + 1 \in DOMAIN sheets THEN sheets[name.scope + 1].name ELSE ""

\* A shift leaves defined names their scopes, and shifts what they refer to.
LEMMA NamesShifted ==
  ASSUME NEW names \in Seq(DefinedNames), NEW target, NEW plan, IsPlan(plan)
  PROVE  /\ ShiftNames(names, target, plan) \in Seq(DefinedNames)
         /\ DOMAIN ShiftNames(names, target, plan) = DOMAIN names
         /\ \A i \in DOMAIN names :
              /\ ShiftNames(names, target, plan)[i].scope = names[i].scope
              /\ ShiftNames(names, target, plan)[i].ref
                   = ShiftRef(names[i].ref, NameSource(names[i]), target, plan)
<1> DEFINE Source(i) == NameSource(names[i])
           n == Len(names)
           Shifted(i) == [names[i] EXCEPT !.ref = ShiftRef(@, Source(i), target, plan)]
<1>1. n \in Nat /\ DOMAIN names = 1..n /\ \A i \in 1..n : names[i] \in DefinedNames
  OBVIOUS
<1>2. ShiftNames(names, target, plan) = [i \in 1..n |-> Shifted(i)]
  BY <1>1 DEF ShiftNames, NameSource
<1> HIDE DEF Source
<1>3. ASSUME NEW i \in 1..n
      PROVE  /\ Shifted(i) \in DefinedNames /\ Shifted(i).scope = names[i].scope
             /\ Shifted(i).ref = ShiftRef(names[i].ref, Source(i), target, plan)
  <2>1. names[i] \in DefinedNames /\ names[i].ref \in References
    BY <1>1 DEF DefinedNames
  <2>2. ShiftRef(names[i].ref, Source(i), target, plan) \in References
    BY <2>1, ShiftRefType DEF IsPlan
  <2>3. QED
    BY <2>1, <2>2 DEF DefinedNames
<1> HIDE DEF Shifted, n
<1>4. [i \in 1..n |-> Shifted(i)] \in [1..n -> DefinedNames]
  BY <1>3
<1>5. [i \in 1..n |-> Shifted(i)] \in Seq(DefinedNames)
  BY <1>1, <1>4, FunctionIsSeq
<1>6. QED
  BY <1>1, <1>2, <1>3, <1>5 DEF Source

\* The identities after a shift are identities.
LEMMA IdsShifted ==
  ASSUME NEW ids \in [Rows -> Nat \X Nat], NEW plan, IsPlan(plan), edits \in Nat
  PROVE  ShiftIds(ids, plan) \in [Rows -> Nat \X Nat]
<1> SUFFICES ASSUME NEW r \in Rows
             PROVE  (IF r < plan.at THEN ids[r]
                     ELSE IF plan.delete /\ r + plan.count <= MaxRow THEN ids[r + plan.count]
                     ELSE IF ~plan.delete /\ r >= plan.at + plan.count THEN ids[r - plan.count]
                     ELSE <<edits + 1, r>>) \in Nat \X Nat
  BY DEF ShiftIds
<1>1. MaxRow \in Nat /\ r \in Nat /\ Rows = 1..MaxRow
  BY BoundsAssumption DEF Rows
<1> DEFINE at == plan.at
           k == plan.count
<1>6. at \in Nat /\ at >= 1 /\ k \in Nat /\ k >= 1
  BY DEF IsPlan
<1> HIDE DEF at, k
<1>7. r + k <= MaxRow => r + k \in Rows
  BY <1>1, <1>6
<1>8. r >= at + k => r - k \in Rows
  BY <1>1, <1>6
<1>2. plan.delete /\ r + plan.count <= MaxRow => r + plan.count \in Rows
  BY <1>7 DEF k
<1>3. r >= plan.at + plan.count => r - plan.count \in Rows
  BY <1>8 DEF at, k
<1>4. <<edits + 1, r>> \in Nat \X Nat
  BY <1>1
<1>5. QED
  BY <1>2, <1>3, <1>4

\* What a reference without a sheet is on when it is in a chart.
Nowhere == ""

\* What a shift does to the references, the worksheets and the row identities.
Shifting(name, plan, c) ==
  /\ IsPlan(plan)
  /\ DOMAIN c \subseteq DOMAIN View /\ DOMAIN c \cap {"rels", "types", "app", "chain", "styles"} = {}
  /\ \A p \in {s.path : s \in ToSet(sheets)} :
       /\ p \in DOMAIN c
       /\ \A q \in DOMAIN c[p].cells : \E r \in DOMAIN View[p].cells :
            c[p].cells[q].ref
              = ShiftRef(View[p].cells[r].ref, IF p = PathOf(name) THEN name ELSE NameOf(p), name, plan)
  /\ "chart" \in DOMAIN View =>
       "chart" \in DOMAIN c /\ c["chart"].ref = ShiftRef(View["chart"].ref, Nowhere, name, plan)
  /\ "workbook" \in DOMAIN c /\ c["workbook"].entries = View["workbook"].entries
  /\ DOMAIN c["workbook"].names = DOMAIN View["workbook"].names
  /\ \A i \in DOMAIN View["workbook"].names :
       LET old == View["workbook"].names[i]  new == c["workbook"].names[i]
       IN new.scope = old.scope /\ new.ref = ShiftRef(old.ref, NameSource(old), name, plan)
  /\ WellFormed(Patched(View, c, {})) /\ Listing1(Patched(View, c, {})) = sheets
  /\ View' = Recalculated(Patched(View, c, {}))
  /\ UNCHANGED <<session, file, sheets>> /\ edits' = edits + 1
  /\ rowIds' = [rowIds EXCEPT ![PathOf(name)] = ShiftIds(@, plan)]

\* Rows are inserted or deleted.
LEMMA AxisShiftKeeps ==
  ASSUME IInv, NEW name \in Names, NEW row \in Rows, NEW count \in 1..2, NEW delete \in BOOLEAN,
         AxisShift(name, Plan(row, count, delete))
  PROVE  IInv' /\ \E c : Shifting(name, Plan(row, count, delete), c)
<1> DEFINE plan   == Plan(row, count, delete)
           path   == PathOf(name)
           part   == Part(path)
           charts == FormulaParts \cap {"chart"}
           paths  == {s.path : s \in ToSet(sheets)}
           Source(p) == IF p \in charts THEN "" ELSE NameOf(p)
           Shifted(p, source) ==
             RewriteFormulas(Part(p), [ref \in FormulasOf(Part(p)) |-> ShiftRef(ref, source, name, plan)])
           moved  == [p \in paths \cup charts |->
                        IF p = path THEN ShiftCells(part, name, plan) ELSE Shifted(p, Source(p))]
           book   == [Part("workbook") EXCEPT !.names = ShiftNames(@, name, plan)]
           c      == With(moved, [workbook |-> book])
           after  == Patched(View, c, {})
           xfs    == StylesIn(View).xfs
<1>1. /\ WellFormed(View) /\ Styled(View) /\ sheets = Listing1(View)
      /\ \A s \in ToSet(sheets) : s.path \in DOMAIN rowIds /\ rowIds[s.path] \in [Rows -> Nat \X Nat]
      /\ edits \in Nat
  BY DEF IInv, Shown
<1>2. path \in SheetPaths \cap DOMAIN View /\ part = View[path] /\ IsWorksheet(part)
      /\ path \in paths /\ path \in DOMAIN rowIds /\ rowIds[path] \in [Rows -> Nat \X Nat]
  BY NamedSheet
<1>3. /\ UNCHANGED <<session, original, file>> /\ edits' = edits + 1
      /\ plan.at >= 1 /\ plan.count >= 1 /\ plan.at + plan.count - 1 <= MaxRow
      /\ Fits(part, plan)
      /\ Apply(Recalculation(c).changes, Recalculation(c).drops)
      /\ rowIds' = [rowIds EXCEPT ![path] = ShiftIds(@, plan)]
      /\ UNCHANGED sheets
  BY DEF AxisShift, Edit
<1>4. IsPlan(plan)
  <2>1. plan.at = row /\ plan.count = count /\ plan.delete = delete /\ row \in Nat
    BY BoundsAssumption DEF Plan, Rows
  <2> HIDE DEF plan
  <2>4. plan.at + plan.count - 1 <= MaxRow
    BY <1>3
  <2>2. row >= 1 /\ count \in Nat \ {0} /\ row + count - 1 <= MaxRow
    BY <2>1, <2>4, BoundsAssumption DEF Rows
  <2>3. QED
    BY <2>1, <2>2 DEF IsPlan
<1>5. /\ {"workbook", "rels", "types"} \subseteq DOMAIN View
      /\ View["workbook"] \in Workbooks /\ Indexed(View["workbook"])
      /\ \A p \in SheetPaths \cap DOMAIN View : IsWorksheet(View[p])
      /\ "chart" \in DOMAIN View => View["chart"] \in Charts
  BY <1>1 DEF WellFormed, PartsTyped
<1>6. \A p \in paths : p \in SheetPaths /\ p \in DOMAIN View
  BY <1>1 DEF WellFormed, Opens, Listed, Listing1
<1>7. charts \subseteq {"chart"} /\ \A p \in charts : p \in DOMAIN View
  <2>1. \A p \in charts : p = "chart" /\ p \in DOMAIN original \cup DOMAIN changed
    BY DEF FormulaParts
  <2>2. "chart" \notin removed
    BY DEF IInv
  <2>3. QED
    BY <2>1, <2>2 DEF View
<1>8. \A p \in DOMAIN View : Part(p) = View[p]
  BY ViewParts
<1> HIDE DEF charts
<1>21. ("chart" \in DOMAIN View => "chart" \in charts) /\ ("chart" \in charts => Source("chart") = Nowhere)
  <2>1. "chart" \in charts => Source("chart") = Nowhere
    BY Zenon DEF Source, Nowhere
  <2>2. "chart" \in DOMAIN View => "chart" \in charts
    BY DEF View, charts, FormulaParts
  <2>3. QED
    BY <2>1, <2>2
<1>22. \A p \in paths : p # "chart" /\ Source(p) = NameOf(p)
  <2> TAKE p \in paths
  <2>1. p # "chart"
    BY <1>6, PartNames
  <2>2. p \notin charts
    BY <1>7, <2>1
  <2>3. QED
    BY <2>1, <2>2, Zenon DEF Source
<1> HIDE DEF plan, path, part, paths, book, xfs, Source
<1>9. ASSUME NEW p \in paths, p # path
      PROVE  /\ IsWorksheet(moved[p]) /\ moved[p].colStyle < Len(xfs)
             /\ \A r \in DOMAIN moved[p].cells : moved[p].cells[r].style < Len(xfs)
             /\ \A q \in DOMAIN moved[p].cells : \E r \in DOMAIN View[p].cells :
                  moved[p].cells[q].ref = ShiftRef(View[p].cells[r].ref, Source(p), name, plan)
  <2> DEFINE sheet == Part(p)
             to == RewriteFormulas(sheet, [ref \in FormulasOf(sheet) |-> ShiftRef(ref, Source(p), name, plan)])
  <2>1. moved[p] = to
    BY <1>9
  <2>2. p \in SheetPaths \cap DOMAIN View /\ sheet = View[p]
    BY <1>6, <1>8
  <2>3. IsWorksheet(sheet)
    BY <1>5, <2>2
  <2> HIDE DEF sheet
  <2>4. /\ IsWorksheet(to) /\ to.colStyle = sheet.colStyle
        /\ DOMAIN to.cells = DOMAIN sheet.cells
        /\ \A r \in DOMAIN sheet.cells :
             /\ to.cells[r].style = sheet.cells[r].style
             /\ to.cells[r].ref = ShiftRef(sheet.cells[r].ref, Source(p), name, plan)
    BY <1>4, <2>3, SheetRewritten
  <2> HIDE DEF to
  <2>5. /\ sheet.colStyle < Len(xfs)
        /\ \A r \in DOMAIN sheet.cells : sheet.cells[r].style < Len(xfs)
    BY <1>1, <2>2 DEF Styled, xfs
  <2>6. QED
    BY <2>1, <2>2, <2>4, <2>5
<1>10. /\ IsWorksheet(moved[path]) /\ moved[path].colStyle < Len(xfs)
       /\ \A r \in DOMAIN moved[path].cells : moved[path].cells[r].style < Len(xfs)
       /\ \A q \in DOMAIN moved[path].cells : \E r \in DOMAIN View[path].cells :
            moved[path].cells[q].ref = ShiftRef(View[path].cells[r].ref, name, name, plan)
  <2> DEFINE to == ShiftCells(part, name, plan)
  <2>1. moved[path] = to
    BY <1>2
  <2>6. IsWorksheet(part)
    BY <1>2
  <2>7. Fits(part, plan)
    BY <1>3
  <2>2. /\ IsWorksheet(to) /\ to.colStyle = part.colStyle
        /\ \A q \in DOMAIN to.cells : \E r \in DOMAIN part.cells :
             /\ to.cells[q].style = part.cells[r].style
             /\ to.cells[q].ref = ShiftRef(part.cells[r].ref, name, name, plan)
    BY <1>4, <2>6, <2>7, ShiftedSheet
  <2> HIDE DEF to
  <2>3. /\ part.colStyle < Len(xfs)
        /\ \A r \in DOMAIN part.cells : part.cells[r].style < Len(xfs)
    BY <1>1, <1>2 DEF Styled, xfs
  <2>4. QED
    BY <1>2, <2>1, <2>2, <2>3
<1>11. "chart" \in charts => /\ moved["chart"] \in Charts
                             /\ moved["chart"].ref = ShiftRef(View["chart"].ref, Source("chart"), name, plan)
  <2> SUFFICES ASSUME "chart" \in charts
               PROVE  /\ moved["chart"] \in Charts
                      /\ moved["chart"].ref = ShiftRef(View["chart"].ref, Source("chart"), name, plan)
    OBVIOUS
  <2> DEFINE chart == Part("chart")
             to == RewriteFormulas(chart, [ref \in FormulasOf(chart) |-> ShiftRef(ref, Source("chart"), name, plan)])
  <2>1. "chart" # path
    BY <1>2, PartNames
  <2>2. moved["chart"] = to
    BY <2>1
  <2>3. chart \in Charts /\ chart = View["chart"]
    BY <1>5, <1>7, <1>8
  <2> HIDE DEF chart
  <2>4. to \in Charts /\ to.ref = ShiftRef(chart.ref, Source("chart"), name, plan)
    BY <1>4, <2>3, ChartRewritten
  <2>5. QED
    BY <2>2, <2>3, <2>4
<1>12. DOMAIN moved = paths \cup charts
  OBVIOUS
<1> HIDE DEF moved
<1>13. /\ DOMAIN c = paths \cup charts \cup {"workbook"}
       /\ c["workbook"] = book
       /\ \A p \in paths \cup charts : c[p] = moved[p]
  <2>1. "workbook" \notin paths \cup charts
    BY <1>6, <1>7, PartNames
  <2>2. QED
    BY <1>12, <2>1 DEF With
<1> HIDE DEF c, after
<1>14. /\ book \in Workbooks /\ Indexed(book) /\ book.entries = View["workbook"].entries
       /\ DOMAIN book.names = DOMAIN View["workbook"].names
       /\ \A i \in DOMAIN View["workbook"].names :
            LET was == View["workbook"].names[i]  new == book.names[i]
            IN new.scope = was.scope /\ new.ref = ShiftRef(was.ref, NameSource(was), name, plan)
  <2> DEFINE w == View["workbook"]
             names == ShiftNames(w.names, name, plan)
  <2>1. w \in Workbooks /\ Indexed(w) /\ book = [w EXCEPT !.names = names]
    BY <1>5, <1>8 DEF book
  <2>2. w.names \in Seq(DefinedNames)
    BY <2>1 DEF Workbooks
  <2> HIDE DEF w
  <2> DEFINE old == w.names
  <2> HIDE DEF old
  <2>6. old \in Seq(DefinedNames)
    BY <2>2 DEF old
  <2>7. /\ ShiftNames(old, name, plan) \in Seq(DefinedNames)
        /\ DOMAIN ShiftNames(old, name, plan) = DOMAIN old
        /\ \A i \in DOMAIN old :
             /\ ShiftNames(old, name, plan)[i].scope = old[i].scope
             /\ ShiftNames(old, name, plan)[i].ref = ShiftRef(old[i].ref, NameSource(old[i]), name, plan)
    BY <1>4, <2>6, NamesShifted
  <2>3. /\ names \in Seq(DefinedNames) /\ DOMAIN names = DOMAIN w.names
        /\ \A i \in DOMAIN w.names :
             /\ names[i].scope = w.names[i].scope
             /\ names[i].ref = ShiftRef(w.names[i].ref, NameSource(w.names[i]), name, plan)
    BY <2>7 DEF old
  <2> HIDE DEF names
  <2>4. book \in Workbooks /\ book.names = names /\ book.entries = w.entries /\ book.active = w.active
    BY <2>1, <2>3 DEF Workbooks
  <2>5. QED
    BY <2>1, <2>3, <2>4 DEF Indexed, w
<1>15. \A p \in SheetPaths \cap DOMAIN c :
         /\ IsWorksheet(c[p]) /\ c[p].colStyle < Len(xfs)
         /\ \A r \in DOMAIN c[p].cells : c[p].cells[r].style < Len(xfs)
  <2> TAKE p \in SheetPaths \cap DOMAIN c
  <2>1. p \in paths
    BY <1>7, <1>13, PartNames
  <2>2. c[p] = moved[p]
    BY <1>13, <2>1
  <2>3. QED
    BY <1>9, <1>10, <2>1, <2>2
<1>16. DOMAIN c \subseteq DOMAIN View /\ DOMAIN c \cap {"rels", "types", "app", "chain", "styles"} = {}
  <2>1. \A p \in paths : p \notin {"rels", "types", "app", "chain", "styles"}
    BY <1>6, PartNames
  <2>2. QED
    BY <1>5, <1>6, <1>7, <1>13, <2>1
<1>17. WellFormed(after) /\ Listing1(after) = Listing1(View)
  <2>1. \A p \in SheetPaths \cap DOMAIN c : IsWorksheet(c[p])
    BY <1>15
  <2>2. "chart" \in DOMAIN c => c["chart"] \in Charts
    BY <1>6, <1>11, <1>13, PartNames
  <2>3. c["workbook"] \in Workbooks /\ Indexed(c["workbook"])
        /\ c["workbook"].entries = View["workbook"].entries
    BY <1>13, <1>14
  <2>4. DOMAIN c \subseteq DOMAIN View /\ DOMAIN c \cap {"rels", "types", "app"} = {}
    BY <1>16
  <2>5. WellFormed(View)
    BY <1>1
  <2>6. QED
    BY <2>1, <2>2, <2>3, <2>4, <2>5, PartsReplaced DEF after
<1>18. Styled(after)
  <2>1. "styles" \notin DOMAIN c
    BY <1>16
  <2>2. \A p \in SheetPaths \cap DOMAIN c :
          /\ c[p].colStyle < Len(StylesIn(View).xfs)
          /\ \A r \in DOMAIN c[p].cells : c[p].cells[r].style < Len(StylesIn(View).xfs)
    BY <1>15 DEF xfs
  <2>3. QED
    BY <1>1, <2>1, <2>2, StylesStay DEF after
<1>19. sheets' = Listing1(after)
       /\ \A s \in ToSet(sheets') : s.path \in DOMAIN rowIds' /\ rowIds'[s.path] \in [Rows -> Nat \X Nat]
  <2> DEFINE ids == rowIds[path]
  <2>1. ids \in [Rows -> Nat \X Nat]
    BY <1>2
  <2> HIDE DEF ids
  <2>2. ShiftIds(ids, plan) \in [Rows -> Nat \X Nat]
    BY <1>1, <1>4, <2>1, IdsShifted
  <2>3. rowIds' = [rowIds EXCEPT ![path] = ShiftIds(ids, plan)]
    BY <1>3 DEF ids
  <2>4. QED
    BY <1>1, <1>3, <1>17, <2>2, <2>3
<1>20. IInv' /\ View' = Recalculated(after)
  <2>1. DOMAIN c \cap {"rels", "types", "chain"} = {}
    BY <1>16
  <2>2. QED
    BY <1>3, <1>17, <1>18, <1>19, <2>1, RecalculatedEdit DEF after
<1>23. Shifting(name, plan, c)
  <2>1. \A p \in paths :
          /\ p \in DOMAIN c
          /\ \A q \in DOMAIN c[p].cells : \E r \in DOMAIN View[p].cells :
               c[p].cells[q].ref
                 = ShiftRef(View[p].cells[r].ref, IF p = path THEN name ELSE NameOf(p), name, plan)
    <3> TAKE p \in paths
    <3>1. p \in DOMAIN c /\ c[p] = moved[p]
      BY <1>13
    <3>2. CASE p = path
      BY <1>10, <3>1, <3>2
    <3>3. CASE p # path
      BY <1>9, <1>22, <3>1, <3>3
    <3>4. QED
      BY <3>2, <3>3
  <2>2. "chart" \in DOMAIN View =>
          "chart" \in DOMAIN c /\ c["chart"].ref = ShiftRef(View["chart"].ref, Nowhere, name, plan)
    BY <1>11, <1>13, <1>21
  <2>3. UNCHANGED <<session, file, sheets>> /\ edits' = edits + 1
        /\ rowIds' = [rowIds EXCEPT ![path] = ShiftIds(@, plan)]
    BY <1>3
  <2>4. WellFormed(after) /\ Listing1(after) = sheets /\ View' = Recalculated(after)
    BY <1>1, <1>17, <1>20
  <2>5. "workbook" \in DOMAIN c /\ c["workbook"] = book
    BY <1>13
  <2>6. QED
    BY <1>4, <1>14, <1>16, <2>1, <2>2, <2>3, <2>4, <2>5 DEF Shifting, paths, path, after
<1>24. QED
  BY <1>20, <1>23 DEF plan

-----------------------------------------------------------------------------
(* Worksheets renamed. *)

\* A rename leaves a worksheet its cells and styles.
LEMMA SheetRenamed ==
  ASSUME NEW part, IsWorksheet(part), NEW old, NEW new \in Texts
  PROVE  LET after == RewriteFormulas(part,
                        [ref \in FormulasOf(part) |-> RenameRef(ref, old, new)])
         IN /\ IsWorksheet(after) /\ after.colStyle = part.colStyle
            /\ DOMAIN after.cells = DOMAIN part.cells
            /\ \A r \in DOMAIN part.cells :
                 /\ after.cells[r].style = part.cells[r].style
                 /\ after.cells[r].ref = RenameRef(part.cells[r].ref, old, new)
<1> DEFINE to == [ref \in FormulasOf(part) |-> RenameRef(ref, old, new)]
<1>1. FormulasOf(part) \subseteq References
  <2>1. /\ "cells" \in DOMAIN part
        /\ \A r \in DOMAIN part.cells : part.cells[r] \in Cells
    BY DEF IsWorksheet
  <2>2. \A r \in DOMAIN part.cells : part.cells[r].ref \in References
    BY <2>1 DEF Cells
  <2>3. QED
    BY <2>1, <2>2 DEF FormulasOf
<1>2. \A ref \in FormulasOf(part) : to[ref] \in References
  BY <1>1, RenameRefType
<1>3. \A ref \in FormulasOf(part) : to[ref] = RenameRef(ref, old, new)
  OBVIOUS
<1> HIDE DEF to
<1>4. QED
  BY <1>2, <1>3, RewrittenSheet DEF to

\* And a chart a chart.
LEMMA ChartRenamed ==
  ASSUME NEW part \in Charts, NEW old, NEW new \in Texts
  PROVE  LET after == RewriteFormulas(part,
                        [ref \in FormulasOf(part) |-> RenameRef(ref, old, new)])
         IN after \in Charts /\ after.ref = RenameRef(part.ref, old, new)
<1> DEFINE to == [ref \in FormulasOf(part) |-> RenameRef(ref, old, new)]
<1>1. FormulasOf(part) \subseteq References
  BY DEF FormulasOf, Charts
<1>2. \A ref \in FormulasOf(part) : to[ref] \in References
  BY <1>1, RenameRefType
<1>3. \A ref \in FormulasOf(part) : to[ref] = RenameRef(ref, old, new)
  OBVIOUS
<1> HIDE DEF to
<1>4. QED
  BY <1>2, <1>3, RewrittenChart DEF to

\* And defined names their scopes.
LEMMA NamesRenamed ==
  ASSUME NEW names \in Seq(DefinedNames), NEW old, NEW new \in Texts
  PROVE  /\ RenameNames(names, old, new) \in Seq(DefinedNames)
         /\ DOMAIN RenameNames(names, old, new) = DOMAIN names
         /\ \A i \in DOMAIN names :
              /\ RenameNames(names, old, new)[i].scope = names[i].scope
              /\ RenameNames(names, old, new)[i].ref = RenameRef(names[i].ref, old, new)
<1> DEFINE n == Len(names)
           After(i) == [names[i] EXCEPT !.ref = RenameRef(@, old, new)]
<1>1. n \in Nat /\ DOMAIN names = 1..n /\ \A i \in 1..n : names[i] \in DefinedNames
  OBVIOUS
<1>2. RenameNames(names, old, new) = [i \in 1..n |-> After(i)]
  BY <1>1 DEF RenameNames
<1>3. ASSUME NEW i \in 1..n
      PROVE  /\ After(i) \in DefinedNames /\ After(i).scope = names[i].scope
             /\ After(i).ref = RenameRef(names[i].ref, old, new)
  <2>1. names[i] \in DefinedNames /\ names[i].ref \in References
    BY <1>1 DEF DefinedNames
  <2>2. RenameRef(names[i].ref, old, new) \in References
    BY <2>1, RenameRefType
  <2>3. QED
    BY <2>1, <2>2 DEF DefinedNames
<1> HIDE DEF After, n
<1>4. [i \in 1..n |-> After(i)] \in [1..n -> DefinedNames]
  BY <1>3
<1>5. [i \in 1..n |-> After(i)] \in Seq(DefinedNames)
  BY <1>1, <1>4, FunctionIsSeq
<1>6. QED
  BY <1>1, <1>2, <1>3, <1>5

\* And the entries entries.
LEMMA EntriesRenamed ==
  ASSUME NEW e \in Seq(Entries), NEW old, NEW new \in SheetNames
  PROVE  Renamed(e, old, new) \in Seq(Entries)
<1> DEFINE n == Len(e)
           After(i) == IF e[i].name = old THEN [e[i] EXCEPT !.name = new] ELSE e[i]
<1>1. n \in Nat /\ DOMAIN e = 1..n /\ \A i \in 1..n : e[i] \in Entries
  OBVIOUS
<1>2. Renamed(e, old, new) = [i \in 1..n |-> After(i)]
  BY <1>1 DEF Renamed
<1>3. \A i \in 1..n : After(i) \in Entries
  BY <1>1 DEF Entries
<1> HIDE DEF After, n
<1>4. [i \in 1..n |-> After(i)] \in [1..n -> Entries]
  BY <1>3
<1>5. QED
  BY <1>1, <1>2, <1>4, FunctionIsSeq

\* Among different titles the one that is looked for is found.
LEMMA TitleFound ==
  ASSUME NEW n \in Nat, NEW titles, Len(titles) = n,
         \A i, j \in 1..n : titles[i] = titles[j] => i = j,
         NEW old, NEW k \in 1..n, titles[k] = old
  PROVE  PositionOf(old, titles) = k
<1> DEFINE I == {i \in 1..Len(titles) : titles[i] = old}
<1>1. PositionOf(old, titles) = IF I # {} THEN Min(I) ELSE 0
  BY DEF PositionOf, IndexOf, SelectInSeq
<1>2. I = {k}
  OBVIOUS
<1>3. Min({k}) = k
  BY DEF Min
<1> HIDE DEF I
<1>4. QED
  BY <1>1, <1>2, <1>3

\* What a rename does to the references and the worksheets.
Renaming(old, new, c) ==
  /\ Renames(View, c, old, new)
  /\ \A p \in (SheetPaths \ {"data"}) \cap DOMAIN View :
       /\ p \in DOMAIN c
       /\ \A q \in DOMAIN c[p].cells :
            /\ q \in DOMAIN View[p].cells
            /\ c[p].cells[q].ref = RenameRef(View[p].cells[q].ref, old, new)
  /\ "chart" \in DOMAIN View =>
       "chart" \in DOMAIN c /\ c["chart"].ref = RenameRef(View["chart"].ref, old, new)
  /\ DOMAIN c["workbook"].names = DOMAIN View["workbook"].names
  /\ \A i \in DOMAIN View["workbook"].names :
       LET was == View["workbook"].names[i]  now == c["workbook"].names[i]
       IN now.scope = was.scope /\ now.ref = RenameRef(was.ref, old, new)
  /\ View' = Recalculated(Patched(View, c, {}))
  /\ sheets' = Renamed(sheets, old, new)
  /\ UNCHANGED <<session, file, rowIds>> /\ edits' = edits + 1
  /\ "rename" \in session.edits

\* A sheet is renamed.
LEMMA RenameKeeps ==
  ASSUME IInv, NEW old \in Names, NEW new \in SheetNames, RenameSheet(old, new)
  PROVE  IInv' /\ \E c : Renaming(old, new, c)
<1> DEFINE workbook == Part("workbook")
           named == [workbook EXCEPT !.entries = Renamed(@, old, new),
                                     !.names = RenameNames(@, old, new)]
           title == IF Has("app") THEN PositionOf(old, Part("app")) ELSE 0
           titles == IF title # 0 THEN [app |-> [Part("app") EXCEPT ![title] = new]] ELSE <<>>
           Rewritten(p) == RewriteFormulas(Part(p),
                             [ref \in FormulasOf(Part(p)) |-> RenameRef(ref, old, new)])
           parts == [p \in FormulaParts |-> Rewritten(p)]
           c == With(With(titles, parts), [workbook |-> named])
           after == Patched(View, c, {})
           xfs == StylesIn(View).xfs
           listed == Listing1(View)
<1>1. /\ WellFormed(View) /\ Styled(View) /\ sheets = listed
      /\ \A s \in ToSet(sheets) : s.path \in DOMAIN rowIds /\ rowIds[s.path] \in [Rows -> Nat \X Nat]
  BY DEF IInv, Shown
<1>2. /\ {"workbook", "rels", "types"} \subseteq DOMAIN View
      /\ View["workbook"] \in Workbooks /\ Indexed(View["workbook"])
      /\ \A p \in SheetPaths \cap DOMAIN View : IsWorksheet(View[p])
      /\ "chart" \in DOMAIN View => View["chart"] \in Charts
  BY <1>1 DEF WellFormed, PartsTyped
<1>3. \A p \in DOMAIN View : Part(p) = View[p]
  BY ViewParts
<1>4. /\ UNCHANGED <<session, original, file>> /\ edits' = edits + 1 /\ "rename" \in session.edits
      /\ ~NameTaken(new, workbook.entries, old)
      /\ Apply(Recalculation(c).changes, Recalculation(c).drops)
      /\ sheets' = SheetsOf(named, Part("rels"))
      /\ UNCHANGED rowIds
  BY DEF RenameSheet, Edit
<1>5. /\ FormulaParts \subseteq (SheetPaths \cup {"chart"}) \cap DOMAIN View
      /\ ((SheetPaths \ {"data"}) \cup {"chart"}) \cap DOMAIN View \subseteq FormulaParts
  <2>1. FormulaParts \subseteq (DOMAIN original \cup DOMAIN changed) \cap (SheetPaths \cup {"chart"})
    BY DEF FormulaParts
  <2>2. \A p \in SheetPaths \cup {"chart"} : p \notin removed
    BY PartNames DEF IInv
  <2>4. ((SheetPaths \ {"data"}) \cup {"chart"}) \cap DOMAIN View \subseteq FormulaParts
    BY DEF FormulaParts, View
  <2>3. QED
    BY <2>1, <2>2, <2>4 DEF View
<1>6. /\ DOMAIN listed = 1..Len(listed) /\ Len(listed) \in Nat
      /\ \A j \in 1..Len(listed) : \E i \in Positions(View["workbook"].entries, View["rels"]) :
           listed[j] = SheetOf(View["workbook"].entries, View["rels"], i)
  BY <1>1, Outline
<1>7. PICK k \in 1..Len(listed) : listed[k].name = old
  BY <1>1, <1>6 DEF Names, ToSet
<1>8. Has("app") <=> "app" \in DOMAIN View
  BY ViewParts
<1>9. DOMAIN titles = {"app"} \cap DOMAIN View
      /\ ("app" \in DOMAIN View =>
            titles["app"] = [j \in DOMAIN listed |-> IF listed[j].name = old THEN new ELSE listed[j].name])
  <2>1. CASE "app" \notin DOMAIN View
    <3>1. title = 0
      BY <1>8, <2>1
    <3> HIDE DEF title
    <3>2. titles = <<>>
      BY <3>1
    <3>3. QED
      BY <2>1, <3>2
  <2>2. CASE "app" \in DOMAIN View
    <3> DEFINE app == Part("app")
               n == Len(listed)
    <3>1. app = [i \in DOMAIN listed |-> listed[i].name]
      BY <1>1, <1>3, <2>2 DEF WellFormed, Listed, Listing1
    <3> HIDE DEF listed
    <3>2. /\ DOMAIN app = 1..n /\ Len(app) = n /\ n \in Nat
          /\ \A i \in 1..n : app[i] = listed[i].name
      BY <1>6, <3>1
    <3>3. \A i, j \in 1..n : app[i] = app[j] => i = j
      <4>1. \A i, j \in 1..n : NameKey(listed[i].name) = NameKey(listed[j].name) => i = j
        BY <1>1, ListedNamesDiffer DEF listed
      <4>2. QED
        BY <3>2, <4>1
    <3>4. k \in 1..n /\ app[k] = old
      BY <1>7, <3>2
    <3>5. title = PositionOf(old, app)
      BY <1>8, <2>2
    <3> HIDE DEF app, n
    <3>6. PositionOf(old, app) = k
      BY <3>2, <3>3, <3>4, TitleFound
    <3>7. title = k /\ title # 0
      BY <3>2, <3>4, <3>5, <3>6
    <3> HIDE DEF title
    <3>8. titles = [app |-> [app EXCEPT ![k] = new]]
      BY <3>7 DEF app
    <3>9. [app EXCEPT ![k] = new] = [j \in DOMAIN listed |-> IF listed[j].name = old THEN new ELSE listed[j].name]
      <4>1. \A j \in 1..n : j = k <=> listed[j].name = old
        BY <3>2, <3>3, <3>4
      <4>2. DOMAIN listed = 1..n
        BY <1>6 DEF n
      <4>3. QED
        BY <3>2, <4>1, <4>2
    <3> HIDE DEF titles
    <3>11. DOMAIN titles = {"app"} /\ titles["app"] = [app EXCEPT ![k] = new]
      BY <3>8
    <3>10. QED
      BY <2>2, <3>9, <3>11
  <2>3. QED
    BY <2>1, <2>2
<1> HIDE DEF titles, title
<1>10. \A p \in FormulaParts : p \notin {"workbook", "rels", "types", "app", "styles", "chain"}
  BY <1>5, PartNames
<1>11. /\ DOMAIN c = ({"app"} \cap DOMAIN View) \cup FormulaParts \cup {"workbook"}
       /\ c["workbook"] = named
       /\ \A p \in FormulaParts : c[p] = Rewritten(p)
       /\ "app" \in DOMAIN View => c["app"] = titles["app"]
  <2> DEFINE first == With(titles, parts)
  <2>1. DOMAIN parts = FormulaParts /\ \A p \in FormulaParts : parts[p] = Rewritten(p)
    OBVIOUS
  <2> HIDE DEF parts, Rewritten, named
  <2>2. /\ DOMAIN first = ({"app"} \cap DOMAIN View) \cup FormulaParts
        /\ \A p \in FormulaParts : first[p] = Rewritten(p)
        /\ "app" \in DOMAIN View => first["app"] = titles["app"]
    BY <1>9, <1>10, <2>1 DEF With
  <2> HIDE DEF first
  <2>3. c = With(first, [workbook |-> named])
    BY DEF first
  <2>4. "workbook" \notin DOMAIN first
    BY <1>10, <2>2
  <2>5. QED
    BY <1>10, <2>2, <2>3, <2>4 DEF With
<1> HIDE DEF c, after, parts, workbook, xfs
<1>12. workbook = View["workbook"] /\ Part("rels") = View["rels"]
  BY <1>2, <1>3 DEF workbook
<1>13. new \in Texts
  BY DEF Texts
<1>14. /\ named \in Workbooks /\ Indexed(named)
       /\ named.entries = Renamed(workbook.entries, old, new)
       /\ DOMAIN named.names = DOMAIN workbook.names
       /\ \A i \in DOMAIN workbook.names :
            /\ named.names[i].scope = workbook.names[i].scope
            /\ named.names[i].ref = RenameRef(workbook.names[i].ref, old, new)
  <2> DEFINE names == RenameNames(workbook.names, old, new)
             entries == Renamed(workbook.entries, old, new)
             was == workbook.names
             ent == workbook.entries
  <2>1. workbook \in Workbooks /\ Indexed(workbook) /\ named = [workbook EXCEPT !.entries = entries, !.names = names]
    BY <1>2, <1>12
  <2>2. was \in Seq(DefinedNames) /\ ent \in Seq(Entries)
    BY <2>1 DEF Workbooks
  <2> HIDE DEF was, ent
  <2>3. was \in Seq(DefinedNames)
    BY <2>2
  <2>4. ent \in Seq(Entries)
    BY <2>2
  <2>5. /\ RenameNames(was, old, new) \in Seq(DefinedNames)
        /\ DOMAIN RenameNames(was, old, new) = DOMAIN was
        /\ \A i \in DOMAIN was :
             /\ RenameNames(was, old, new)[i].scope = was[i].scope
             /\ RenameNames(was, old, new)[i].ref = RenameRef(was[i].ref, old, new)
    BY <1>13, <2>3, NamesRenamed
  <2>6. Renamed(ent, old, new) \in Seq(Entries)
    BY <2>4, EntriesRenamed
  <2>7. Len(Renamed(ent, old, new)) = Len(ent)
    BY <2>4, <2>6, RenamedEntries
  <2>8. /\ names \in Seq(DefinedNames) /\ DOMAIN names = DOMAIN was
        /\ \A i \in DOMAIN was :
             /\ names[i].scope = was[i].scope
             /\ names[i].ref = RenameRef(was[i].ref, old, new)
        /\ entries \in Seq(Entries) /\ Len(entries) = Len(ent)
    BY <2>5, <2>6, <2>7 DEF was, ent
  <2> HIDE DEF names, entries, named
  <2>9. named \in Workbooks /\ named.names = names /\ named.entries = entries
        /\ named.active = workbook.active
    BY <2>1, <2>8 DEF Workbooks
  <2>10. /\ workbook.active < Len(ent)
         /\ \A i \in DOMAIN was : was[i].scope \in (-1)..(Len(ent) - 1)
    BY <2>1 DEF Indexed, was, ent
  <2>11. Indexed(named)
    BY <2>8, <2>9, <2>10 DEF Indexed
  <2>12. QED
    BY <2>8, <2>9, <2>11 DEF entries, was
<1> HIDE DEF named
<1>15. \A p \in SheetPaths \cap DOMAIN c :
         /\ IsWorksheet(c[p]) /\ c[p].colStyle < Len(xfs)
         /\ \A r \in DOMAIN c[p].cells : c[p].cells[r].style < Len(xfs)
         /\ DOMAIN c[p].cells = DOMAIN View[p].cells
         /\ \A r \in DOMAIN View[p].cells :
              c[p].cells[r].ref = RenameRef(View[p].cells[r].ref, old, new)
  <2> TAKE p \in SheetPaths \cap DOMAIN c
  <2> DEFINE sheet == Part(p)
             to == RewriteFormulas(sheet, [ref \in FormulasOf(sheet) |-> RenameRef(ref, old, new)])
  <2>1. p \in FormulaParts
    BY <1>11, PartNames
  <2>2. c[p] = to
    BY <1>11, <2>1
  <2>3. p \in SheetPaths \cap DOMAIN View /\ sheet = View[p]
    BY <1>3, <1>5, <2>1
  <2>4. IsWorksheet(sheet)
    BY <1>2, <2>3
  <2> HIDE DEF sheet
  <2>5. /\ IsWorksheet(to) /\ to.colStyle = sheet.colStyle
        /\ DOMAIN to.cells = DOMAIN sheet.cells
        /\ \A r \in DOMAIN sheet.cells :
             /\ to.cells[r].style = sheet.cells[r].style
             /\ to.cells[r].ref = RenameRef(sheet.cells[r].ref, old, new)
    BY <1>13, <2>4, SheetRenamed
  <2> HIDE DEF to
  <2>6. /\ sheet.colStyle < Len(xfs)
        /\ \A r \in DOMAIN sheet.cells : sheet.cells[r].style < Len(xfs)
    BY <1>1, <2>3 DEF Styled, xfs
  <2>7. QED
    BY <2>2, <2>3, <2>5, <2>6
<1>16. "chart" \in DOMAIN c => /\ c["chart"] \in Charts
                               /\ c["chart"].ref = RenameRef(View["chart"].ref, old, new)
  <2> SUFFICES ASSUME "chart" \in DOMAIN c
               PROVE  /\ c["chart"] \in Charts
                      /\ c["chart"].ref = RenameRef(View["chart"].ref, old, new)
    OBVIOUS
  <2> DEFINE chart == Part("chart")
             to == RewriteFormulas(chart, [ref \in FormulasOf(chart) |-> RenameRef(ref, old, new)])
  <2>1. "chart" \in FormulaParts
    BY <1>11
  <2>2. c["chart"] = to
    BY <1>11, <2>1
  <2>3. chart \in Charts /\ chart = View["chart"]
    BY <1>2, <1>3, <1>5, <2>1
  <2> HIDE DEF chart
  <2>4. to \in Charts /\ to.ref = RenameRef(chart.ref, old, new)
    BY <1>13, <2>3, ChartRenamed
  <2>5. QED
    BY <2>2, <2>3, <2>4
<1> HIDE DEF Rewritten
<1>17. Renames(View, c, old, new)
  <2>1. DOMAIN c \subseteq DOMAIN View /\ DOMAIN c \cap {"rels", "types"} = {}
    BY <1>2, <1>5, <1>10, <1>11
  <2>2. "workbook" \in DOMAIN c /\ c["workbook"] \in Workbooks /\ Indexed(c["workbook"])
        /\ c["workbook"].entries = Renamed(View["workbook"].entries, old, new)
    BY <1>11, <1>12, <1>14
  <2>3. "app" \in DOMAIN View => "app" \in DOMAIN c /\ c["app"]
          = [j \in DOMAIN Listing1(View) |->
               IF Listing1(View)[j].name = old THEN new ELSE Listing1(View)[j].name]
    BY <1>9, <1>11 DEF listed
  <2>4. ~NameTaken(new, View["workbook"].entries, old)
    BY <1>4, <1>12
  <2>5. QED
    BY <1>1, <1>15, <1>16, <2>1, <2>2, <2>3, <2>4 DEF Renames
<1>18. WellFormed(after) /\ Listing1(after) = Renamed(listed, old, new)
  BY <1>17, RenamedIsWellFormed DEF after, listed
<1>19. Styled(after)
  <2>1. "styles" \notin DOMAIN c
    BY <1>10, <1>11
  <2>2. \A p \in SheetPaths \cap DOMAIN c :
          /\ c[p].colStyle < Len(StylesIn(View).xfs)
          /\ \A r \in DOMAIN c[p].cells : c[p].cells[r].style < Len(StylesIn(View).xfs)
    BY <1>15 DEF xfs
  <2>3. QED
    BY <1>1, <2>1, <2>2, StylesStay DEF after
<1>20. sheets' = Listing1(after)
  <2>1. after["workbook"] = named /\ after["rels"] = View["rels"]
    BY <1>2, <1>10, <1>11 DEF after, Patched
  <2>2. QED
    BY <1>4, <1>12, <2>1 DEF Listing1
<1>21. \A s \in ToSet(sheets') : s.path \in DOMAIN rowIds' /\ rowIds'[s.path] \in [Rows -> Nat \X Nat]
  <2> TAKE s \in ToSet(sheets')
  <2>1. PICK j \in 1..Len(listed) : s = IF listed[j].name = old THEN [listed[j] EXCEPT !.name = new] ELSE listed[j]
    BY <1>6, <1>18, <1>20 DEF ToSet, Renamed
  <2>2. PICK i \in Positions(View["workbook"].entries, View["rels"]) :
          listed[j] = SheetOf(View["workbook"].entries, View["rels"], i)
    BY <1>6
  <2>3. s.path = listed[j].path
    BY <2>1, <2>2 DEF SheetOf
  <2>4. listed[j] \in ToSet(sheets)
    BY <1>1, <1>6 DEF ToSet
  <2>5. QED
    BY <1>1, <1>4, <2>3, <2>4
<1>22. IInv' /\ View' = Recalculated(after)
  <2>1. DOMAIN c \cap {"rels", "types", "chain"} = {}
    BY <1>10, <1>11
  <2>2. QED
    BY <1>4, <1>18, <1>19, <1>20, <1>21, <2>1, RecalculatedEdit DEF after
<1>23. Renaming(old, new, c)
  <2>1. \A p \in (SheetPaths \ {"data"}) \cap DOMAIN View :
          /\ p \in DOMAIN c
          /\ \A q \in DOMAIN c[p].cells :
               /\ q \in DOMAIN View[p].cells
               /\ c[p].cells[q].ref = RenameRef(View[p].cells[q].ref, old, new)
    <3> TAKE p \in (SheetPaths \ {"data"}) \cap DOMAIN View
    <3>1. p \in FormulaParts /\ p \in DOMAIN c
      BY <1>5, <1>11
    <3>2. QED
      BY <1>15, <3>1
  <2>2. "chart" \in DOMAIN View =>
          "chart" \in DOMAIN c /\ c["chart"].ref = RenameRef(View["chart"].ref, old, new)
    BY <1>5, <1>11, <1>16
  <2>3. /\ DOMAIN c["workbook"].names = DOMAIN View["workbook"].names
        /\ \A i \in DOMAIN View["workbook"].names :
             LET was == View["workbook"].names[i]  now == c["workbook"].names[i]
             IN now.scope = was.scope /\ now.ref = RenameRef(was.ref, old, new)
    BY <1>11, <1>12, <1>14
  <2>4. View' = Recalculated(Patched(View, c, {}))
    BY <1>22 DEF after
  <2>5. sheets' = Renamed(sheets, old, new)
    BY <1>1, <1>18, <1>20
  <2>6. UNCHANGED <<session, file, rowIds>> /\ edits' = edits + 1 /\ "rename" \in session.edits
    BY <1>4
  <2>7. QED
    BY <1>17, <2>1, <2>2, <2>3, <2>4, <2>5, <2>6 DEF Renaming
<1>24. QED
  BY <1>22, <1>23

-----------------------------------------------------------------------------
(* Worksheets added. *)

\* The scopes at or after a position, and no others, are one more.
LEMMA ScopesShifted ==
  ASSUME NEW names \in Seq(DefinedNames), NEW at \in Nat
  PROVE  /\ ShiftScopes(names, at) \in Seq(DefinedNames)
         /\ DOMAIN ShiftScopes(names, at) = DOMAIN names
         /\ \A i \in DOMAIN names :
              /\ ShiftScopes(names, at)[i].ref = names[i].ref
              /\ ShiftScopes(names, at)[i].scope
                   = IF names[i].scope >= at THEN names[i].scope + 1 ELSE names[i].scope
<1> DEFINE n == Len(names)
           After(i) == [names[i] EXCEPT !.scope = IF @ >= at THEN @ + 1 ELSE @]
<1>1. n \in Nat /\ DOMAIN names = 1..n /\ \A i \in 1..n : names[i] \in DefinedNames
  OBVIOUS
<1>2. ShiftScopes(names, at) = [i \in 1..n |-> After(i)]
  BY <1>1 DEF ShiftScopes
<1>3. ASSUME NEW i \in 1..n
      PROVE  /\ After(i) \in DefinedNames
             /\ After(i).ref = names[i].ref
             /\ After(i).scope = IF names[i].scope >= at THEN names[i].scope + 1 ELSE names[i].scope
  BY <1>1 DEF DefinedNames
<1> HIDE DEF After, n
<1>4. [i \in 1..n |-> After(i)] \in [1..n -> DefinedNames]
  BY <1>3
<1>5. [i \in 1..n |-> After(i)] \in Seq(DefinedNames)
  BY <1>1, <1>4, FunctionIsSeq
<1>6. QED
  BY <1>1, <1>2, <1>3, <1>5

\* What an entry more does to the workbook, whose indexes still are of entries.
LEMMA EntryInserted ==
  ASSUME NEW workbook \in Workbooks, Indexed(workbook), NEW entry \in Entries,
         NEW at \in 0..Len(workbook.entries)
  PROVE  LET after == Inserting(workbook, at, entry)
             e == workbook.entries
         IN /\ after \in Workbooks /\ Indexed(after)
            /\ after.entries = InsertAt(e, at + 1, entry)
            /\ after.fullCalc = workbook.fullCalc
            /\ after.active = IF workbook.active >= at THEN workbook.active + 1 ELSE workbook.active
            /\ DOMAIN after.names = DOMAIN workbook.names
            /\ \A i \in DOMAIN workbook.names :
                 /\ after.names[i].ref = workbook.names[i].ref
                 /\ after.names[i].scope = IF workbook.names[i].scope >= at
                                           THEN workbook.names[i].scope + 1 ELSE workbook.names[i].scope
<1> DEFINE after == Inserting(workbook, at, entry)
           e == workbook.entries
           d == InsertAt(e, at + 1, entry)
           names == ShiftScopes(workbook.names, at)
           active == IF workbook.active >= at THEN workbook.active + 1 ELSE workbook.active
<1>1. /\ e \in Seq(Entries) /\ workbook.names \in Seq(DefinedNames) /\ Len(e) \in Nat
      /\ workbook.active \in Nat /\ workbook.fullCalc \in BOOLEAN
  BY DEF Workbooks
<1>2. /\ workbook.active < Len(e)
      /\ \A i \in DOMAIN workbook.names : workbook.names[i].scope \in (-1)..(Len(e) - 1)
  BY DEF Indexed
<1>3. at \in Nat /\ at <= Len(e)
  BY <1>1
<1>4. /\ names \in Seq(DefinedNames) /\ DOMAIN names = DOMAIN workbook.names
      /\ \A i \in DOMAIN workbook.names :
           /\ names[i].ref = workbook.names[i].ref
           /\ names[i].scope = IF workbook.names[i].scope >= at
                               THEN workbook.names[i].scope + 1 ELSE workbook.names[i].scope
  <2> DEFINE was == workbook.names
  <2>1. was \in Seq(DefinedNames)
    BY <1>1
  <2> HIDE DEF was
  <2>2. /\ ShiftScopes(was, at) \in Seq(DefinedNames)
        /\ DOMAIN ShiftScopes(was, at) = DOMAIN was
        /\ \A i \in DOMAIN was :
             /\ ShiftScopes(was, at)[i].ref = was[i].ref
             /\ ShiftScopes(was, at)[i].scope = IF was[i].scope >= at THEN was[i].scope + 1 ELSE was[i].scope
    BY <1>3, <2>1, ScopesShifted
  <2>3. QED
    BY <2>2 DEF was
<1>5. d \in Seq(Entries) /\ Len(d) = Len(e) + 1
  <2>1. e \in Seq(Entries)
    BY <1>1
  <2>2. at \in 0..Len(e)
    OBVIOUS
  <2> HIDE DEF e
  <2>3. /\ InsertAt(e, at + 1, entry) \in Seq(Entries)
        /\ Len(InsertAt(e, at + 1, entry)) = Len(e) + 1
    BY <2>1, <2>2, Inserted
  <2>4. QED
    BY <2>3
<1> HIDE DEF d, names
<1>6. CASE at < Len(e)
  <2>1. after = [[workbook EXCEPT !.names = names, !.active = active] EXCEPT !.entries = d]
    BY <1>6 DEF Inserting, ShiftIndexes, names, d
  <2>6. active \in Nat /\ active < Len(d)
    BY <1>1, <1>2, <1>5
  <2>7. names \in Seq(DefinedNames)
    BY <1>4
  <2>8. d \in Seq(Entries)
    BY <1>5
  <2> HIDE DEF after, e, active
  <2>2. /\ after \in Workbooks /\ after.entries = d /\ after.fullCalc = workbook.fullCalc
        /\ after.active = active /\ after.names = names
    BY <1>1, <2>1, <2>6, <2>7, <2>8 DEF Workbooks
  <2>3. after.active < Len(d)
    BY <2>2, <2>6
  <2>4. \A i \in DOMAIN names : names[i].scope \in (-1)..(Len(d) - 1)
    <3> TAKE i \in DOMAIN names
    <3> DEFINE was == workbook.names[i].scope
    <3>1. names[i].scope = IF was >= at THEN was + 1 ELSE was
      BY <1>4
    <3>2. was \in (-1)..(Len(e) - 1)
      BY <1>2, <1>4
    <3> HIDE DEF was
    <3>3. Len(e) \in Nat /\ Len(d) = Len(e) + 1
      BY <1>1, <1>5
    <3>4. QED
      BY <1>3, <3>1, <3>2, <3>3
  <2>5. QED
    BY <1>4, <2>2, <2>3, <2>4 DEF Indexed, after, e, d, active
<1>7. CASE at = Len(e)
  <2>1. after = [workbook EXCEPT !.entries = d]
    BY <1>1, <1>7 DEF Inserting, d
  <2> HIDE DEF after, e
  <2>2. /\ after \in Workbooks /\ after.entries = d /\ after.fullCalc = workbook.fullCalc
        /\ after.active = workbook.active /\ after.names = workbook.names
    BY <1>1, <1>5, <2>1 DEF Workbooks, e
  <2>3. after.active < Len(d) /\ active = workbook.active
    BY <1>1, <1>2, <1>5, <1>7, <2>2
  <2>4. \A i \in DOMAIN workbook.names :
          /\ workbook.names[i].scope \in (-1)..(Len(d) - 1)
          /\ ~(workbook.names[i].scope >= at)
    BY <1>1, <1>2, <1>3, <1>5, <1>7
  <2>5. QED
    BY <2>2, <2>3, <2>4 DEF Indexed, after, e, d
<1>8. QED
  BY <1>3, <1>6, <1>7, <1>1

\* The position of the entry of a name.
LEMMA EntryFound ==
  ASSUME NEW e, NEW n \in Nat, Len(e) = n, NEW k \in 1..n,
         \A i, j \in 1..n : e[i].name = e[j].name => i = j
  PROVE  EntryNamed(e[k].name, e) = k
<1> DEFINE found == {i \in 1..Len(e) : e[i].name = e[k].name}
<1>1. EntryNamed(e[k].name, e) = IF found # {} THEN Min(found) ELSE 0
  BY DEF EntryNamed, IndexOf, SelectInSeq
<1>2. k \in found /\ \A i \in found : i = k
  OBVIOUS
<1>3. found \in SUBSET Nat /\ found # {}
  BY <1>2
<1> HIDE DEF found
<1>4. Min(found) \in found
  BY <1>3, MinIsLeast
<1>5. QED
  BY <1>1, <1>2, <1>3, <1>4

\* A part that is not there, if there is one among the names for new ones.
LEMMA FreePathIsFree ==
  ASSUME \E p \in ToSet(NewSheetPaths) : ~Has(p)
  PROVE  FreePath \in SheetPaths \ {"data"} /\ ~Has(FreePath)
<1> DEFINE free == {i \in 1..Len(NewSheetPaths) : ~Has(NewSheetPaths[i])}
           first == IndexOf(NewSheetPaths, LAMBDA p : ~Has(p))
<1>1. first = IF free # {} THEN Min(free) ELSE 0
  BY DEF IndexOf, SelectInSeq
<1>2. DOMAIN NewSheetPaths = 1..5 /\ Len(NewSheetPaths) = 5
  BY DEF NewSheetPaths
<1>3. free # {}
  BY <1>2 DEF ToSet
<1>4. free \in SUBSET Nat
  BY <1>2
<1> HIDE DEF free, first
<1>5. first \in free
  BY <1>1, <1>3, <1>4, MinIsLeast
<1>6. first \in 1..5 /\ ~Has(NewSheetPaths[first])
  BY <1>2, <1>5 DEF free
<1>7. NewSheetPaths[first] \in SheetPaths \ {"data"}
  <2>1. NewSheetPaths[first] \in {"sheet1", "sheet2", "sheet3", "sheet4", "sheet5"}
    BY <1>6 DEF NewSheetPaths
  <2>2. QED
    BY <2>1, PartNames
<1>8. QED
  BY <1>6, <1>7 DEF FreePath, first

\* An id above those of all entries.
LEMMA NewId ==
  ASSUME NEW e \in Seq(Entries)
  PROVE  LET id == Max({0} \cup {x.id : x \in ToSet(e)}) + 1
         IN id \in Nat /\ \A i \in 1..Len(e) : e[i].id # id
<1> DEFINE ids == [i \in 1..Len(e) |-> e[i].id]
           S == {x.id : x \in ToSet(e)}
<1>1. DOMAIN e = 1..Len(e) /\ Len(e) \in Nat /\ \A i \in 1..Len(e) : e[i].id \in Nat
  <2>1. DOMAIN e = 1..Len(e) /\ Len(e) \in Nat /\ \A i \in 1..Len(e) : e[i] \in Entries
    OBVIOUS
  <2>2. \A x \in Entries : x.id \in Nat
    BY DEF Entries
  <2>3. QED
    BY <2>1, <2>2
<1>2. ids \in Seq(Nat) /\ DOMAIN ids = 1..Len(e)
  BY <1>1, FunctionIsSeq
<1>3. \A i \in 1..Len(e) : ids[i] = e[i].id
  OBVIOUS
<1>4. \A x \in S : \E i \in 1..Len(e) : x = e[i].id
  BY <1>1 DEF ToSet
<1>5. \A i \in 1..Len(e) : e[i].id \in S
  BY <1>1 DEF ToSet
<1> HIDE DEF ids, S
<1>6. PICK n \in Nat : \A i \in 1..Len(e) : ids[i] <= n
  BY <1>2, SequencesAreBounded
<1>7. \A x \in S : x \in 0..n
  BY <1>1, <1>3, <1>4, <1>6
<1>8. Bounded(S)
  BY <1>7 DEF Bounded
<1>9. Max({0} \cup S) \in Nat /\ \A x \in S : x \in Nat /\ x <= Max({0} \cup S)
  BY <1>8, MaxIsAbove
<1>10. \A i \in 1..Len(e) : e[i].id # Max({0} \cup S) + 1
  <2> TAKE i \in 1..Len(e)
  <2> DEFINE top == Max({0} \cup S)
  <2>1. top \in Nat /\ e[i].id \in Nat /\ e[i].id <= top
    BY <1>5, <1>9
  <2> HIDE DEF top
  <2>2. e[i].id # top + 1
    BY <2>1
  <2>3. QED
    BY <2>2 DEF top
<1>11. QED
  BY <1>9, <1>10 DEF S

\* A relationship id above those that there are.
LEMMA NewLink ==
  ASSUME NEW package, WellFormed(package)
  PROVE  LET link == Max({0} \cup DOMAIN package["rels"]) + 1
         IN link \in Nat /\ link \notin DOMAIN package["rels"]
<1> DEFINE S == DOMAIN package["rels"]
<1>1. IsFiniteSet(S) /\ \A r \in S : r \in Nat
  BY DEF WellFormed, Linked
<1> HIDE DEF S
<1>2. S \in SUBSET Nat
  BY <1>1
<1>3. Bounded(S)
  BY <1>1, <1>2, FiniteSetsAreBounded
<1>4. Max({0} \cup S) \in Nat /\ \A x \in S : x \in Nat /\ x <= Max({0} \cup S)
  BY <1>3, MaxIsAbove
<1>5. QED
  BY <1>4 DEF S

\* What the edit does to the parts, the worksheets and the row identities.
Adding(name, position, c, path, entry, at, ids) ==
  /\ Adds(View, c, path, entry, at, position) /\ entry.name = name
  /\ c["workbook"] = Inserting(View["workbook"], at, entry)
  /\ Apply(c, {})
  /\ UNCHANGED <<session, original, file>> /\ edits' = edits + 1
  /\ sheets' = SheetsOf(c["workbook"], c["rels"])
  /\ ids = [r \in Rows |-> <<0, r>>] /\ rowIds' = With(rowIds, Single(path, ids))
  /\ path # "data"
  /\ UNCHANGED touched

\* add_sheet adds a worksheet that nothing collides with.
LEMMA AddSheetAdds ==
  ASSUME IInv, NEW name \in SheetNames, NEW position \in 0..Len(sheets), AddSheet(name, position)
  PROVE  \E c, path, entry, at, ids : Adding(name, position, c, path, entry, at, ids)
<1> DEFINE workbook == Part("workbook")
           e == workbook.entries
           rels == Part("rels")
           types == Part("types")
           path == FreePath
           at == IF position < Len(sheets)
                 THEN EntryNamed(sheets[position + 1].name, e) - 1 ELSE Len(e)
           id == Max({0} \cup {x.id : x \in ToSet(e)}) + 1
           rid == Max({0} \cup DOMAIN rels) + 1
           entry == [name |-> name, id |-> id, rid |-> rid]
           app == InsertAt(Part("app"), position + 1, name)
           titles == IF Has("app") THEN [app |-> app] ELSE <<>>
           book == Inserting(workbook, at, entry)
           links == With(rels, Single(entry.rid, [kind |-> "worksheet", path |-> path]))
           typed == With(types, Single(path, "worksheet"))
           c == With(With(titles, Single(path, BlankSheet)),
                     [workbook |-> book, rels |-> links, types |-> typed])
           ids == [r \in Rows |-> <<0, r>>]
           listed == Listing1(View)
<1>1. WellFormed(View) /\ sheets = listed
  BY DEF IInv, Shown
<1>2. /\ UNCHANGED <<session, original, file>> /\ edits' = edits + 1
      /\ \E p \in ToSet(NewSheetPaths) : ~Has(p)
      /\ ~NameTaken(name, e, "") /\ ~PartInUse(path)
      /\ Apply(c, {})
      /\ sheets' = SheetsOf(c["workbook"], c["rels"])
      /\ rowIds' = With(rowIds, Single(path, ids))
      /\ UNCHANGED touched
  BY DEF AddSheet, Edit
<1>3. /\ {"workbook", "rels", "types"} \subseteq DOMAIN View
      /\ View["workbook"] \in Workbooks /\ Indexed(View["workbook"])
  BY <1>1 DEF WellFormed, PartsTyped
<1>4. workbook = View["workbook"] /\ rels = View["rels"] /\ types = View["types"]
      /\ (Has("app") <=> "app" \in DOMAIN View)
      /\ ("app" \in DOMAIN View => Part("app") = View["app"])
  BY <1>3, ViewParts
<1>5. path \in SheetPaths /\ path # "data" /\ path \notin DOMAIN View
  BY <1>2, FreePathIsFree, ViewParts
<1>6. path \notin {"workbook", "rels", "types", "app"}
  BY <1>5, PartNames
<1>7. /\ DOMAIN c = {path, "workbook", "rels", "types"} \cup ({"app"} \cap DOMAIN View)
      /\ c[path] = BlankSheet
      /\ c["workbook"] = book /\ c["rels"] = links /\ c["types"] = typed
      /\ "app" \in DOMAIN View => c["app"] = app
  <2> DEFINE first == With(titles, Single(path, BlankSheet))
  <2> HIDE DEF app, book, links, typed
  <2>1. /\ DOMAIN titles = {"app"} \cap DOMAIN View
        /\ "app" \in DOMAIN View => titles["app"] = app
    BY <1>4
  <2> HIDE DEF titles
  <2>2. /\ DOMAIN first = ({"app"} \cap DOMAIN View) \cup {path}
        /\ first[path] = BlankSheet
        /\ "app" \in DOMAIN View => first["app"] = app
    BY <1>6, <2>1 DEF With, Single
  <2> HIDE DEF first
  <2>3. c = With(first, [workbook |-> book, rels |-> links, types |-> typed])
    BY DEF first
  <2>4. QED
    BY <1>6, <2>2, <2>3 DEF With
<1>8. \A p \in DOMAIN View : PathKey(p) # PathKey(path)
  <2> SUFFICES ASSUME NEW p \in DOMAIN View, PathKey(p) = PathKey(path) PROVE FALSE
    OBVIOUS
  <2>1. p \in SheetPaths
    BY <1>5, PartNames
  <2>2. p \in DOMAIN View["types"]
    BY <1>1, <2>1 DEF WellFormed, Linked
  <2>3. QED
    BY <1>2, <1>4, <2>2 DEF PartInUse
<1> HIDE DEF c, path, workbook, rels, types
<1>9. /\ e \in Seq(Entries) /\ DOMAIN e = 1..Len(e) /\ Len(e) \in Nat
      /\ \A i, j \in 1..Len(e) : NameKey(e[i].name) = NameKey(e[j].name) => i = j
      /\ DOMAIN listed = 1..Len(listed) /\ Len(listed) \in Nat
      /\ \A j \in 1..Len(listed) : \E i \in Positions(e, rels) : listed[j] = SheetOf(e, rels, i)
  BY <1>1, <1>4, Outline
<1>10. id \in Nat /\ \A i \in 1..Len(e) : e[i].id # id
  BY <1>9, NewId
<1>11. rid \in Nat /\ rid \notin DOMAIN rels
  BY <1>1, <1>4, NewLink
<1> HIDE DEF id, rid
<1>12. entry \in Entries
  BY <1>10, <1>11 DEF Entries
<1>13. \A i \in 1..Len(e) : NameKey(e[i].name) # NameKey(name)
  <2>3. \A i \in 1..Len(e) : e[i] \in Entries
    BY <1>9
  <2>4. \A x \in Entries : x.name \in SheetNames
    BY DEF Entries
  <2>1. \A i \in 1..Len(e) : e[i].name \in SheetNames
    BY <2>3, <2>4
  <2>2. QED
    BY <1>2, <1>9, <2>1 DEF NameTaken, SheetNames
<1>14. Before(e, rels, listed, at, position)
  <2>1. CASE position < Len(sheets)
    <3>1. position + 1 \in 1..Len(listed)
      BY <1>1, <1>9, <2>1
    <3>2. PICK i \in Positions(e, rels) : listed[position + 1] = SheetOf(e, rels, i)
      BY <1>9, <3>1
    <3>3. i \in 1..Len(e) /\ sheets[position + 1].name = e[i].name
      BY <1>1, <3>2 DEF Positions, SheetOf
    <3>4. \A j, k \in 1..Len(e) : e[j].name = e[k].name => j = k
      BY <1>9
    <3> HIDE DEF e
    <3>5. EntryNamed(e[i].name, e) = i
      BY <1>9, <3>3, <3>4, EntryFound
    <3>6. at + 1 = i /\ at \in 0..Len(e) /\ at < Len(e)
      BY <1>9, <2>1, <3>3, <3>5
    <3> HIDE DEF at, listed
    <3>7. QED
      BY <1>1, <1>9, <2>1, <3>2, <3>6 DEF Before, listed
  <2>2. CASE ~(position < Len(sheets))
    BY <1>1, <1>9, <2>2 DEF Before
  <2>3. QED
    BY <2>1, <2>2
<1>15. at \in 0..Len(e)
  BY <1>14 DEF Before
<1> HIDE DEF at, entry
<1>16. book \in Workbooks /\ Indexed(book) /\ book.entries = InsertAt(e, at + 1, entry)
  BY <1>3, <1>4, <1>12, <1>15, EntryInserted
<1>17. entry.name = name /\ entry.id = id /\ entry.rid = rid
  BY DEF entry
<1>18. Adds(View, c, path, entry, at, position)
  <2>1. /\ entry.rid \notin DOMAIN View["rels"]
        /\ \A i \in 1..Len(View["workbook"].entries) : View["workbook"].entries[i].id # entry.id
        /\ \A i \in 1..Len(View["workbook"].entries) :
             NameKey(View["workbook"].entries[i].name) # NameKey(entry.name)
        /\ Before(View["workbook"].entries, View["rels"], Listing1(View), at, position)
    BY <1>4, <1>10, <1>11, <1>13, <1>14, <1>17
  <2>2. /\ c["workbook"] \in Workbooks /\ Indexed(c["workbook"])
        /\ c["workbook"].entries = InsertAt(View["workbook"].entries, at + 1, entry)
    BY <1>4, <1>7, <1>16
  <2>3. /\ c["rels"] = With(View["rels"], Single(entry.rid, [kind |-> "worksheet", path |-> path]))
        /\ c["types"] = With(View["types"], Single(path, "worksheet"))
        /\ "app" \in DOMAIN View => c["app"] = InsertAt(View["app"], position + 1, entry.name)
    BY <1>4, <1>7, <1>17
  <2>4. QED
    BY <1>1, <1>5, <1>7, <1>8, <1>12, <2>1, <2>2, <2>3 DEF Adds
<1>19. ids = [r \in Rows |-> <<0, r>>]
  OBVIOUS
<1> HIDE DEF ids
<1>20. Adding(name, position, c, path, entry, at, ids)
  BY <1>2, <1>4, <1>5, <1>7, <1>17, <1>18, <1>19 DEF Adding
<1>21. QED
  BY <1>20

\* A sheet is added.
LEMMA AddSheetKeeps ==
  ASSUME IInv, NEW name \in SheetNames, NEW position \in 0..Len(sheets), AddSheet(name, position)
  PROVE  IInv'
<1>1. PICK c, path, entry, at, ids : Adding(name, position, c, path, entry, at, ids)
  BY AddSheetAdds
<1> DEFINE after == Patched(View, c, {})
           listed == Listing1(View)
           sheet == [name |-> name, path |-> path]
           xfs == StylesIn(View).xfs
<1>2. /\ WellFormed(View) /\ Styled(View) /\ sheets = listed
      /\ \A s \in ToSet(sheets) : s.path \in DOMAIN rowIds /\ rowIds[s.path] \in [Rows -> Nat \X Nat]
      /\ touched /\ HoldsFormulasIn(View) => Chainless(View)
  BY DEF IInv, Shown
<1>3. Adds(View, c, path, entry, at, position) /\ entry.name = name
  BY <1>1 DEF Adding
<1>4. /\ Apply(c, {}) /\ UNCHANGED <<session, original, file>> /\ edits' = edits + 1
      /\ sheets' = SheetsOf(c["workbook"], c["rels"])
      /\ ids \in [Rows -> Nat \X Nat] /\ rowIds' = With(rowIds, Single(path, ids))
      /\ UNCHANGED touched
      /\ c["workbook"] = Inserting(View["workbook"], at, entry)
  BY <1>1, BoundsAssumption DEF Adding, Rows
<1>5. WellFormed(after) /\ Listing1(after) = OneMore(listed, position, sheet)
  BY <1>3, AddedIsWellFormed
<1>6. /\ path \in SheetPaths /\ path \notin DOMAIN View
      /\ path \notin {"workbook", "rels", "types", "app", "styles", "chain", "chart"}
      /\ {"workbook", "rels", "types"} \subseteq DOMAIN View
      /\ View["workbook"] \in Workbooks /\ Indexed(View["workbook"])
  BY <1>2, <1>3, PartNames DEF Adds, WellFormed, PartsTyped
<1>7. /\ DOMAIN c = {path, "workbook", "rels", "types"} \cup ({"app"} \cap DOMAIN View)
      /\ c[path] = BlankSheet
      /\ c["rels"] = With(View["rels"], Single(entry.rid, [kind |-> "worksheet", path |-> path]))
      /\ c["types"] = With(View["types"], Single(path, "worksheet"))
      /\ entry \in Entries /\ at \in 0..Len(View["workbook"].entries)
  BY <1>3 DEF Adds, Before
<1>8. /\ DOMAIN after = DOMAIN View \cup {path}
      /\ after["workbook"] = c["workbook"] /\ after["rels"] = c["rels"] /\ after["types"] = c["types"]
      /\ after[path] = BlankSheet
      /\ \A p \in DOMAIN View : p \notin {"workbook", "rels", "types", "app"} => after[p] = View[p]
  BY <1>6, <1>7 DEF Patched
<1> HIDE DEF after
<1>9. sheets' = Listing1(after)
  BY <1>4, <1>8 DEF Listing1
<1>10. DOMAIN BlankSheet.cells = {} /\ BlankSheet.colStyle = 0
  BY DEF BlankSheet
<1>11. Styled(after)
  <2>1. "styles" \notin DOMAIN c
    BY <1>6, <1>7
  <2>2. 0 < Len(xfs)
    <3>1. xfs \in Seq(CellFormats) /\ xfs # <<>>
      BY <1>2 DEF Styled
    <3> HIDE DEF xfs
    <3>2. QED
      BY <3>1
  <2>3. \A p \in SheetPaths \cap DOMAIN c : p = path
    BY <1>7, PartNames
  <2>4. \A p \in SheetPaths \cap DOMAIN c :
          /\ c[p].colStyle < Len(StylesIn(View).xfs)
          /\ \A r \in DOMAIN c[p].cells : c[p].cells[r].style < Len(StylesIn(View).xfs)
    BY <1>7, <1>10, <2>2, <2>3
  <2>5. QED
    BY <1>2, <2>1, <2>4, StylesStay DEF after
<1>12. \A s \in ToSet(sheets') : s \in ToSet(sheets) \/ s = sheet
  <2>1. DOMAIN listed = 1..Len(listed) /\ Len(listed) \in Nat
    BY <1>2, Outline
  <2> HIDE DEF listed, sheet
  <2>2. \A j \in DOMAIN OneMore(listed, position, sheet) :
          \/ OneMore(listed, position, sheet)[j] = sheet
          \/ \E k \in DOMAIN listed : OneMore(listed, position, sheet)[j] = listed[k]
    <3> TAKE j \in DOMAIN OneMore(listed, position, sheet)
    <3>1. j \in 1..(Len(listed) + 1) /\ position \in 0..Len(listed)
      BY <1>2 DEF OneMore
    <3>2. OneMore(listed, position, sheet)[j] =
            IF j <= position THEN listed[j] ELSE IF j = position + 1 THEN sheet ELSE listed[j - 1]
      BY <3>1 DEF OneMore
    <3>3. j <= position => j \in 1..Len(listed)
      BY <2>1, <3>1
    <3>4. j > position + 1 => j - 1 \in 1..Len(listed)
      BY <2>1, <3>1
    <3>5. QED
      BY <2>1, <3>1, <3>2, <3>3, <3>4
  <2>3. QED
    BY <1>2, <1>5, <1>9, <2>2 DEF ToSet
<1>13. \A s \in ToSet(sheets') : s.path \in DOMAIN rowIds' /\ rowIds'[s.path] \in [Rows -> Nat \X Nat]
  <2> TAKE s \in ToSet(sheets')
  <2>1. /\ DOMAIN rowIds' = DOMAIN rowIds \cup {path} /\ rowIds'[path] = ids
        /\ \A p \in DOMAIN rowIds : p # path => rowIds'[p] = rowIds[p]
    BY <1>4 DEF With, Single
  <2>2. CASE s = sheet
    BY <1>4, <2>1, <2>2
  <2>3. CASE s \in ToSet(sheets)
    BY <1>2, <1>4, <2>1, <2>3
  <2>4. QED
    BY <1>12, <2>2, <2>3
<1>14. touched' /\ HoldsFormulasIn(after) => Chainless(after)
  <2> SUFFICES ASSUME touched, HoldsFormulasIn(after) PROVE Chainless(after)
    BY <1>4
  <2>1. PICK s \in ToSet(Listing1(after)) : \E r \in DOMAIN after[s.path].cells :
          after[s.path].cells[r].ref # NoRef
    BY DEF HoldsFormulasIn
  <2>2. s \in ToSet(sheets) \/ s = sheet
    BY <1>9, <1>12
  <2>3. s # sheet
    BY <1>8, <1>10, <2>1
  <2>4. s \in ToSet(listed)
    BY <1>2, <2>2, <2>3
  <2>5. s.path \in SheetPaths /\ s.path \in DOMAIN View
    BY <1>2, <2>4 DEF WellFormed, Opens, Listed, Listing1
  <2>6. after[s.path] = View[s.path]
    BY <1>8, <2>5, PartNames
  <2>7. Chainless(View)
    BY <1>2, <2>1, <2>4, <2>6 DEF HoldsFormulasIn
  <2>8. after["workbook"].fullCalc
    <3>1. Inserting(View["workbook"], at, entry).fullCalc = View["workbook"].fullCalc
      BY <1>6, <1>7, EntryInserted
    <3>2. QED
      BY <1>4, <1>8, <2>7, <3>1 DEF Chainless
  <2>9. "chain" \notin DOMAIN after
    BY <1>6, <1>8, <2>7 DEF Chainless
  <2>10. \A r \in DOMAIN after["rels"] : after["rels"][r].kind # "calcChain"
    BY <1>7, <1>8, <2>7 DEF Chainless, With, Single
  <2>11. "chain" \notin DOMAIN after["types"]
    BY <1>6, <1>7, <1>8, <2>7 DEF Chainless, With, Single
  <2>12. QED
    BY <2>8, <2>9, <2>10, <2>11 DEF Chainless
<1>15. Shown(after, sheets', rowIds', touched')
  BY <1>5, <1>9, <1>11, <1>13, <1>14 DEF Shown
<1>16. QED
  BY <1>4, <1>15, PlainEdit DEF after

-----------------------------------------------------------------------------
(* Number formats. *)

\* A cell with another style has its reference still.
LEMMA RestyledCell ==
  ASSUME NEW part, IsWorksheet(part), NEW row, NEW style \in Nat
  PROVE  /\ Restyle(part, row, style) \in Cells
         /\ Restyle(part, row, style).style = style
         /\ Restyle(part, row, style).ref
              = IF row \in DOMAIN part.cells THEN part.cells[row].ref ELSE NoRef
<1>1. CASE row \in DOMAIN part.cells
  <2> DEFINE cell == part.cells[row]
  <2>1. cell \in Cells
    BY <1>1 DEF IsWorksheet
  <2>2. Restyle(part, row, style) = [cell EXCEPT !.style = style]
    BY <1>1 DEF Restyle
  <2> HIDE DEF cell
  <2>3. [cell EXCEPT !.style = style] \in Cells /\ [cell EXCEPT !.style = style].style = style
        /\ [cell EXCEPT !.style = style].ref = cell.ref
    BY <2>1 DEF Cells
  <2>4. QED
    BY <1>1, <2>2, <2>3 DEF cell
<1>2. CASE row \notin DOMAIN part.cells
  <2> DEFINE cell == [data |-> "", ref |-> NoRef, style |-> 0]
  <2>1. "" \in Texts /\ NoRef \in References
    BY NoRefType DEF Texts
  <2>2. cell \in Cells /\ cell.ref = NoRef
    BY <2>1 DEF Cells
  <2>3. Restyle(part, row, style) = [cell EXCEPT !.style = style]
    BY <1>2 DEF Restyle
  <2> HIDE DEF cell
  <2>4. [cell EXCEPT !.style = style] \in Cells /\ [cell EXCEPT !.style = style].style = style
        /\ [cell EXCEPT !.style = style].ref = cell.ref
    BY <2>2 DEF Cells
  <2>5. QED
    BY <1>2, <2>2, <2>3, <2>4
<1>3. QED
  BY <1>1, <1>2

\* The worksheet with these rows restyled: its references are those it had.
Formatted(part, targets, first, last) ==
  [part EXCEPT !.cells = With(@, RestyledCells(part, targets, first, last))]

IsFormatted(part, after, targets, first, last) ==
  /\ IsWorksheet(after) /\ after.colStyle = part.colStyle
  /\ \A r \in Rows :
       BaseStyle(after, r) = IF r \in first..last THEN targets[BaseStyle(part, r)]
                             ELSE BaseStyle(part, r)
  /\ \A r \in DOMAIN after.cells :
       /\ after.cells[r].ref = IF r \in DOMAIN part.cells THEN part.cells[r].ref ELSE NoRef
       /\ after.cells[r].style = BaseStyle(after, r)
       /\ r \in Rows

\* The rows that are given have the targets of their styles, the others their own.
LEMMA SheetRestyled ==
  ASSUME NEW part, IsWorksheet(part), NEW first \in Rows, NEW last \in Rows, NEW targets,
         \A r \in first..last : targets[BaseStyle(part, r)] \in Nat
  PROVE  IsFormatted(part, Formatted(part, targets, first, last), targets, first, last)
<1> DEFINE new == RestyledCells(part, targets, first, last)
           after == Formatted(part, targets, first, last)
           those == {r \in first..last : targets[BaseStyle(part, r)] # BaseStyle(part, r)}
<1>1. first..last \subseteq Rows
  BY BoundsAssumption DEF Rows
<1>2. DOMAIN new = those /\ \A r \in those : new[r] = Restyle(part, r, targets[BaseStyle(part, r)])
  BY DEF RestyledCells
<1> HIDE DEF new
<1>3. \A r \in those :
        /\ new[r] \in Cells /\ new[r].style = targets[BaseStyle(part, r)]
        /\ new[r].ref = IF r \in DOMAIN part.cells THEN part.cells[r].ref ELSE NoRef
  BY <1>2, RestyledCell
<1>4. DOMAIN new \subseteq Rows /\ \A r \in DOMAIN new : new[r] \in Cells
  BY <1>1, <1>2, <1>3
<1>5. /\ IsWorksheet(after) /\ after.colStyle = part.colStyle
      /\ DOMAIN after.cells = DOMAIN part.cells \cup DOMAIN new
      /\ \A r \in DOMAIN after.cells :
           after.cells[r] = IF r \in DOMAIN new THEN new[r] ELSE part.cells[r]
  BY <1>4, CellsLaid DEF Formatted, new
<1> HIDE DEF after
<1>6. \A r \in Rows :
        BaseStyle(after, r) = IF r \in first..last THEN targets[BaseStyle(part, r)]
                              ELSE BaseStyle(part, r)
  <2> TAKE r \in Rows
  <2>1. CASE r \in those
    BY <1>2, <1>3, <1>5, <2>1 DEF BaseStyle
  <2>2. CASE r \notin those
    <3>1. BaseStyle(after, r) = BaseStyle(part, r)
      BY <1>2, <1>5, <2>2 DEF BaseStyle
    <3>2. r \in first..last => targets[BaseStyle(part, r)] = BaseStyle(part, r)
      BY <2>2
    <3>3. QED
      BY <3>1, <3>2
  <2>3. QED
    BY <2>1, <2>2
<1>7. ASSUME NEW r \in DOMAIN after.cells
      PROVE  /\ after.cells[r].ref = IF r \in DOMAIN part.cells THEN part.cells[r].ref ELSE NoRef
             /\ after.cells[r].style = BaseStyle(after, r)
             /\ r \in Rows
  <2>1. r \in Rows
    BY <1>5 DEF IsWorksheet
  <2>2. after.cells[r].style = BaseStyle(after, r)
    BY DEF BaseStyle
  <2>3. after.cells[r].ref = IF r \in DOMAIN part.cells THEN part.cells[r].ref ELSE NoRef
    BY <1>2, <1>3, <1>5
  <2>4. QED
    BY <2>1, <2>2, <2>3
<1>8. QED
  BY <1>5, <1>6, <1>7 DEF after, IsFormatted

\* The style of every row is one that there is.
LEMMA BaseStyleIsThere ==
  ASSUME NEW package, WellFormed(package), Styled(package),
         NEW path \in SheetPaths \cap DOMAIN package, NEW row
  PROVE  BaseStyle(package[path], row) \in 0..(Len(StylesIn(package).xfs) - 1)
<1> DEFINE part == package[path]
           n == Len(StylesIn(package).xfs)
<1>1. IsWorksheet(part)
  BY DEF WellFormed, PartsTyped
<1>2. /\ StylesIn(package).xfs \in Seq(CellFormats)
      /\ part.colStyle < n /\ \A r \in DOMAIN part.cells : part.cells[r].style < n
  BY DEF Styled
<1>3. n \in Nat
  <2> DEFINE xfs == StylesIn(package).xfs
  <2>1. xfs \in Seq(CellFormats)
    BY <1>2
  <2> HIDE DEF xfs
  <2>2. Len(xfs) \in Nat
    BY <2>1
  <2>3. QED
    BY <2>2 DEF xfs
<1> HIDE DEF part, n
<1>4. part.colStyle \in Nat
  BY <1>1 DEF IsWorksheet
<1>5. \A r \in DOMAIN part.cells : part.cells[r].style \in Nat
  <2>1. \A r \in DOMAIN part.cells : part.cells[r] \in Cells
    BY <1>1 DEF IsWorksheet
  <2>2. \A x \in Cells : x.style \in Nat
    BY DEF Cells
  <2>3. QED
    BY <2>1, <2>2
<1>6. BaseStyle(part, row) \in Nat /\ BaseStyle(part, row) < n
  BY <1>2, <1>4, <1>5 DEF BaseStyle, part, n
<1> DEFINE base == BaseStyle(part, row)
<1> HIDE DEF base
<1>7. base \in 0..(n - 1)
  BY <1>3, <1>6 DEF base
<1>8. QED
  BY <1>7 DEF base, part, n

\* What the edit does to the parts.
Formatting(path, first, last, code, c, link, start, plan) ==
  /\ Formats(View, c, path, link)
  /\ c[path] = Formatted(View[path], plan.targets, first, last)
  /\ c["styles"] = StylesOf(plan)
  /\ IsStyles(StylesIn(View))
  /\ Planned(StylesIn(View), code, start) /\ PlanGood(start, plan)
  /\ \A r \in first..last : BaseStyle(View[path], r) \in DOMAIN plan.targets
  /\ Apply(c, {})
  /\ UNCHANGED <<session, original, file>> /\ edits' = edits + 1
  /\ UNCHANGED <<sheets, rowIds, touched>>

\* set_number_format is a plan that visited every style of the rows.
LEMMA SetNumberFormatFormats ==
  ASSUME IInv, NEW name \in Names, NEW first \in Rows, NEW last \in Rows, first <= last,
         NEW code \in Texts, SetNumberFormat(name, first, last, code)
  PROVE  \E c, link, start, plan :
           Formatting(PathOf(name), first, last, code, c, link, start, plan)
<1> DEFINE path == PathOf(name)
           part == Part(path)
           styles == StylesIn(View)
           start == FormatPlan(styles, code)
           count == last - first + 1
           bases == [i \in 1..count |-> BaseStyle(part, first + i - 1)]
           plan == VisitAll(start, bases)
           rels == Part("rels")
           types == Part("types")
           link == Max({0} \cup DOMAIN rels) + 1
           links == With(rels, Single(link, [kind |-> "styles", path |-> "styles"]))
           typed == With(types, Single("styles", "styles"))
           linked == IF Has("styles") THEN <<>> ELSE [rels |-> links, types |-> typed]
           new == Formatted(part, plan.targets, first, last)
           c == With(With(linked, Single(path, new)), Single("styles", StylesOf(plan)))
<1>1. WellFormed(View) /\ Styled(View)
  BY DEF IInv, Shown
<1>2. /\ path \in SheetPaths \cap DOMAIN View /\ part = View[path] /\ IsWorksheet(part)
  BY NamedSheet
<1>3. {"workbook", "rels", "types"} \subseteq DOMAIN View
  BY <1>1 DEF WellFormed, PartsTyped
<1>4. /\ (Has("styles") <=> "styles" \in DOMAIN View)
      /\ rels = View["rels"] /\ types = View["types"]
  BY <1>3, ViewParts
<1>5. Styles = styles
  BY ViewParts DEF Styles, StylesIn
<1>6. /\ Apply(c, {}) /\ UNCHANGED <<session, original, file>> /\ edits' = edits + 1
      /\ UNCHANGED <<sheets, rowIds, touched>>
  BY <1>5 DEF SetNumberFormat, Edit, FormatRows, Formatted
<1>7. IsStyles(styles)
  BY <1>1 DEF Styled, IsStyles
<1> HIDE DEF styles, path, part, bases
<1>8. Planned(styles, code, start)
  BY <1>7, PlanStarts
<1> HIDE DEF start
<1>9. IsStart(start) /\ start.xfs = styles.xfs
  BY <1>8 DEF Planned
<1>10. \A r : BaseStyle(part, r) \in 0..(Len(start.xfs) - 1)
  BY <1>1, <1>2, <1>9, BaseStyleIsThere DEF styles
<1>11. count \in Nat /\ \A r \in first..last : r - first + 1 \in 1..count /\ first + (r - first + 1) - 1 = r
  BY BoundsAssumption DEF Rows
<1> HIDE DEF count
<1>12. bases \in Seq(0..(Len(start.xfs) - 1)) /\ Len(bases) = count
  <2> DEFINE D == 0..(Len(start.xfs) - 1)
  <2>1. bases \in [1..count -> D]
    BY <1>10 DEF bases
  <2> HIDE DEF D
  <2>2. bases \in Seq(D) /\ Len(bases) = count
    BY <1>11, <2>1, FunctionIsSeq
  <2>3. QED
    BY <2>2 DEF D
<1>13. PlanGood(start, plan) /\ \A i \in 1..Len(bases) : bases[i] \in DOMAIN plan.targets
  BY <1>9, <1>12, PlansVisit
<1> HIDE DEF plan
<1>14. \A r \in first..last : BaseStyle(part, r) \in DOMAIN plan.targets
  <2> TAKE r \in first..last
  <2> DEFINE i == r - first + 1
  <2>1. i \in 1..count /\ first + i - 1 = r
    BY <1>11
  <2> HIDE DEF i
  <2>2. bases[i] = BaseStyle(part, r)
    BY <2>1 DEF bases
  <2>3. bases[i] \in DOMAIN plan.targets
    BY <1>12, <1>13, <2>1
  <2>4. QED
    BY <2>2, <2>3
<1>15. \A r \in first..last : plan.targets[BaseStyle(part, r)] \in Nat
  <2>1. \A b \in DOMAIN plan.targets : plan.targets[b] \in Nat
    BY <1>13 DEF PlanGood, Found
  <2>2. QED
    BY <1>14, <2>1
<1>16. IsWorksheet(new)
  BY <1>2, <1>15, SheetRestyled DEF IsFormatted
<1>17. link \in Nat /\ link \notin DOMAIN rels
  BY <1>1, <1>4, NewLink
<1> HIDE DEF link, new
<1>18. path \notin {"workbook", "rels", "types", "app", "styles", "chain", "chart"}
  BY <1>2, PartNames
<1>19. /\ DOMAIN c = {path, "styles"} \cup (IF "styles" \in DOMAIN View THEN {} ELSE {"rels", "types"})
       /\ c[path] = new /\ c["styles"] = StylesOf(plan)
       /\ "styles" \notin DOMAIN View => c["rels"] = links /\ c["types"] = typed
  <2> DEFINE firstly == With(linked, Single(path, new))
             others == IF "styles" \in DOMAIN View THEN {} ELSE {"rels", "types"}
             made == StylesOf(plan)
  <2> HIDE DEF links, typed, made
  <2>1. /\ DOMAIN linked = others
        /\ "styles" \notin DOMAIN View => linked["rels"] = links /\ linked["types"] = typed
    BY <1>4
  <2> HIDE DEF linked
  <2>2. /\ DOMAIN firstly = others \cup {path}
        /\ firstly[path] = new
        /\ "styles" \notin DOMAIN View => firstly["rels"] = links /\ firstly["types"] = typed
    BY <1>18, <2>1 DEF With, Single
  <2> HIDE DEF firstly
  <2>3. c = With(firstly, Single("styles", made))
    BY DEF firstly, made
  <2>4. QED
    BY <1>18, <2>2, <2>3 DEF With, Single, made
<1> HIDE DEF c
<1>20. Formats(View, c, path, link)
  BY <1>1, <1>2, <1>4, <1>16, <1>17, <1>19 DEF Formats
<1>21. Formatting(path, first, last, code, c, link, start, plan)
  <2>1. c[path] = Formatted(View[path], plan.targets, first, last)
    BY <1>2, <1>19 DEF new
  <2>2. \A r \in first..last : BaseStyle(View[path], r) \in DOMAIN plan.targets
    BY <1>2, <1>14
  <2>3. c["styles"] = StylesOf(plan) /\ IsStyles(StylesIn(View)) /\ Planned(StylesIn(View), code, start)
    BY <1>7, <1>8, <1>19 DEF styles
  <2>4. QED
    BY <1>6, <1>13, <1>20, <2>1, <2>2, <2>3 DEF Formatting
<1>22. QED
  BY <1>21 DEF path

\* The styles of every row afterwards, and how it looks.
LooksFormatted(before, after, path, first, last, code) ==
  /\ DOMAIN after = DOMAIN before \cup {"styles"}
  /\ path \in SheetPaths \cap DOMAIN before
  /\ \A p \in SheetPaths \cap DOMAIN before : p # path => after[p] = before[p]
  /\ \A p \in SheetPaths \cap DOMAIN before : \A r \in Rows :
       /\ BaseStyle(after[p], r) \in 0..(Len(StylesIn(after).xfs) - 1)
       /\ Look(after[p], StylesIn(after), r) =
            IF p = path /\ r \in first..last
            THEN [Look(before[p], StylesIn(before), r) EXCEPT !.code = code]
            ELSE Look(before[p], StylesIn(before), r)

\* The plan shows in the rows that are given, and nowhere else.
LEMMA FormattedLooks ==
  ASSUME IInv, NEW path, NEW first \in Rows, NEW last \in Rows, NEW code \in Texts,
         NEW c, NEW link, NEW start, NEW plan,
         Formatting(path, first, last, code, c, link, start, plan)
  PROVE  /\ LooksFormatted(View, Patched(View, c, {}), path, first, last, code)
         /\ StylesIn(Patched(View, c, {})) = StylesOf(plan)
<1> DEFINE after == Patched(View, c, {})
           styles == StylesIn(View)
           made == StylesOf(plan)
           part == View[path]
           new == Formatted(part, plan.targets, first, last)
           n == Len(styles.xfs)
           m == Len(made.xfs)
<1>1. WellFormed(View) /\ Styled(View)
  BY DEF IInv, Shown
<1>2. /\ Formats(View, c, path, link) /\ c[path] = new /\ c["styles"] = made
      /\ IsStyles(styles) /\ Planned(styles, code, start) /\ PlanGood(start, plan)
      /\ \A r \in first..last : BaseStyle(part, r) \in DOMAIN plan.targets
  BY DEF Formatting
<1>3. /\ path \in SheetPaths \cap DOMAIN View
      /\ DOMAIN c = {path, "styles"} \cup (IF "styles" \in DOMAIN View THEN {} ELSE {"rels", "types"})
  BY <1>2 DEF Formats
<1>4. {"rels", "types"} \subseteq DOMAIN View /\ IsWorksheet(part)
  BY <1>1, <1>3 DEF WellFormed, PartsTyped
<1>5. /\ DOMAIN after = DOMAIN View \cup {"styles"}
      /\ after["styles"] = made /\ after[path] = new
      /\ \A p \in SheetPaths \cap DOMAIN View : p # path => after[p] = View[p]
  <2> HIDE DEF new, made
  <2>1. path \notin {"workbook", "rels", "types", "app", "styles", "chain", "chart"}
    BY <1>3, PartNames
  <2>2. \A p \in SheetPaths : p \notin {"rels", "types", "styles"}
    BY PartNames
  <2>3. QED
    BY <1>2, <1>3, <1>4, <2>1, <2>2 DEF Patched
<1>6. StylesIn(after) = made
  BY <1>5 DEF StylesIn
<1>7. /\ IsStyles(made) /\ n \in Nat /\ m \in Nat /\ n <= m
      /\ \A style \in 0..(n - 1) : StyleLook(made, style) = StyleLook(styles, style)
      /\ \A base \in DOMAIN plan.targets :
           /\ plan.targets[base] \in 0..(m - 1)
           /\ StyleLook(made, plan.targets[base]) = [StyleLook(styles, base) EXCEPT !.code = code]
  BY <1>2, StylesPlanned
<1> HIDE DEF made, styles, n, m
<1>8. \A r \in first..last : plan.targets[BaseStyle(part, r)] \in Nat
  <2>1. \A b \in DOMAIN plan.targets : plan.targets[b] \in Nat
    BY <1>2 DEF PlanGood, Found
  <2> HIDE DEF part
  <2>2. QED
    BY <1>2, <2>1
<1>9. \A r \in Rows :
        BaseStyle(new, r) = IF r \in first..last THEN plan.targets[BaseStyle(part, r)]
                            ELSE BaseStyle(part, r)
  <2> HIDE DEF part
  <2>1. IsFormatted(part, Formatted(part, plan.targets, first, last), plan.targets, first, last)
    BY <1>4, <1>8, SheetRestyled
  <2>2. QED
    BY <2>1 DEF IsFormatted
<1>10. \A p \in SheetPaths \cap DOMAIN View : \A r : BaseStyle(View[p], r) \in 0..(n - 1)
  BY <1>1, BaseStyleIsThere DEF n, styles
<1> HIDE DEF after, new
<1>11. ASSUME NEW p \in SheetPaths \cap DOMAIN View, NEW r \in Rows
       PROVE  /\ BaseStyle(after[p], r) \in 0..(m - 1)
              /\ Look(after[p], made, r) =
                   IF p = path /\ r \in first..last
                   THEN [Look(View[p], styles, r) EXCEPT !.code = code]
                   ELSE Look(View[p], styles, r)
  <2> DEFINE base == BaseStyle(View[p], r)
  <2>1. base \in 0..(n - 1) /\ base \in 0..(m - 1)
    <3>1. base \in 0..(n - 1)
      BY <1>10
    <3> HIDE DEF base
    <3>2. QED
      BY <1>7, <3>1
  <2>2. CASE p = path /\ r \in first..last
    <3>1. BaseStyle(after[p], r) = plan.targets[base]
      BY <1>5, <1>9, <2>2
    <3>2. base \in DOMAIN plan.targets
      BY <1>2, <2>2
    <3> HIDE DEF base
    <3>3. plan.targets[base] \in 0..(m - 1)
          /\ StyleLook(made, plan.targets[base]) = [StyleLook(styles, base) EXCEPT !.code = code]
      BY <1>7, <3>2
    <3>4. Look(after[p], made, r) = StyleLook(made, plan.targets[base])
      BY <3>1 DEF Look
    <3>5. Look(View[p], styles, r) = StyleLook(styles, base)
      BY DEF Look, base
    <3>6. QED
      BY <2>2, <3>1, <3>3, <3>4, <3>5
  <2>3. CASE ~(p = path /\ r \in first..last)
    <3>1. BaseStyle(after[p], r) = base
      BY <1>5, <1>9, <2>3
    <3> HIDE DEF base
    <3>2. StyleLook(made, base) = StyleLook(styles, base)
      BY <1>7, <2>1
    <3>3. Look(after[p], made, r) = StyleLook(made, base)
      BY <3>1 DEF Look
    <3>4. Look(View[p], styles, r) = StyleLook(styles, base)
      BY DEF Look, base
    <3>5. QED
      BY <2>1, <2>3, <3>1, <3>2, <3>3, <3>4
  <2>4. QED
    BY <2>2, <2>3
<1>12. QED
  BY <1>3, <1>5, <1>6, <1>11 DEF after, made, styles, m, LooksFormatted

\* Rows get a number format.
LEMMA SetNumberFormatKeeps ==
  ASSUME IInv, NEW name \in Names, NEW first \in Rows, NEW last \in Rows, first <= last,
         NEW code \in Texts, SetNumberFormat(name, first, last, code)
  PROVE  IInv'
<1> DEFINE path == PathOf(name)
<1>1. PICK c, link, start, plan : Formatting(path, first, last, code, c, link, start, plan)
  BY SetNumberFormatFormats
<1> HIDE DEF path
<1> DEFINE after == Patched(View, c, {})
           part == View[path]
           new == Formatted(part, plan.targets, first, last)
           made == StylesOf(plan)
           listed == Listing1(View)
<1>2. /\ WellFormed(View) /\ Styled(View) /\ sheets = listed
      /\ \A s \in ToSet(sheets) : s.path \in DOMAIN rowIds /\ rowIds[s.path] \in [Rows -> Nat \X Nat]
      /\ touched /\ HoldsFormulasIn(View) => Chainless(View)
  BY DEF IInv, Shown
<1>3. /\ Formats(View, c, path, link) /\ c[path] = new /\ c["styles"] = made
      /\ IsStyles(StylesIn(View)) /\ Planned(StylesIn(View), code, start) /\ PlanGood(start, plan)
      /\ \A r \in first..last : BaseStyle(part, r) \in DOMAIN plan.targets
      /\ Apply(c, {}) /\ UNCHANGED <<session, original, file>> /\ edits' = edits + 1
      /\ UNCHANGED <<sheets, rowIds, touched>>
  BY <1>1 DEF Formatting
<1>4. WellFormed(after) /\ Listing1(after) = listed
  BY <1>3, FormattedIsWellFormed
<1>5. /\ StylesIn(after) = made
      /\ DOMAIN after = DOMAIN View \cup {"styles"}
      /\ path \in SheetPaths \cap DOMAIN View
      /\ \A p \in SheetPaths \cap DOMAIN View : p # path => after[p] = View[p]
      /\ \A p \in SheetPaths \cap DOMAIN View : \A r \in Rows : BaseStyle(after[p], r) \in 0..(Len(made.xfs) - 1)
  <2>1. LooksFormatted(View, after, path, first, last, code) /\ StylesIn(after) = made
    BY <1>1, FormattedLooks
  <2>2. QED
    BY <2>1 DEF LooksFormatted
<1>6. IsStyles(made)
  BY <1>3, StylesPlanned
<1>7. /\ {"workbook", "rels", "types"} \subseteq DOMAIN View /\ IsWorksheet(part)
      /\ DOMAIN c = {path, "styles"} \cup (IF "styles" \in DOMAIN View THEN {} ELSE {"rels", "types"})
      /\ path \notin {"workbook", "rels", "types", "app", "styles", "chain", "chart"}
  BY <1>2, <1>3, <1>5, PartNames DEF WellFormed, PartsTyped, Formats
<1>8. after[path] = new /\ after["workbook"] = View["workbook"]
  <2> HIDE DEF new, made
  <2>1. QED
    BY <1>3, <1>5, <1>7 DEF Patched
<1>9. /\ "styles" \in DOMAIN View => after["rels"] = View["rels"] /\ after["types"] = View["types"]
      /\ "styles" \notin DOMAIN View => after["rels"] = c["rels"] /\ after["types"] = c["types"]
  <2> HIDE DEF new, made
  <2>1. QED
    BY <1>3, <1>7 DEF Patched
<1> HIDE DEF made
<1>10. /\ IsWorksheet(new) /\ new.colStyle = part.colStyle
       /\ \A r \in DOMAIN new.cells :
            /\ new.cells[r].ref # NoRef => r \in DOMAIN part.cells /\ part.cells[r].ref # NoRef
            /\ new.cells[r].style = BaseStyle(new, r)
            /\ r \in Rows
  <2>1. \A r \in first..last : plan.targets[BaseStyle(part, r)] \in Nat
    <3>1. \A b \in DOMAIN plan.targets : plan.targets[b] \in Nat
      BY <1>3 DEF PlanGood, Found
    <3>2. QED
      BY <1>3, <3>1
  <2> HIDE DEF part
  <2>2. IsFormatted(part, Formatted(part, plan.targets, first, last), plan.targets, first, last)
    BY <1>7, <2>1, SheetRestyled
  <2>3. QED
    BY <2>2 DEF IsFormatted
<1> HIDE DEF after, new
<1>11. Styled(after)
  <2> DEFINE n == Len(made.xfs)
  <2>1. Len(StylesIn(View).xfs) \in Nat /\ n \in Nat /\ Len(StylesIn(View).xfs) <= n
    BY <1>3, StylesPlanned DEF made
  <2> HIDE DEF n
  <2>2. ASSUME NEW p \in SheetPaths \cap DOMAIN after
        PROVE  /\ after[p].colStyle < n
               /\ \A r \in DOMAIN after[p].cells : after[p].cells[r].style < n
    <3>1. p \in SheetPaths \cap DOMAIN View
      BY <1>5, PartNames
    <3>2. /\ View[p].colStyle < Len(StylesIn(View).xfs)
          /\ \A r \in DOMAIN View[p].cells : View[p].cells[r].style < Len(StylesIn(View).xfs)
      BY <1>2, <3>1 DEF Styled
    <3>3. IsWorksheet(View[p])
      BY <1>2, <3>1 DEF WellFormed, PartsTyped
    <3>4. View[p].colStyle \in Nat /\ \A r \in DOMAIN View[p].cells : View[p].cells[r].style \in Nat
      <4>1. \A x \in Cells : x.style \in Nat
        BY DEF Cells
      <4>2. QED
        BY <3>3, <4>1 DEF IsWorksheet
    <3>5. View[p].colStyle < n /\ \A r \in DOMAIN View[p].cells : View[p].cells[r].style < n
      BY <2>1, <3>2, <3>4
    <3>6. CASE p # path
      BY <1>5, <3>1, <3>5, <3>6
    <3>7. CASE p = path
      <4>1. after[p] = new /\ new.colStyle < n
        BY <1>8, <1>10, <3>5, <3>7
      <4>2. ASSUME NEW r \in DOMAIN new.cells PROVE new.cells[r].style < n
        <5>1. BaseStyle(new, r) \in 0..(n - 1)
          BY <1>5, <1>8, <1>10 DEF n
        <5> DEFINE x == BaseStyle(new, r)
        <5> HIDE DEF x
        <5>2. x < n
          BY <2>1, <5>1 DEF x
        <5>3. QED
          BY <1>10, <5>2 DEF x
      <4>3. QED
        BY <4>1, <4>2
    <3>8. QED
      BY <3>6, <3>7
  <2>3. QED
    BY <1>5, <1>6, <2>2 DEF Styled, IsStyles, n
<1>12. touched /\ HoldsFormulasIn(after) => Chainless(after)
  <2> SUFFICES ASSUME touched, HoldsFormulasIn(after) PROVE Chainless(after)
    OBVIOUS
  <2>1. PICK s \in ToSet(listed) : \E r \in DOMAIN after[s.path].cells :
          after[s.path].cells[r].ref # NoRef
    BY <1>4 DEF HoldsFormulasIn
  <2>2. s.path \in SheetPaths \cap DOMAIN View
    BY <1>2 DEF WellFormed, Opens, Listed, Listing1
  <2>3. \E r \in DOMAIN View[s.path].cells : View[s.path].cells[r].ref # NoRef
    BY <1>5, <1>8, <1>10, <2>1, <2>2
  <2>4. Chainless(View)
    BY <1>2, <2>3 DEF HoldsFormulasIn
  <2>5. CASE "styles" \in DOMAIN View
    BY <1>5, <1>8, <1>9, <2>4, <2>5 DEF Chainless
  <2>6. CASE "styles" \notin DOMAIN View
    <3>1. /\ after["rels"] = With(View["rels"], Single(link, [kind |-> "styles", path |-> "styles"]))
          /\ after["types"] = With(View["types"], Single("styles", "styles"))
      BY <1>3, <1>9, <2>6 DEF Formats
    <3>2. \A r \in DOMAIN after["rels"] : after["rels"][r].kind # "calcChain"
      BY <2>4, <3>1 DEF Chainless, With, Single
    <3>3. "chain" \notin DOMAIN after["types"]
      BY <2>4, <3>1 DEF Chainless, With, Single
    <3>4. after["workbook"].fullCalc /\ "chain" \notin DOMAIN after
      BY <1>5, <1>8, <2>4 DEF Chainless
    <3>5. QED
      BY <3>2, <3>3, <3>4 DEF Chainless
  <2>7. QED
    BY <2>5, <2>6
<1>13. Shown(after, sheets', rowIds', touched')
  <2>1. \A s \in ToSet(sheets') : s.path \in DOMAIN rowIds' /\ rowIds'[s.path] \in [Rows -> Nat \X Nat]
    BY <1>2, <1>3
  <2>2. sheets' = Listing1(after)
    BY <1>2, <1>3, <1>4
  <2>3. touched' /\ HoldsFormulasIn(after) => Chainless(after)
    BY <1>3, <1>12
  <2>4. QED
    BY <1>4, <1>11, <2>1, <2>2, <2>3 DEF Shown
<1>14. QED
  BY <1>3, <1>13, PlainEdit DEF after

-----------------------------------------------------------------------------
(* Saves, new sessions and every step. *)

\* A save writes what the session shows, edited or not.
LEMMA SavedIsShown ==
  ASSUME IInv
  PROVE  ToBytes = View
<1>1. CASE dirty
  BY <1>1 DEF ToBytes, View
<1>2. CASE ~dirty
  <2>1. changed = <<>> /\ removed = {} /\ original = [p \in DOMAIN original |-> original[p]]
    BY <1>2 DEF IInv
  <2>2. DOMAIN changed = {}
    BY <2>1
  <2>3. View = [p \in DOMAIN original |-> original[p]]
    BY <2>1, <2>2 DEF View, Part
  <2>4. QED
    BY <1>2, <2>1, <2>3 DEF ToBytes
<1>3. QED
  BY <1>1, <1>2 DEF IInv

\* The session is saved.
LEMMA SaveKeeps ==
  ASSUME IInv, Save
  PROVE  IInv'
<1>1. Shown(View, sheets, rowIds, touched) /\ sheets = Listing1(View)
  BY DEF IInv, Shown
<1>2. file' = [package |-> View, rowIds |-> rowIds, touched |-> touched]
      /\ UNCHANGED <<session, original, changed, removed, sheets, dirty, rowIds, touched, edits>>
  BY SavedIsShown DEF Save
<1>3. View' = View
  BY <1>2 DEF View, Part
<1>4. file'.package = View /\ file'.rowIds = rowIds /\ file'.touched = touched
  BY <1>2
<1>5. Shown(file'.package, Listing1(file'.package), file'.rowIds, file'.touched)
  BY <1>1, <1>4
<1>6. QED
  BY <1>1, <1>2, <1>3, <1>5 DEF IInv

\* What was read is what a session shows that has changed nothing.
LEMMA NothingChanged ==
  ASSUME NEW package, WellFormed(package),
         original' = package, changed' = <<>>, removed' = {}
  PROVE  View' = package /\ package = [p \in DOMAIN package |-> package[p]]
<1>1. package = [p \in DOMAIN package |-> package[p]]
  BY DEF WellFormed, PartsTyped
<1>2. DOMAIN changed' = {}
  OBVIOUS
<1>3. View' = [p \in DOMAIN package |-> package[p]]
  BY <1>2 DEF View, Part
<1>4. QED
  BY <1>1, <1>3

\* A new session opens the file.
LEMMA OpenKeeps ==
  ASSUME IInv, Open
  PROVE  IInv'
<1> DEFINE package == file.package
<1>1. Shown(package, Listing1(package), file.rowIds, file.touched)
  BY DEF IInv
<1>2. /\ original' = package /\ changed' = <<>> /\ removed' = {}
      /\ sheets' = Listing1(package) /\ dirty' = FALSE
      /\ rowIds' = file.rowIds /\ touched' = file.touched
      /\ UNCHANGED <<session, file, edits>>
  BY DEF Open, Listing1
<1> HIDE DEF package
<1>3. View' = package /\ package = [p \in DOMAIN package |-> package[p]]
  BY <1>1, <1>2, NothingChanged DEF Shown
<1>4. Shown(View', sheets', rowIds', touched')
  BY <1>1, <1>2, <1>3
<1>5. Shown(file'.package, Listing1(file'.package), file'.rowIds, file'.touched)
  BY <1>2 DEF IInv
<1>6. QED
  BY <1>2, <1>3, <1>4, <1>5 DEF IInv

\* Nothing happens.
LEMMA UnchangedKeeps ==
  ASSUME IInv, UNCHANGED vars
  PROVE  IInv'
BY DEF IInv, vars, View, Part

\* The worksheets have names.
LEMMA NamesAreNames ==
  ASSUME IInv
  PROVE  Names \subseteq SheetNames
<1>1. WellFormed(View) /\ sheets = Listing1(View)
  BY DEF IInv, Shown
<1> SUFFICES ASSUME NEW s \in ToSet(sheets) PROVE s.name \in SheetNames
  BY DEF Names
<1> DEFINE e == View["workbook"].entries
           rels == View["rels"]
<1>2. /\ e \in Seq(Entries)
      /\ DOMAIN sheets = 1..Len(sheets)
      /\ \A j \in 1..Len(sheets) : \E i \in Positions(e, rels) : sheets[j] = SheetOf(e, rels, i)
  BY <1>1, Outline
<1>3. PICK i \in Positions(e, rels) : s = SheetOf(e, rels, i)
  BY <1>2 DEF ToSet
<1>4. i \in 1..Len(e) /\ e[i] \in Entries
  BY <1>2, <1>3 DEF Positions
<1>5. QED
  BY <1>3, <1>4 DEF SheetOf, Entries

\* The rows of a worksheet are numbers.
LEMMA RowsAreNumbers == \A row \in Rows : row \in Int
BY BoundsAssumption DEF Rows

\* The reference that a formula is written with.
LEMMA RefToType ==
  ASSUME IInv, NEW to \in Names \cup {""}, NEW name \in Names, NEW row \in Rows
  PROVE  RefTo(to, name, row) \in References
<1>2. row \in Int
  BY RowsAreNumbers
<1>3. to \in Texts
  BY NamesAreNames DEF Texts
<1> DEFINE target == IF to = "" THEN name ELSE to
           path == PathOf(target)
           id == rowIds[path][row]
           at == <<path, id>>
<1>4. target \in Names
  OBVIOUS
<1> HIDE DEF target
<1>5. path \in SheetPaths /\ rowIds[path] \in [Rows -> Nat \X Nat]
  BY <1>4, NamedSheet
<1>6. id \in Nat \X Nat
  BY <1>5
<1> HIDE DEF path, id
<1>7. at \in SheetPaths \X (Nat \X Nat)
  BY <1>5, <1>6
<1>8. at \in {<<>>} \cup (SheetPaths \X (Nat \X Nat))
  BY <1>7
<1>9. RefTo(to, name, row) = [sheet |-> to, row |-> row, at |-> at]
  BY Zenon DEF RefTo, path, id, target, at
<1> HIDE DEF at
<1>10. [sheet |-> to, row |-> row, at |-> at] \in References
  BY <1>2, <1>3, <1>8 DEF References
<1>11. QED
  BY <1>9, <1>10

\* What sessions are given.
LEMMA SessionInputs ==
  ASSUME IInv
  PROVE  /\ session.rows \subseteq Rows /\ session.data \subseteq Texts
         /\ session.names \subseteq SheetNames /\ session.codes \subseteq Texts
BY SessionsAssumption DEF IInv

\* Every step keeps the invariant.
LEMMA NextKeeps ==
  ASSUME IInv, [Next]_vars
  PROVE  IInv'
<1>1. /\ session.rows \subseteq Rows /\ session.data \subseteq Texts
      /\ session.names \subseteq SheetNames /\ session.codes \subseteq Texts
  BY SessionInputs
<1>2. ASSUME NEW name \in Names, NEW row \in session.rows, NEW data \in session.data,
             WriteCell(name, row, data, NoRef)
      PROVE  IInv'
  BY <1>1, <1>2, NoRefType, WriteCellKeeps
<1>3. ASSUME NEW name \in Names, NEW row \in session.rows, NEW to \in Names \cup {""},
             NEW target \in session.rows, WriteCell(name, row, "", RefTo(to, name, target))
      PROVE  IInv'
  <2>1. RefTo(to, name, target) \in References
    BY <1>1, RefToType
  <2>2. row \in Rows /\ "" \in Texts
    BY <1>1 DEF Texts
  <2>3. QED
    BY <1>3, <2>1, <2>2, WriteCellKeeps
<1>4. ASSUME NEW name \in Names, NEW row \in session.rows, NEW count \in 1..2, NEW delete \in BOOLEAN,
             AxisShift(name, Plan(row, count, delete))
      PROVE  IInv'
  <2>1. row \in Rows
    BY <1>1
  <2>2. QED
    BY <1>4, <2>1, AxisShiftKeeps
<1>5. ASSUME NEW name \in Names, NEW row \in session.rows, NEW last \in session.rows,
             NEW code \in session.codes, last >= row, SetNumberFormat(name, row, last, code)
      PROVE  IInv'
  <2>1. row \in Rows /\ last \in Rows /\ row <= last /\ code \in Texts
    BY <1>1, <1>5, BoundsAssumption DEF Rows
  <2>2. QED
    BY <1>5, <2>1, SetNumberFormatKeeps
<1>6. ASSUME NEW name \in Names, NEW new \in session.names, RenameSheet(name, new)
      PROVE  IInv'
  BY <1>1, <1>6, RenameKeeps
<1>7. ASSUME NEW new \in session.names, NEW position \in 0..Len(sheets), AddSheet(new, position)
      PROVE  IInv'
  BY <1>1, <1>7, AddSheetKeeps
<1>8. QED
  BY <1>2, <1>3, <1>4, <1>5, <1>6, <1>7, SaveKeeps, OpenKeeps, UnchangedKeeps DEF Next

\* A session starts with the package as it was read.
LEMMA InitShows ==
  ASSUME Init
  PROVE  IInv
<1>1. session \in Sessions /\ original = session.package /\ changed = <<>> /\ removed = {}
      /\ sheets = Listing1(original) /\ dirty = FALSE
      /\ rowIds = [p \in {s.path : s \in ToSet(sheets)} |-> [r \in Rows |-> <<0, r>>]]
      /\ touched = FALSE /\ edits = 0
      /\ file = [package |-> original, rowIds |-> rowIds, touched |-> FALSE]
  BY DEF Init, Listing1, FirstIds
<1>2. WellFormed(original) /\ Styled(original)
  BY <1>1, SessionsAssumption
<1>3. original = [p \in DOMAIN original |-> original[p]]
  BY <1>2 DEF WellFormed, PartsTyped
<1>4. View = original
  <2>1. DOMAIN changed = {}
    BY <1>1
  <2>2. View = [p \in DOMAIN original |-> original[p]]
    BY <1>1, <2>1 DEF View, Part
  <2>3. QED
    BY <1>3, <2>2
<1>5. \A s \in ToSet(sheets) : s.path \in DOMAIN rowIds /\ rowIds[s.path] \in [Rows -> Nat \X Nat]
  <2> DEFINE ids == [r \in Rows |-> <<0, r>>]
  <2>1. ids \in [Rows -> Nat \X Nat]
    BY BoundsAssumption DEF Rows
  <2> HIDE DEF ids
  <2>2. \A s \in ToSet(sheets) : s.path \in DOMAIN rowIds /\ rowIds[s.path] = ids
    BY <1>1 DEF ids
  <2>3. QED
    BY <2>1, <2>2
<1>6. Shown(original, sheets, rowIds, FALSE)
  BY <1>1, <1>2, <1>5 DEF Shown
<1>7. file.package = original /\ file.rowIds = rowIds /\ file.touched = FALSE
  BY <1>1
<1>8. Shown(file.package, Listing1(file.package), file.rowIds, file.touched)
  BY <1>1, <1>6, <1>7
<1>9. QED
  BY <1>1, <1>3, <1>4, <1>6, <1>8 DEF IInv

-----------------------------------------------------------------------------
(* The theorems. *)

\* Whatever is edited, saved and opened again, the package is well formed and
\* its worksheets are those that the session lists.
THEOREM PackageStaysWhole == Spec => []IInv
<1>1. Init => IInv
  BY InitShows
<1>2. IInv /\ [Next]_vars => IInv'
  BY NextKeeps
<1>3. QED
  BY <1>1, <1>2, PTL DEF Spec

\* What a save would write, and what the last one wrote, a new session opens
\* with the worksheets and the parts that this one shows.
THEOREM SavesReopen == Spec => []Reopens
<1>1. ASSUME IInv PROVE Reopens
  <2>1. /\ WellFormed(View) /\ sheets = Listing1(View) /\ WellFormed(file.package)
    BY <1>1 DEF IInv, Shown
  <2>2. ToBytes = View
    BY <1>1, SavedIsShown
  <2>3. Opens(View) /\ Opens(file.package)
    BY <2>1 DEF WellFormed
  <2>4. SheetsOf(View["workbook"], View["rels"]) = sheets
    BY <2>1 DEF Listing1
  <2>5. \A path \in DOMAIN View : Has(path) /\ View[path] = Part(path)
    BY ViewParts
  <2>6. QED
    BY <2>2, <2>3, <2>4, <2>5 DEF Reopens
<1>2. QED
  BY <1>1, PackageStaysWhole, PTL

\* Every relationship and every content type is of a part that is there, every
\* worksheet has its content type, and the document properties list them.
THEOREM PackageStaysClosed == Spec => []PackageClosed
<1>1. ASSUME IInv PROVE PackageClosed
  <2> DEFINE rels == View["rels"]
             types == View["types"]
  <2>1. WellFormed(View) /\ sheets = Listing1(View)
    BY <1>1 DEF IInv, Shown
  <2>2. {"workbook", "rels", "types"} \subseteq DOMAIN View
    BY <2>1 DEF WellFormed, PartsTyped
  <2>3. Part("rels") = rels /\ Part("types") = types
    BY <2>2, ViewParts
  <2>4. \A r \in DOMAIN rels : rels[r].path \in DOMAIN View
    BY <2>1 DEF WellFormed, Linked
  <2>5. DOMAIN types \subseteq DOMAIN View /\ SheetPaths \cap DOMAIN View \subseteq DOMAIN types
    BY <2>1 DEF WellFormed, Linked
  <2>6. \A s \in ToSet(sheets) : s.path \in SheetPaths \cap DOMAIN View
    BY <2>1 DEF WellFormed, Opens, Listed, Listing1
  <2>7. "app" \in DOMAIN View => View["app"] = [i \in DOMAIN sheets |-> sheets[i].name]
    BY <2>1 DEF WellFormed, Listed, Listing1
  <2> HIDE DEF rels, types
  <2>8. Has("app") => Part("app") = [i \in DOMAIN sheets |-> sheets[i].name]
    BY <2>7, ViewParts
  <2>9. QED
    BY <2>3, <2>4, <2>5, <2>6, <2>8, ViewParts DEF PackageClosed
<1>2. QED
  BY <1>1, PackageStaysWhole, PTL

\* A workbook with formulas that was edited is recalculated when it is opened,
\* and nothing is left of its calculation chain.
THEOREM EditsAreRecalculated == Spec => []ResultsRecalculated
<1>1. ASSUME IInv PROVE ResultsRecalculated
  <2>1. /\ WellFormed(View) /\ sheets = Listing1(View)
        /\ touched /\ HoldsFormulasIn(View) => Chainless(View)
    BY <1>1 DEF IInv, Shown
  <2>2. {"workbook", "rels", "types"} \subseteq DOMAIN View
    BY <2>1 DEF WellFormed, PartsTyped
  <2>3. /\ Part("workbook") = View["workbook"] /\ Part("rels") = View["rels"]
        /\ Part("types") = View["types"]
    BY <2>2, ViewParts
  <2>4. \A s \in ToSet(sheets) : Part(s.path) = View[s.path]
    <3>1. \A s \in ToSet(sheets) : s.path \in DOMAIN View
      BY <2>1 DEF WellFormed, Opens, Listing1
    <3>2. QED
      BY <3>1, ViewParts
  <2>5. HoldsFormulas => HoldsFormulasIn(View)
    BY <2>1, <2>4 DEF HoldsFormulas, HoldsFormulasIn
  <2>6. Chainless(View) => /\ Part("workbook").fullCalc
                           /\ ~Has("chain")
                           /\ \A r \in DOMAIN Part("rels") : Part("rels")[r].kind # "calcChain"
                           /\ "chain" \notin DOMAIN Part("types")
    BY <2>3, ViewParts DEF Chainless
  <2>7. QED
    BY <2>1, <2>5, <2>6 DEF ResultsRecalculated
<1>2. QED
  BY <1>1, PackageStaysWhole, PTL

\* The parts of the package afterwards.
LEMMA PartsAfter ==
  /\ \A p : Has(p)' <=> p \in DOMAIN View'
  /\ \A p \in DOMAIN View' : Part(p)' = View'[p]
BY DEF View, Has

\* An entry more moves the indexes that the entries after it have.
LEMMA AddSheetShifts ==
  ASSUME IInv, NEW name \in SheetNames, NEW position \in 0..Len(sheets), AddSheet(name, position)
  PROVE  LET before == Part("workbook")  after == Part("workbook")'
         IN /\ after.entries[after.active + 1].rid = before.entries[before.active + 1].rid
            /\ \A i \in DOMAIN before.names :
                 before.names[i].scope >= 0 =>
                   after.entries[after.names[i].scope + 1].rid
                     = before.entries[before.names[i].scope + 1].rid
<1>1. PICK c, path, entry, at, ids : Adding(name, position, c, path, entry, at, ids)
  BY AddSheetAdds
<1> DEFINE before == View["workbook"]
           after == c["workbook"]
           e == before.entries
           d == after.entries
<1>2. /\ Adds(View, c, path, entry, at, position) /\ after = Inserting(before, at, entry)
      /\ Apply(c, {}) /\ original' = original
  BY <1>1 DEF Adding
<1>3. /\ WellFormed(View) /\ entry \in Entries /\ at \in 0..Len(e) /\ "workbook" \in DOMAIN c
  BY <1>2 DEF Adds, Before
<1>4. before \in Workbooks /\ Indexed(before) /\ "workbook" \in DOMAIN View
  BY <1>3 DEF WellFormed, PartsTyped
<1>5. Part("workbook") = before
  BY <1>4, ViewParts
<1>6. Part("workbook")' = after
  <2>1. View' = Patched(View, c, {})
    BY <1>2, ViewAfterApply
  <2>2. "workbook" \in DOMAIN View' /\ View'["workbook"] = after
    BY <1>3, <2>1 DEF Patched
  <2>3. QED
    BY <2>2, PartsAfter
<1> HIDE DEF before, after
<1>7. /\ e \in Seq(Entries) /\ Len(e) \in Nat /\ DOMAIN e = 1..Len(e)
      /\ before.active \in Nat /\ before.active < Len(e)
      /\ \A i \in DOMAIN before.names : before.names[i].scope \in (-1)..(Len(e) - 1)
  BY <1>4 DEF Workbooks, Indexed
<1>8. /\ d = InsertAt(e, at + 1, entry)
      /\ after.active = IF before.active >= at THEN before.active + 1 ELSE before.active
      /\ DOMAIN after.names = DOMAIN before.names
      /\ \A i \in DOMAIN before.names :
           after.names[i].scope = IF before.names[i].scope >= at
                                  THEN before.names[i].scope + 1 ELSE before.names[i].scope
  BY <1>2, <1>3, <1>4, EntryInserted
<1> HIDE DEF e, d
<1>9. \A j \in 1..(Len(e) + 1) :
        d[j] = IF j < at + 1 THEN e[j] ELSE IF j = at + 1 THEN entry ELSE e[j - 1]
  <2>1. e \in Seq(Entries)
    BY <1>7
  <2>2. entry \in Entries
    BY <1>3
  <2>3. at \in 0..Len(e)
    BY <1>3
  <2>4. d = InsertAt(e, at + 1, entry)
    BY <1>8
  <2>5. HasInserted(d, e, at, entry)
    BY <2>1, <2>2, <2>3, <2>4, InsertedThere
  <2>6. QED
    BY <2>5 DEF HasInserted
<1>10. ASSUME NEW i \in 0..(Len(e) - 1)
       PROVE  d[(IF i >= at THEN i + 1 ELSE i) + 1] = e[i + 1]
  <2>1. CASE i >= at
    <3>1. (i + 1) + 1 \in 1..(Len(e) + 1) /\ ~((i + 1) + 1 < at + 1) /\ (i + 1) + 1 # at + 1
          /\ ((i + 1) + 1) - 1 = i + 1
      BY <1>3, <1>7, <2>1
    <3>2. d[(i + 1) + 1] = e[((i + 1) + 1) - 1]
      BY <1>9, <3>1
    <3>3. QED
      BY <2>1, <3>1, <3>2
  <2>2. CASE ~(i >= at)
    BY <1>3, <1>7, <1>9, <2>2
  <2>3. QED
    BY <2>1, <2>2
<1>11. d[after.active + 1] = e[before.active + 1]
  BY <1>7, <1>8, <1>10
<1>12. \A i \in DOMAIN before.names :
         before.names[i].scope >= 0 => d[after.names[i].scope + 1] = e[before.names[i].scope + 1]
  <2> SUFFICES ASSUME NEW i \in DOMAIN before.names, before.names[i].scope >= 0
               PROVE  d[after.names[i].scope + 1] = e[before.names[i].scope + 1]
    OBVIOUS
  <2> DEFINE was == before.names[i].scope
             now == after.names[i].scope
  <2>1. was \in (-1)..(Len(e) - 1) /\ was >= 0
    BY <1>7
  <2>2. now = IF was >= at THEN was + 1 ELSE was
    BY <1>8
  <2> HIDE DEF was, now
  <2>3. was \in 0..(Len(e) - 1)
    BY <1>7, <2>1
  <2>4. QED
    BY <1>10, <2>2, <2>3 DEF was, now
<1>13. QED
  BY <1>5, <1>6, <1>11, <1>12 DEF d, e

\* Adding a sheet leaves every scoped name with its sheet, and the active tab
\* the same sheet.
THEOREM AddedSheetsMoveIndexes == Spec => IndexesFollowSheets
<1>1. ASSUME IInv, NEW name \in session.names, NEW position \in 0..Len(sheets), AddSheet(name, position)
      PROVE  LET before == Part("workbook")  after == Part("workbook")'
             IN /\ after.entries[after.active + 1].rid = before.entries[before.active + 1].rid
                /\ \A i \in DOMAIN before.names :
                     before.names[i].scope >= 0 =>
                       after.entries[after.names[i].scope + 1].rid
                         = before.entries[before.names[i].scope + 1].rid
  <2>1. name \in SheetNames
    BY <1>1, SessionInputs
  <2>2. QED
    BY <1>1, <2>1, AddSheetShifts
<1>2. IInv => [\A name \in session.names, position \in 0..Len(sheets) : AddSheet(name, position) =>
                 LET before == Part("workbook")  after == Part("workbook")'
                 IN /\ after.entries[after.active + 1].rid = before.entries[before.active + 1].rid
                    /\ \A i \in DOMAIN before.names :
                         before.names[i].scope >= 0 =>
                           after.entries[after.names[i].scope + 1].rid
                             = before.entries[before.names[i].scope + 1].rid]_vars
  BY <1>1
<1>3. QED
  BY <1>2, PackageStaysWhole, PTL DEF IndexesFollowSheets

\* A worksheet is the one of this name when it is the one at its path.
LEMMA SheetsAreTheirPaths ==
  ASSUME IInv, NEW name \in Names, NEW s \in ToSet(sheets)
  PROVE  s.name = name <=> s.path = PathOf(name)
<1> DEFINE n == Len(sheets)
<1>1. WellFormed(View) /\ sheets = Listing1(View)
  BY DEF IInv, Shown
<1>2. /\ DOMAIN sheets = 1..n
      /\ \A j, k \in 1..n : PathKey(sheets[j].path) = PathKey(sheets[k].path) => j = k
  BY <1>1, Outline
<1>3. \A j, k \in 1..n : NameKey(sheets[j].name) = NameKey(sheets[k].name) => j = k
  BY <1>1, ListedNamesDiffer
<1> DEFINE t == CHOOSE x \in ToSet(sheets) : x.name = name
<1>4. t \in ToSet(sheets) /\ t.name = name /\ PathOf(name) = t.path
  BY DEF Names, PathOf
<1> HIDE DEF t, n
<1>5. PICK j \in 1..n : s = sheets[j]
  BY <1>2 DEF ToSet
<1>6. PICK k \in 1..n : t = sheets[k]
  BY <1>2, <1>4 DEF ToSet
<1>7. QED
  BY <1>2, <1>3, <1>4, <1>5, <1>6

\* A number format changes the code of these rows and no other look.
LEMMA SetNumberFormatLooks ==
  ASSUME IInv, NEW name \in Names, NEW first \in Rows, NEW last \in Rows, first <= last,
         NEW code \in Texts, SetNumberFormat(name, first, last, code),
         NEW s \in ToSet(sheets), NEW r \in Rows
  PROVE  Look(Part(s.path)', Styles', r) =
           IF s.name = name /\ r \in first..last
           THEN [Look(Part(s.path), Styles, r) EXCEPT !.code = code]
           ELSE Look(Part(s.path), Styles, r)
<1> DEFINE path == PathOf(name)
           p == s.path
<1>1. PICK c, link, start, plan : Formatting(path, first, last, code, c, link, start, plan)
  BY SetNumberFormatFormats
<1>2. s.name = name <=> p = path
  BY SheetsAreTheirPaths
<1>3. p \in SheetPaths \cap DOMAIN View
  BY DEF IInv, Shown, WellFormed, Opens, Listed, Listing1
<1> HIDE DEF path, p
<1> DEFINE after == Patched(View, c, {})
<1>4. LooksFormatted(View, after, path, first, last, code)
  BY <1>1, FormattedLooks
<1>5. Apply(c, {}) /\ original' = original
  BY <1>1 DEF Formatting
<1>6. View' = after
  BY <1>5, ViewAfterApply
<1> HIDE DEF after
<1>7. p \in DOMAIN after
  BY <1>3, <1>4 DEF LooksFormatted
<1>8. Part(p)' = after[p] /\ Part(p) = View[p]
  BY <1>3, <1>6, <1>7, PartsAfter, ViewParts
<1>9. Styles = StylesIn(View)
  BY ViewParts DEF Styles, StylesIn
<1>10. Styles' = StylesIn(after)
  BY <1>6, PartsAfter DEF Styles, StylesIn
<1>11. Look(after[p], StylesIn(after), r) =
         IF p = path /\ r \in first..last
         THEN [Look(View[p], StylesIn(View), r) EXCEPT !.code = code]
         ELSE Look(View[p], StylesIn(View), r)
  BY <1>3, <1>4 DEF LooksFormatted
<1>12. QED
  BY <1>2, <1>8, <1>9, <1>10, <1>11 DEF p

\* A number format changes the number format of the rows that it is given, and
\* nothing else of them or of any other row of the workbook.
THEOREM FormatsKeepOtherStyles == Spec => StylesKept
<1>1. ASSUME IInv, NEW name \in Names, NEW first \in session.rows, NEW last \in session.rows,
             NEW code \in session.codes, first <= last, SetNumberFormat(name, first, last, code),
             NEW s \in ToSet(sheets), NEW r \in Rows
      PROVE  Look(Part(s.path)', Styles', r) =
               IF s.name = name /\ r \in first..last
               THEN [Look(Part(s.path), Styles, r) EXCEPT !.code = code]
               ELSE Look(Part(s.path), Styles, r)
  <2>1. first \in Rows /\ last \in Rows /\ code \in Texts
    BY <1>1, SessionInputs
  <2>2. QED
    BY <1>1, <2>1, SetNumberFormatLooks
<1>2. IInv => [\A name \in Names, first, last \in session.rows, code \in session.codes :
                 first <= last /\ SetNumberFormat(name, first, last, code) =>
                   \A s \in ToSet(sheets), r \in Rows :
                     Look(Part(s.path)', Styles', r) =
                       IF s.name = name /\ r \in first..last
                       THEN [Look(Part(s.path), Styles, r) EXCEPT !.code = code]
                       ELSE Look(Part(s.path), Styles, r)]_vars
  BY <1>1
<1>3. QED
  BY <1>2, PackageStaysWhole, PTL DEF StylesKept

-----------------------------------------------------------------------------
(* References and the rows that they are to. *)

\* Every row of a worksheet has an identity of its own, of no edit to come.
Sound(ids, n) ==
  /\ ids \in [Rows -> Nat \X Nat]
  /\ \A r, q \in Rows : ids[r] = ids[q] => r = q
  /\ \A r \in Rows : ids[r][1] <= n

\* The worksheets, told apart by name and by part, and the rows of each.
Places(list, ids, n) ==
  /\ n \in Nat
  /\ \A s, t \in ToSet(list) : NameKey(s.name) = NameKey(t.name) => s = t
  /\ \A s, t \in ToSet(list) : s.path = t.path => s = t
  /\ \A s \in ToSet(list) : s.name \in SheetNames /\ s.path \in SheetPaths
  /\ DOMAIN ids = {s.path : s \in ToSet(list)}
  /\ \A p \in DOMAIN ids : Sound(ids[p], n)

\* No row has this identity or will have it.
Lost(at, ids, n) ==
  /\ at[1] \in DOMAIN ids /\ at[2] \in Nat \X Nat /\ at[2][1] <= n
  /\ \A r \in Rows : ids[at[1]][r] # at[2]

\* The reference is, where it is, to the row of this worksheet that was meant.
IsAt(ref, inSheet, s, ids) ==
  /\ NameKey(s.name) = NameKey(Meant(ref, inSheet))
  /\ ref.row \in Rows /\ ref.at = <<s.path, ids[s.path][ref.row]>>

\* The reference follows its row, and will as long as the row is not deleted.
Keeps(ref, inSheet, list, ids, n) ==
  IF IsRef(ref) THEN \E s \in ToSet(list) : IsAt(ref, inSheet, s, ids)
  ELSE ref # NoRef => Lost(ref.at, ids, n)

\* What Keeps asks of a reference includes that it follows its row.
LEMMA KeepsFollows ==
  ASSUME NEW ref, NEW inSheet, NEW list, NEW ids, NEW n, Keeps(ref, inSheet, list, ids, n)
  PROVE  Follows(ref, inSheet, list, ids)
<1>1. CASE IsRef(ref)
  BY <1>1 DEF Keeps, Follows, IsAt
<1>2. CASE ~IsRef(ref)
  BY <1>2 DEF Keeps, Follows, Lost
<1>3. QED
  BY <1>1, <1>2

\* A cell without a reference asks nothing.
LEMMA NoRefKeeps ==
  ASSUME NEW inSheet, NEW list, NEW ids, NEW n
  PROVE  Keeps(NoRef, inSheet, list, ids, n)
<1>1. NoRef.row = 0
  BY DEF NoRef
<1>2. ~IsRef(NoRef)
  BY <1>1 DEF IsRef
<1>3. QED
  BY <1>2 DEF Keeps

\* The row is neither deleted nor pushed over the end.
Stays(plan, r) == ~Gone(plan, r) /\ MovedRow(plan, r) <= MaxRow

\* A shift of the rows: each row that stays takes its identity to where it moves, the
\* identity of a row that goes is on no row, and the new rows have new identities.
LEMMA IdsFollow ==
  ASSUME NEW ids, Sound(ids, edits), edits \in Nat, NEW plan, IsPlan(plan)
  PROVE  LET to == ShiftIds(ids, plan)
         IN /\ Sound(to, edits + 1)
            /\ \A r \in Rows : Stays(plan, r) =>
                 MovedRow(plan, r) \in Rows /\ to[MovedRow(plan, r)] = ids[r]
            /\ \A r, q \in Rows : ~Stays(plan, r) => to[q] # ids[r]
            /\ \A k \in Nat \X Nat : k[1] <= edits /\ (\A r \in Rows : ids[r] # k) =>
                 \A q \in Rows : to[q] # k
<1> DEFINE to == ShiftIds(ids, plan)
<1>1. /\ MaxRow \in Nat /\ Rows = 1..MaxRow
      /\ plan.at \in Nat /\ plan.at >= 1 /\ plan.count \in Nat /\ plan.count >= 1
      /\ plan.delete \in BOOLEAN /\ plan.at + plan.count - 1 <= MaxRow
  BY BoundsAssumption DEF Rows, IsPlan
<1>2. /\ ids \in [Rows -> Nat \X Nat]
      /\ \A r, q \in Rows : ids[r] = ids[q] => r = q
      /\ \A r \in Rows : ids[r][1] <= edits
  BY DEF Sound
<1>3. /\ to \in [Rows -> Nat \X Nat]
      /\ \A q \in Rows :
           to[q] = IF q < plan.at THEN ids[q]
                   ELSE IF plan.delete /\ q + plan.count <= MaxRow THEN ids[q + plan.count]
                   ELSE IF ~plan.delete /\ q >= plan.at + plan.count THEN ids[q - plan.count]
                   ELSE <<edits + 1, q>>
  BY <1>2, IdsShifted DEF ShiftIds
<1> HIDE DEF to
<1> DEFINE at == plan.at
           k == plan.count
           d == plan.delete
<1>4. ASSUME NEW r \in Rows
      PROVE  /\ Stays(plan, r) <=> ~(d /\ r \in at..(at + k - 1)) /\ MovedRow(plan, r) <= MaxRow
             /\ r < at => MovedRow(plan, r) = r
             /\ ~(r < at) /\ d => MovedRow(plan, r) = r - k
             /\ ~(r < at) /\ ~d => MovedRow(plan, r) = r + k
  BY DEF Stays, Gone, MovedRow
<1>5. /\ at \in Nat /\ at >= 1 /\ k \in Nat /\ k >= 1 /\ d \in BOOLEAN /\ at + k - 1 <= MaxRow
      /\ \A q \in Rows : q < at => to[q] = ids[q]
      /\ \A q \in Rows : ~(q < at) /\ d /\ q + k <= MaxRow => to[q] = ids[q + k]
      /\ \A q \in Rows : ~(q < at) /\ ~d /\ q >= at + k => to[q] = ids[q - k]
      /\ \A q \in Rows : ~(q < at) /\ ~(d /\ q + k <= MaxRow) /\ ~(~d /\ q >= at + k) =>
           to[q] = <<edits + 1, q>>
  BY <1>1, <1>3
<1> HIDE DEF at, k, d
<1>6. ASSUME NEW r \in Rows, Stays(plan, r)
      PROVE  MovedRow(plan, r) \in Rows /\ to[MovedRow(plan, r)] = ids[r]
  <2> DEFINE q == MovedRow(plan, r)
  <2>1. /\ r < at => q = r
        /\ ~(r < at) /\ d => q = r - k
        /\ ~(r < at) /\ ~d => q = r + k
    BY <1>4
  <2>2. ~(d /\ r \in at..(at + k - 1)) /\ q <= MaxRow
    BY <1>4, <1>6
  <2> HIDE DEF q
  <2>3. r \in Nat /\ r >= 1 /\ r <= MaxRow
    BY <1>1
  <2>4. CASE r < at
    BY <1>5, <2>1, <2>4 DEF q
  <2>5. CASE r >= at /\ d
    <3>1. q = r - k /\ r >= at + k /\ q >= at /\ q + k = r /\ q \in Rows
      BY <1>1, <1>5, <2>1, <2>2, <2>3, <2>5
    <3>2. to[q] = ids[q + k]
      BY <1>1, <1>5, <2>3, <2>5, <3>1
    <3>3. QED
      BY <3>1, <3>2 DEF q
  <2>6. CASE r >= at /\ ~d
    <3>1. q = r + k /\ q >= at + k /\ q - k = r /\ q \in Rows
      BY <1>1, <1>5, <2>1, <2>2, <2>3, <2>6
    <3>4. ~(q < at) /\ q \in Rows /\ q >= at + k
      BY <1>5, <2>3, <3>1
    <3>2. to[q] = ids[q - k]
      BY <1>5, <2>6, <3>4
    <3>3. QED
      BY <3>1, <3>2 DEF q
  <2>7. QED
    BY <1>5, <2>3, <2>4, <2>5, <2>6
<1>7. ASSUME NEW q \in Rows
      PROVE  \/ to[q] = <<edits + 1, q>>
             \/ \E r \in Rows : Stays(plan, r) /\ MovedRow(plan, r) = q /\ to[q] = ids[r]
  <2>1. q \in Nat /\ q >= 1 /\ q <= MaxRow
    BY <1>1
  <2>2. CASE q < at
    <3>1. to[q] = ids[q] /\ Stays(plan, q) /\ MovedRow(plan, q) = q
      BY <1>4, <1>5, <2>1, <2>2
    <3>2. QED
      BY <3>1
  <2>3. CASE q >= at /\ d /\ q + k <= MaxRow
    <3>1. q + k \in Rows /\ to[q] = ids[q + k]
      BY <1>1, <1>5, <2>1, <2>3
    <3>2. MovedRow(plan, q + k) = q
      BY <1>4, <1>5, <2>1, <2>3, <3>1
    <3>3. Stays(plan, q + k)
      BY <1>4, <1>5, <2>1, <2>3, <3>1, <3>2
    <3>4. QED
      BY <3>1, <3>2, <3>3
  <2>4. CASE q >= at + k /\ ~d
    <3>1. q - k \in Rows /\ to[q] = ids[q - k]
      BY <1>1, <1>5, <2>1, <2>4
    <3>2. MovedRow(plan, q - k) = q
      BY <1>4, <1>5, <2>1, <2>4, <3>1
    <3>3. Stays(plan, q - k)
      BY <1>4, <1>5, <2>1, <2>4, <3>1, <3>2
    <3>4. QED
      BY <3>1, <3>2, <3>3
  <2>5. CASE q >= at /\ ~(d /\ q + k <= MaxRow) /\ ~(~d /\ q >= at + k)
    BY <1>5, <2>1, <2>5
  <2>6. q < at \/ q >= at
    BY <1>5, <2>1
  <2>7. QED
    BY <2>2, <2>3, <2>4, <2>5, <2>6, Zenon
<1>8. \A r, q \in Rows : ids[r] # <<edits + 1, q>>
  <2> SUFFICES ASSUME NEW r \in Rows, NEW q \in Rows, ids[r] = <<edits + 1, q>> PROVE FALSE
    OBVIOUS
  <2>1. ids[r][1] = edits + 1
    OBVIOUS
  <2>2. ids[r][1] <= edits
    BY <1>2
  <2>3. QED
    BY <2>1, <2>2
<1>9. Sound(to, edits + 1)
  <2>1. ASSUME NEW q \in Rows PROVE to[q][1] <= edits + 1
    <3>1. CASE to[q] = <<edits + 1, q>>
      BY <3>1
    <3>2. ASSUME NEW r \in Rows, to[q] = ids[r] PROVE to[q][1] <= edits + 1
      <4>1. ids[r] \in Nat \X Nat /\ ids[r][1] <= edits
        BY <1>2
      <4>2. ids[r][1] \in Nat
        BY <4>1
      <4>3. QED
        BY <3>2, <4>1, <4>2
    <3>3. QED
      BY <1>7, <3>1, <3>2
  <2>2. ASSUME NEW p \in Rows, NEW q \in Rows, to[p] = to[q] PROVE p = q
    <3>1. CASE to[p] = <<edits + 1, p>>
      <4>1. to[q] = <<edits + 1, q>>
        BY <1>7, <1>8, <2>2, <3>1
      <4>2. <<edits + 1, p>> = <<edits + 1, q>>
        BY <2>2, <3>1, <4>1
      <4>3. QED
        BY <4>2
    <3>2. ASSUME NEW r \in Rows, MovedRow(plan, r) = p, to[p] = ids[r] PROVE p = q
      <4>1. to[q] # <<edits + 1, q>>
        BY <1>8, <2>2, <3>2
      <4>2. PICK u \in Rows : MovedRow(plan, u) = q /\ to[q] = ids[u]
        BY <1>7, <4>1
      <4>3. u = r
        BY <1>2, <2>2, <3>2, <4>2
      <4>4. QED
        BY <3>2, <4>2, <4>3
    <3>3. QED
      BY <1>7, <3>1, <3>2
  <2>3. QED
    BY <1>3, <2>1, <2>2 DEF Sound
<1>10. ASSUME NEW r \in Rows, NEW q \in Rows, ~Stays(plan, r), to[q] = ids[r] PROVE FALSE
  <2>1. PICK u \in Rows : Stays(plan, u) /\ to[q] = ids[u]
    BY <1>7, <1>8, <1>10
  <2>2. u = r
    BY <1>2, <1>10, <2>1
  <2>3. QED
    BY <1>10, <2>1, <2>2
<1>11. ASSUME NEW key \in Nat \X Nat, key[1] <= edits, \A r \in Rows : ids[r] # key,
              NEW q \in Rows, to[q] = key
       PROVE  FALSE
  <2>1. to[q] = <<edits + 1, q>>
    BY <1>7, <1>11
  <2>2. key[1] = edits + 1
    BY <1>11, <2>1
  <2>3. QED
    BY <1>11, <2>2
<1>12. QED
  BY <1>6, <1>9, <1>10, <1>11 DEF to

\* What is left of a reference to a row that is gone is no reference.
LEMMA TombstoneIsLeft ==
  ASSUME NEW ref \in References
  PROVE  ~IsRef(Tombstone(ref)) /\ Tombstone(ref).at = ref.at
<1>1. Tombstone(ref).row = -1 /\ Tombstone(ref).at = ref.at
  BY DEF Tombstone, References
<1>2. QED
  BY <1>1 DEF IsRef

\* A reference to another row is on the same worksheet.
LEMMA MovedReference ==
  ASSUME NEW ref \in References, NEW row
  PROVE  LET moved == [ref EXCEPT !.row = row]
         IN /\ moved.row = row /\ moved.at = ref.at
            /\ \A inSheet : Meant(moved, inSheet) = Meant(ref, inSheet)
<1> DEFINE moved == [ref EXCEPT !.row = row]
<1>1. moved.row = row /\ moved.at = ref.at /\ moved.sheet = ref.sheet
  BY DEF References
<1> HIDE DEF moved
<1>2. ASSUME NEW inSheet PROVE Meant(moved, inSheet) = Meant(ref, inSheet)
  BY <1>1, Zenon DEF Meant
<1>3. QED
  BY <1>1, <1>2 DEF moved

\* The identities after rows of this worksheet were inserted or deleted.
ShiftedIds(ids, path, plan) == [ids EXCEPT ![path] = ShiftIds(ids[path], plan)]

\* The same for the identities of all sheets, of which one is shifted.
LEMMA IdsOfSheets ==
  ASSUME NEW list, NEW ids, Places(list, ids, edits), NEW plan, IsPlan(plan), NEW path \in DOMAIN ids
  PROVE  LET to == ShiftedIds(ids, path, plan)
         IN /\ Places(list, to, edits + 1)
            /\ to[path] = ShiftIds(ids[path], plan)
            /\ \A p \in DOMAIN ids : p # path => to[p] = ids[p]
<1> DEFINE to == ShiftedIds(ids, path, plan)
           was == ids[path]
<1>1. edits \in Nat /\ Sound(was, edits)
  BY DEF Places
<1> HIDE DEF was
<1>2. Sound(ShiftIds(was, plan), edits + 1)
  BY <1>1, IdsFollow
<1>3. /\ DOMAIN to = DOMAIN ids /\ to[path] = ShiftIds(was, plan)
      /\ \A p \in DOMAIN ids : p # path => to[p] = ids[p]
  BY DEF ShiftedIds, was
<1> HIDE DEF to
<1>4. ASSUME NEW p \in DOMAIN to PROVE Sound(to[p], edits + 1)
  <2>1. CASE p = path
    BY <1>2, <1>3, <2>1
  <2>2. CASE p # path
    <3> DEFINE that == ids[p]
    <3>1. to[p] = that /\ Sound(that, edits)
      BY <1>3, <2>2 DEF Places
    <3> HIDE DEF that
    <3>2. \A r \in Rows : that[r] \in Nat \X Nat
      BY <3>1 DEF Sound
    <3>3. \A r \in Rows : that[r][1] \in Nat
      BY <3>2
    <3>4. \A r \in Rows : that[r][1] <= edits + 1
      BY <1>1, <3>1, <3>3 DEF Sound
    <3>5. QED
      BY <3>1, <3>4 DEF Sound
  <2>3. QED
    BY <2>1, <2>2
<1>5. Places(list, to, edits + 1)
  BY <1>1, <1>3, <1>4 DEF Places
<1>6. QED
  BY <1>3, <1>5 DEF to, was

\* A reference that follows its row does so when rows are inserted or deleted.
LEMMA ShiftedRefKeeps ==
  ASSUME NEW list, NEW ids, Places(list, ids, edits), NEW plan, IsPlan(plan), NEW t \in ToSet(list),
         NEW ref \in References, NEW inSheet, NEW source,
         IsRef(ref) => Meant(ref, source) = Meant(ref, inSheet),
         Keeps(ref, inSheet, list, ids, edits)
  PROVE  Keeps(ShiftRef(ref, source, t.name, plan), inSheet, list,
               ShiftedIds(ids, t.path, plan), edits + 1)
<1> DEFINE path == t.path
           to == ShiftedIds(ids, path, plan)
           new == ShiftRef(ref, source, t.name, plan)
           was == ids[path]
<1>1. /\ edits \in Nat /\ path \in DOMAIN ids /\ Sound(was, edits)
      /\ \A s \in ToSet(list) : NameKey(s.name) = NameKey(t.name) => s = t
      /\ \A s \in ToSet(list) : s.path = path => s = t
      /\ \A s \in ToSet(list) : s.path \in DOMAIN ids /\ Sound(ids[s.path], edits)
  BY DEF Places
<1>2. /\ Places(list, to, edits + 1) /\ to[path] = ShiftIds(was, plan)
      /\ \A p \in DOMAIN ids : p # path => to[p] = ids[p]
  BY <1>1, IdsOfSheets
<1>3. DOMAIN to = DOMAIN ids
  BY <1>2 DEF Places
<1> HIDE DEF to, was
<1> DEFINE now == ShiftIds(was, plan)
<1>4. /\ \A r \in Rows : Stays(plan, r) => MovedRow(plan, r) \in Rows /\ now[MovedRow(plan, r)] = was[r]
      /\ \A r, q \in Rows : ~Stays(plan, r) => now[q] # was[r]
      /\ \A k \in Nat \X Nat : k[1] <= edits /\ (\A r \in Rows : was[r] # k) => \A q \in Rows : now[q] # k
  BY <1>1, IdsFollow
<1>5. was \in [Rows -> Nat \X Nat] /\ \A r \in Rows : was[r][1] <= edits
  BY <1>1 DEF Sound
<1> HIDE DEF now, new, path
<1>6. CASE ~IsRef(ref)
  <2>1. new = ref
    BY <1>6 DEF new, ShiftRef, IsTarget
  <2>2. ASSUME ref # NoRef PROVE Lost(ref.at, to, edits + 1)
    <3> DEFINE p == ref.at[1]
               k == ref.at[2]
    <3>1. Lost(ref.at, ids, edits)
      BY <1>6, <2>2 DEF Keeps
    <3>2. /\ p \in DOMAIN ids /\ k \in Nat \X Nat /\ k[1] <= edits
          /\ \A r \in Rows : ids[p][r] # k
      BY <3>1 DEF Lost
    <3> HIDE DEF p, k
    <3>3. \A r \in Rows : to[p][r] # k
      <4>1. CASE p = path
        BY <1>2, <1>4, <3>2, <4>1 DEF was, now
      <4>2. CASE p # path
        BY <1>2, <3>2, <4>2
      <4>3. QED
        BY <4>1, <4>2
    <3>4. k[1] \in Nat
      BY <3>2
    <3>5. k[1] <= edits + 1
      BY <1>1, <3>2, <3>4
    <3>6. QED
      BY <1>3, <3>2, <3>3, <3>5 DEF Lost, p, k
  <2>3. QED
    BY <1>6, <2>1, <2>2 DEF Keeps, new, to, path
<1>7. CASE IsRef(ref)
  <2>1. PICK s \in ToSet(list) : IsAt(ref, inSheet, s, ids)
    BY <1>7 DEF Keeps
  <2> DEFINE row == ref.row
  <2>2. /\ NameKey(s.name) = NameKey(Meant(ref, inSheet))
        /\ row \in Rows /\ ref.at = <<s.path, ids[s.path][row]>>
    BY <2>1 DEF IsAt
  <2>3. IsTarget(ref, source, t.name) <=> s = t
    BY <1>1, <1>7, <2>2 DEF IsTarget
  <2> HIDE DEF row
  <2>4. CASE s # t
    <3>1. new = ref
      BY <2>3, <2>4 DEF new, ShiftRef
    <3>2. to[s.path] = ids[s.path]
      BY <1>1, <1>2, <2>4
    <3>3. IsAt(ref, inSheet, s, to)
      BY <2>2, <3>2 DEF IsAt, row
    <3>4. QED
      BY <1>7, <3>1, <3>3 DEF Keeps, new, to, path
  <2>5. CASE s = t /\ Stays(plan, row)
    <3> DEFINE to_row == MovedRow(plan, row)
               moved == [ref EXCEPT !.row = to_row]
    <3>1. new = moved
      <4>1. MovedRow(plan, row) \in Int /\ MaxRow \in Int
        BY <2>2, BoundsAssumption DEF Rows, MovedRow, IsPlan
      <4>2. ~Gone(plan, row) /\ ~(MovedRow(plan, row) > MaxRow)
        BY <2>5, <4>1 DEF Stays
      <4>3. IsTarget(ref, source, t.name)
        BY <2>3, <2>5
      <4>4. new = [ref EXCEPT !.row = MovedRow(plan, @)]
        BY <4>2, <4>3 DEF new, ShiftRef, row
      <4>5. QED
        BY <4>4 DEF row
    <3>2. to_row \in Rows /\ now[to_row] = was[row]
      BY <1>4, <2>2, <2>5
    <3> HIDE DEF to_row
    <3>3. moved.row = to_row /\ moved.at = ref.at /\ Meant(moved, inSheet) = Meant(ref, inSheet)
      BY MovedReference
    <3> HIDE DEF moved
    <3>4. to[s.path][to_row] = ids[s.path][row]
      BY <1>2, <2>5, <3>2 DEF now, was, path
    <3>5. IsAt(moved, inSheet, s, to)
      BY <2>2, <3>2, <3>3, <3>4 DEF IsAt
    <3>6. IsRef(moved)
      BY <3>2, <3>3, BoundsAssumption DEF IsRef, Rows
    <3>7. Keeps(moved, inSheet, list, to, edits + 1)
      BY <3>5, <3>6 DEF Keeps
    <3>8. QED
      BY <3>1, <3>7 DEF new, to, path
  <2>6. CASE s = t /\ ~Stays(plan, row)
    <3> DEFINE left == Tombstone(ref)
    <3>1. new = left
      <4>1. row \in Int /\ MovedRow(plan, row) \in Int /\ MaxRow \in Int
        BY <2>2, BoundsAssumption DEF Rows, MovedRow, IsPlan
      <4>2. Gone(plan, row) \/ MovedRow(plan, row) > MaxRow
        BY <2>6, <4>1 DEF Stays
      <4>3. QED
        BY <2>3, <2>6, <4>2 DEF new, ShiftRef, row
    <3>2. ~IsRef(left) /\ left.at = ref.at
      BY TombstoneIsLeft
    <3> HIDE DEF left
    <3> DEFINE k == was[row]
    <3>3. ref.at = <<path, k>> /\ k \in Nat \X Nat /\ k[1] <= edits
      BY <1>5, <2>2, <2>6 DEF was, path
    <3>4. \A q \in Rows : now[q] # k
      BY <1>4, <2>2, <2>6
    <3> HIDE DEF k
    <3>5. k[1] \in Nat
      BY <3>3
    <3>6. k[1] <= edits + 1
      BY <1>1, <3>3, <3>5
    <3>7. \A q \in Rows : to[path][q] # k
      BY <1>2, <3>4 DEF now
    <3>8. Lost(left.at, to, edits + 1)
      BY <1>1, <1>3, <3>2, <3>3, <3>6, <3>7 DEF Lost
    <3>9. QED
      BY <3>1, <3>2, <3>8 DEF Keeps, new, to, path
  <2>7. QED
    BY <2>4, <2>5, <2>6
<1>8. QED
  BY <1>6, <1>7

\* A reference that is written without a sheet, and one with a sheet.
LEMMA WithoutSheet ==
  ASSUME NEW ref, Sheetless(ref), NEW inSheet, NEW old, NEW new
  PROVE  Meant(ref, inSheet) = inSheet /\ RenameRef(ref, old, new) = ref
BY Zenon DEF Sheetless, Meant, RenameRef

\* A reference with a sheet means that sheet whichever sheet it is in, and a rename
\* changes it exactly when it names the sheet that is renamed.
LEMMA WithSheet ==
  ASSUME NEW ref, ~Sheetless(ref), NEW old, NEW new
  PROVE  /\ \A inSheet : Meant(ref, inSheet) = ref.sheet
         /\ IsRef(ref) /\ NameKey(ref.sheet) = NameKey(old) =>
              RenameRef(ref, old, new) = [ref EXCEPT !.sheet = new]
         /\ ~(NameKey(ref.sheet) = NameKey(old)) => RenameRef(ref, old, new) = ref
BY Zenon DEF Sheetless, Meant, RenameRef

\* A rename leaves a formula without a reference as it is.
LEMMA NoReference ==
  ASSUME NEW ref, ~IsRef(ref), NEW old, NEW new
  PROVE  RenameRef(ref, old, new) = ref
BY Zenon DEF RenameRef

\* The name of a sheet is not the empty name.
LEMMA SheetNamesAreSheets ==
  ASSUME NEW ref, ref.sheet \in SheetNames
  PROVE  ~Sheetless(ref)
BY Zenon DEF Sheetless, SheetNames

\* The worksheets of one list, one of them renamed, are in another.
RenamedIn(list, after, old, new) ==
  \A s \in ToSet(list) : \E t \in ToSet(after) :
    t.path = s.path /\ t.name = IF s.name = old THEN new ELSE s.name

\* No worksheet of another name differs from this one in case alone.
OnlyName(list, name) == \A s \in ToSet(list) : NameKey(s.name) = NameKey(name) => s.name = name

\* A reference that follows its row does so when a worksheet is renamed.
LEMMA RenamedRefKeeps ==
  ASSUME NEW list, NEW ids, NEW n, NEW ref \in References, NEW old, NEW new \in SheetNames,
         NEW inSheet, NEW after, RenamedIn(list, after, old, new),
         OnlyName(list, old), OnlyName(list, inSheet), Keeps(ref, inSheet, list, ids, n)
  PROVE  Keeps(RenameRef(ref, old, new), IF inSheet = old THEN new ELSE inSheet, after, ids, n)
<1> DEFINE there == IF inSheet = old THEN new ELSE inSheet
<1>1. CASE ~IsRef(ref)
  <2>1. RenameRef(ref, old, new) = ref
    BY <1>1, NoReference
  <2>2. QED
    BY <1>1, <2>1 DEF Keeps
<1>2. CASE IsRef(ref)
  <2>1. PICK s \in ToSet(list) : IsAt(ref, inSheet, s, ids)
    BY <1>2 DEF Keeps
  <2>2. PICK t \in ToSet(after) : t.path = s.path /\ t.name = IF s.name = old THEN new ELSE s.name
    BY DEF RenamedIn
  <2>3. /\ NameKey(s.name) = NameKey(Meant(ref, inSheet))
        /\ ref.row \in Rows /\ ref.at = <<t.path, ids[t.path][ref.row]>>
    BY <2>1, <2>2 DEF IsAt
  <2>4. CASE Sheetless(ref)
    <3>1. Meant(ref, inSheet) = inSheet /\ Meant(ref, there) = there /\ RenameRef(ref, old, new) = ref
      BY <2>4, WithoutSheet
    <3>2. s.name = inSheet
      BY <2>3, <3>1 DEF OnlyName
    <3>3. t.name = there
      BY <2>2, <3>2
    <3> HIDE DEF there
    <3>4. IsAt(ref, there, t, ids)
      BY <2>3, <3>1, <3>3 DEF IsAt
    <3>5. QED
      BY <1>2, <3>1, <3>4 DEF Keeps, there
  <2>5. CASE ~Sheetless(ref) /\ NameKey(ref.sheet) = NameKey(old)
    <3> DEFINE now == [ref EXCEPT !.sheet = new]
    <3>1. Meant(ref, inSheet) = ref.sheet /\ RenameRef(ref, old, new) = now
      BY <1>2, <2>5, WithSheet
    <3>2. now.sheet = new /\ now.row = ref.row /\ now.at = ref.at
      BY DEF References
    <3>3. s.name = old /\ t.name = new
      BY <2>2, <2>3, <2>5, <3>1 DEF OnlyName
    <3> HIDE DEF now, there
    <3>4. ~Sheetless(now)
      BY <3>2, SheetNamesAreSheets
    <3>5. Meant(now, there) = new
      BY <3>2, <3>4, WithSheet
    <3>6. IsRef(now) /\ IsAt(now, there, t, ids)
      BY <1>2, <2>3, <3>2, <3>3, <3>5 DEF IsAt, IsRef
    <3>7. QED
      BY <3>1, <3>6 DEF Keeps, there
  <2>6. CASE ~Sheetless(ref) /\ NameKey(ref.sheet) # NameKey(old)
    <3>1. Meant(ref, inSheet) = ref.sheet /\ Meant(ref, there) = ref.sheet
          /\ RenameRef(ref, old, new) = ref
      BY <2>6, WithSheet
    <3>2. s.name # old /\ t.name = s.name
      BY <2>2, <2>3, <2>6, <3>1
    <3> HIDE DEF there
    <3>3. IsAt(ref, there, t, ids)
      BY <2>3, <3>1, <3>2 DEF IsAt
    <3>4. QED
      BY <1>2, <3>1, <3>3 DEF Keeps, there
  <2>7. QED
    BY <2>4, <2>5, <2>6
<1>3. QED
  BY <1>1, <1>2

\* The worksheets and the rows of one list are among those of another.
MoreOf(list, ids, after, to) ==
  /\ ToSet(list) \subseteq ToSet(after)
  /\ DOMAIN ids \subseteq DOMAIN to /\ \A p \in DOMAIN ids : to[p] = ids[p]
  /\ \A s \in ToSet(list) : s.path \in DOMAIN ids

\* A reference that follows its row does so when there are more worksheets.
LEMMA RefKeepsWithMore ==
  ASSUME NEW list, NEW ids, NEW after, NEW to, MoreOf(list, ids, after, to),
         NEW n \in Nat, NEW m \in Nat, n <= m, NEW ref, NEW inSheet, Keeps(ref, inSheet, list, ids, n)
  PROVE  Keeps(ref, inSheet, after, to, m)
<1>1. CASE IsRef(ref)
  <2>1. PICK s \in ToSet(list) : IsAt(ref, inSheet, s, ids)
    BY <1>1 DEF Keeps
  <2>2. s \in ToSet(after) /\ to[s.path] = ids[s.path]
    BY DEF MoreOf
  <2>3. IsAt(ref, inSheet, s, to)
    BY <2>1, <2>2 DEF IsAt
  <2>4. QED
    BY <1>1, <2>2, <2>3 DEF Keeps
<1>2. CASE ~IsRef(ref)
  <2>1. ASSUME ref # NoRef PROVE Lost(ref.at, to, m)
    <3> DEFINE p == ref.at[1]
               k == ref.at[2]
    <3>1. p \in DOMAIN ids /\ k \in Nat \X Nat /\ k[1] <= n /\ \A r \in Rows : ids[p][r] # k
      BY <1>2, <2>1 DEF Keeps, Lost
    <3> HIDE DEF p, k
    <3>2. k[1] \in Nat
      BY <3>1
    <3>3. k[1] <= m
      BY <3>1, <3>2
    <3>4. QED
      BY <3>1, <3>3 DEF Lost, MoreOf, p, k
  <2>2. QED
    BY <1>2, <2>1 DEF Keeps
<1>3. QED
  BY <1>1, <1>2

\* Rows are counted from one.
LEMMA RowsArePositive == \A row \in Rows : row > 0
BY BoundsAssumption DEF Rows

\* A reference that is written follows the row that it is written for.
LEMMA RefToKeeps ==
  ASSUME NEW n, Places(sheets, rowIds, n), NEW to \in Names \cup {""}, NEW name \in Names, NEW row \in Rows
  PROVE  Keeps(RefTo(to, name, row), name, sheets, rowIds, n)
<1> DEFINE target == IF to = "" THEN name ELSE to
           ref == RefTo(to, name, row)
           path == PathOf(target)
<1>1. target \in Names
  OBVIOUS
<1>2. ref.sheet = to /\ ref.row = row /\ ref.at = <<path, rowIds[path][row]>>
  BY Zenon DEF RefTo
<1>3. Meant(ref, name) = target
  BY <1>2, Zenon DEF Meant
<1> HIDE DEF target, ref
<1>4. PICK s \in ToSet(sheets) : s.name = target /\ path = s.path
  <2> DEFINE that == CHOOSE s \in ToSet(sheets) : s.name = target
  <2>1. \E s \in ToSet(sheets) : s.name = target
    BY <1>1 DEF Names
  <2>2. that \in ToSet(sheets) /\ that.name = target
    BY <2>1
  <2>3. path = that.path
    BY DEF PathOf
  <2> HIDE DEF that, path
  <2>4. QED
    BY <2>2, <2>3
<1> HIDE DEF path
<1>5. IsAt(ref, name, s, rowIds)
  BY <1>2, <1>3, <1>4 DEF IsAt
<1>6. row > 0
  BY RowsArePositive
<1>7. IsRef(ref)
  BY <1>2, <1>6, Zenon DEF IsRef
<1>8. QED
  BY <1>5, <1>7 DEF Keeps, ref

-----------------------------------------------------------------------------
(* The references of a package. *)

CellsKeep(package, list, ids, n) ==
  \A s \in ToSet(list) : \A r \in DOMAIN package[s.path].cells :
    Keeps(package[s.path].cells[r].ref, s.name, list, ids, n)
ChartKeeps(package, list, ids, n) ==
  "chart" \in DOMAIN package => Keeps(package["chart"].ref, Nowhere, list, ids, n)
NamesKeep(workbook, list, ids, n) ==
  \A i \in DOMAIN workbook.names :
    Keeps(workbook.names[i].ref, ScopeName(workbook, workbook.names[i]), list, ids, n)

Refers(package, list, ids, n) ==
  /\ Places(list, ids, n)
  /\ CellsKeep(package, list, ids, n)
  /\ ChartKeeps(package, list, ids, n)
  /\ NamesKeep(package["workbook"], list, ids, n)
  /\ Scoped(package)

\* In a package whose references keep to their rows every formula follows.
LEMMA RefersFollows ==
  ASSUME NEW package, NEW list, NEW ids, NEW n, Refers(package, list, ids, n)
  PROVE  FormulasFollow(package, list, ids)
<1>1. \A s \in ToSet(list) : \A r \in DOMAIN package[s.path].cells :
        Follows(package[s.path].cells[r].ref, s.name, list, ids)
  BY KeepsFollows DEF Refers, CellsKeep
<1>2. "chart" \in DOMAIN package => Follows(package["chart"].ref, "", list, ids)
  <2>1. "chart" \in DOMAIN package => Follows(package["chart"].ref, Nowhere, list, ids)
    BY KeepsFollows DEF Refers, ChartKeeps
  <2>2. QED
    BY <2>1, Zenon DEF Nowhere
<1> DEFINE workbook == package["workbook"]
<1>3. \A i \in DOMAIN workbook.names :
        Follows(workbook.names[i].ref, ScopeName(workbook, workbook.names[i]), list, ids)
  BY KeepsFollows DEF Refers, NamesKeep
<1>4. QED
  BY <1>1, <1>2, <1>3, Zenon DEF FormulasFollow

\* The rows of a worksheet are told apart after later edits too.
LEMMA PlacesLater ==
  ASSUME NEW list, NEW ids, NEW n, Places(list, ids, n), NEW m \in Nat, n <= m
  PROVE  Places(list, ids, m) /\ MoreOf(list, ids, list, ids)
<1>1. n \in Nat
  BY DEF Places
<1>2. ASSUME NEW p \in DOMAIN ids PROVE Sound(ids[p], m)
  <2> DEFINE that == ids[p]
  <2>1. Sound(that, n)
    BY DEF Places
  <2> HIDE DEF that
  <2>2. \A r \in Rows : that[r] \in Nat \X Nat
    BY <2>1 DEF Sound
  <2>3. \A r \in Rows : that[r][1] \in Nat
    BY <2>2
  <2>4. \A r \in Rows : that[r][1] <= m
    BY <1>1, <2>1, <2>3 DEF Sound
  <2>5. QED
    BY <2>1, <2>4 DEF Sound, that
<1>3. Places(list, ids, m)
  BY <1>2 DEF Places
<1>4. MoreOf(list, ids, list, ids)
  BY DEF MoreOf, Places
<1>5. QED
  BY <1>3, <1>4

\* The references that keep to their rows do so after more edits, too.
LEMMA RefersLater ==
  ASSUME NEW package, NEW list, NEW ids, NEW n, Refers(package, list, ids, n), NEW m \in Nat, n <= m
  PROVE  Refers(package, list, ids, m)
<1>1. Places(list, ids, n) /\ n \in Nat
  BY DEF Refers, Places
<1>2. Places(list, ids, m) /\ MoreOf(list, ids, list, ids)
  BY <1>1, PlacesLater
<1>3. \A ref, inSheet : Keeps(ref, inSheet, list, ids, n) => Keeps(ref, inSheet, list, ids, m)
  BY <1>1, <1>2, RefKeepsWithMore
<1>4. QED
  BY <1>2, <1>3 DEF Refers, CellsKeep, ChartKeeps, NamesKeep

\* A package without its chain has the same references.
LEMMA RefersRecalculated ==
  ASSUME NEW before, WellFormed(before), NEW list, list = Listing1(before), NEW ids, NEW n,
         Refers(before, list, ids, n)
  PROVE  Refers(Recalculated(before), list, ids, n)
<1> DEFINE after == Recalculated(before)
           entries == before["workbook"].entries
           names == before["workbook"].names
           rels == before["rels"]
<1>1. /\ \A p \in DOMAIN before : p \notin {"workbook", "rels", "types", "chain"} =>
           p \in DOMAIN after /\ after[p] = before[p]
      /\ after["workbook"].names = names /\ after["workbook"].entries = entries
  BY RecalculatedIsWellFormed
<1>2. DOMAIN after \subseteq DOMAIN before
  BY DEF Recalculated
<1>3. after["rels"] = [r \in {r \in DOMAIN rels : rels[r].kind # "calcChain"} |-> rels[r]]
  BY DEF Recalculated, WellFormed, PartsTyped
<1>4. ASSUME NEW j \in DOMAIN entries PROVE after["rels"][entries[j].rid] = rels[entries[j].rid]
  <2>1. entries[j].rid \in DOMAIN rels
    BY DEF WellFormed, Opens
  <2>2. rels[entries[j].rid].kind # "calcChain"
    BY DEF WellFormed, Listed, ToSet
  <2> HIDE DEF after, entries, rels
  <2>3. QED
    BY <1>3, <2>1, <2>2
<1>5. /\ DOMAIN entries = 1..Len(entries) /\ Len(entries) \in Nat
      /\ \A i \in DOMAIN names : names[i].scope \in (-1)..(Len(entries) - 1)
  BY Outline DEF WellFormed, Indexed
<1>6. \A s \in ToSet(list) : s.path \in DOMAIN before /\ s.path \in SheetPaths
  BY DEF WellFormed, Opens, Listed, Listing1
<1> HIDE DEF after, entries, names, rels
<1>7. CellsKeep(after, list, ids, n)
  <2>1. \A s \in ToSet(list) : after[s.path] = before[s.path]
    BY <1>1, <1>6, PartNames
  <2>2. QED
    BY <2>1 DEF Refers, CellsKeep
<1>8. ChartKeeps(after, list, ids, n)
  <2>1. "chart" \in DOMAIN after => "chart" \in DOMAIN before /\ after["chart"] = before["chart"]
    BY <1>1, <1>2
  <2>2. QED
    BY <2>1 DEF Refers, ChartKeeps
<1>9. NamesKeep(after["workbook"], list, ids, n)
  <2> DEFINE w == before["workbook"]
             v == after["workbook"]
  <2>1. v.names = w.names /\ v.entries = w.entries
    BY <1>1 DEF names, entries
  <2> HIDE DEF w, v
  <2>2. \A name : ScopeName(v, name) = ScopeName(w, name)
    BY <2>1, Zenon DEF ScopeName
  <2>3. NamesKeep(w, list, ids, n)
    BY DEF Refers, w
  <2>4. NamesKeep(v, list, ids, n)
    BY <2>1, <2>2, <2>3 DEF NamesKeep
  <2>5. QED
    BY <2>4 DEF v
<1>10. Scoped(after)
  <2>1. ASSUME NEW i \in DOMAIN names PROVE ScopedName(names[i], entries, after["rels"])
    <3>1. ScopedName(names[i], entries, rels)
      BY DEF Refers, Scoped, names, entries, rels
    <3>2. \A j \in 1..(names[i].scope + 1) : j \in DOMAIN entries
      BY <1>5
    <3>3. QED
      BY <1>4, <3>1, <3>2 DEF ScopedName
  <2>2. QED
    BY <1>1, <2>1 DEF Scoped
<1>11. QED
  BY <1>7, <1>8, <1>9, <1>10 DEF Refers, after

\* What well-formed packages refer with is references.
LEMMA ReferencesThere ==
  ASSUME NEW package, WellFormed(package)
  PROVE  /\ \A p \in SheetPaths \cap DOMAIN package : \A r \in DOMAIN package[p].cells :
              package[p].cells[r].ref \in References
         /\ "chart" \in DOMAIN package => package["chart"].ref \in References
         /\ \A i \in DOMAIN package["workbook"].names :
              /\ package["workbook"].names[i].ref \in References
              /\ package["workbook"].names[i].scope \in (-1)..(Len(package["workbook"].entries) - 1)
         /\ Len(package["workbook"].entries) \in Nat
<1>1. ASSUME NEW p \in SheetPaths \cap DOMAIN package, NEW r \in DOMAIN package[p].cells
      PROVE  package[p].cells[r].ref \in References
  <2> DEFINE cells == package[p].cells
  <2>1. cells \in [DOMAIN cells -> Cells]
    BY DEF WellFormed, PartsTyped, IsWorksheet
  <2>2. cells[r] \in Cells
    BY <2>1
  <2>3. QED
    BY <2>2 DEF Cells
<1>2. "chart" \in DOMAIN package => package["chart"].ref \in References
  BY DEF WellFormed, PartsTyped, Charts
<1>3. ASSUME NEW i \in DOMAIN package["workbook"].names
      PROVE  /\ package["workbook"].names[i].ref \in References
             /\ package["workbook"].names[i].scope \in (-1)..(Len(package["workbook"].entries) - 1)
  <2> DEFINE names == package["workbook"].names
  <2>1. names \in Seq(DefinedNames)
    BY DEF WellFormed, PartsTyped, Workbooks
  <2> HIDE DEF names
  <2>2. i \in DOMAIN names
    BY DEF names
  <2>3. names[i] \in DefinedNames
    BY <2>1, <2>2
  <2>4. names[i].ref \in References
    BY <2>3 DEF DefinedNames
  <2>5. QED
    BY <2>4 DEF names, WellFormed, Indexed
<1>4. Len(package["workbook"].entries) \in Nat
  BY Outline
<1>5. QED
  BY <1>1, <1>2, <1>3, <1>4

\* The sheet that a reference in a scoped name is to is that of the scope.
LEMMA ScopeIsSource ==
  ASSUME IInv, NEW i \in DOMAIN View["workbook"].names, NEW name, name = View["workbook"].names[i],
         ScopedName(name, View["workbook"].entries, View["rels"]), IsRef(name.ref)
  PROVE  Meant(name.ref, NameSource(name)) = Meant(name.ref, ScopeName(View["workbook"], name))
<1> DEFINE w == View["workbook"]
           entries == View["workbook"].entries
           rels == View["rels"]
           k == name.scope + 1
<1>1. WellFormed(View) /\ sheets = Listing1(View)
  BY DEF IInv, Shown
<1>2. entries \in Seq(Entries) /\ DOMAIN entries = 1..Len(entries) /\ Len(entries) \in Nat
  BY <1>1, Outline
<1>3. name.scope \in (-1)..(Len(entries) - 1)
  BY <1>1, ReferencesThere
<1>4. PICK m, pos : /\ Enumerates(pos, m, Positions(entries, rels))
                    /\ sheets = Listing(entries, rels, pos, m)
  BY <1>1, <1>2, SheetsHaveAListing DEF Listing1
<1> HIDE DEF w, entries, rels, k
<1>5. /\ m \in Nat /\ DOMAIN sheets = 1..m
      /\ \A j \in 1..m : sheets[j] = SheetOf(entries, rels, pos[j])
  BY <1>4 DEF Enumerates, Listing
<1>6. CASE Sheetless(name.ref)
  <2>1. CASE name.scope < 0
    <3>1. k \notin DOMAIN sheets
      BY <1>3, <1>5, <2>1 DEF k
    <3>2. NameSource(name) = ScopeName(w, name)
      BY <2>1, <3>1, Zenon DEF NameSource, ScopeName, k
    <3>3. QED
      BY <3>2 DEF w
  <2>2. CASE ~(name.scope < 0)
    <3>1. k \in 1..Len(entries)
      BY <1>2, <1>3, <2>2 DEF k
    <3>2. \A j \in 1..k : rels[entries[j].rid].kind = "worksheet"
      BY <1>6 DEF ScopedName, k, entries, rels
    <3>3. 1..k \subseteq Positions(entries, rels) /\ k \in Nat /\ 0 \notin Positions(entries, rels)
      BY <1>2, <3>1, <3>2 DEF Positions
    <3>4. k \in 1..m /\ pos[k] = k
      <4>1. \A j \in 1..k : j \in 1..m /\ pos[j] = j
        BY <1>4, <3>3, EnumerationStartsFull
      <4>2. k \in 1..k
        BY <3>1, <3>3
      <4>3. QED
        BY <4>1, <4>2
    <3>5. sheets[k].name = entries[k].name
      BY <1>5, <3>4 DEF SheetOf
    <3>6. NameSource(name) = ScopeName(w, name)
      BY <1>5, <2>2, <3>4, <3>5, Zenon DEF NameSource, ScopeName, k, w, entries
    <3>7. QED
      BY <3>6 DEF w
  <2>3. QED
    BY <2>1, <2>2
<1>7. CASE ~Sheetless(name.ref)
  BY <1>7, WithSheet
<1>8. QED
  BY <1>6, <1>7

\* A shift takes the formulas of every worksheet for those of that worksheet.
LEMMA SourceIsName ==
  ASSUME IInv, NEW name \in Names, NEW s \in ToSet(sheets)
  PROVE  (IF s.path = PathOf(name) THEN name ELSE NameOf(s.path)) = s.name
<1>1. s.path = PathOf(name) => s.name = name
  BY SheetsAreTheirPaths
<1> DEFINE t == CHOOSE x \in ToSet(sheets) : x.path = s.path
<1>2. t \in ToSet(sheets) /\ t.path = s.path
  OBVIOUS
<1>3. NameOf(s.path) = t.name
  BY DEF NameOf
<1> HIDE DEF t
<1>4. s.name \in Names /\ PathOf(s.name) = s.path
  <2>1. s.name \in Names
    BY DEF Names
  <2>2. QED
    BY <2>1, SheetsAreTheirPaths
<1>5. t.name = s.name
  BY <1>2, <1>4, SheetsAreTheirPaths
<1>6. QED
  BY <1>1, <1>3, <1>5

\* The sheet names that the worksheets have are of worksheets of the list.
LEMMA SheetOfName ==
  ASSUME IInv, NEW name \in Names
  PROVE  \E t \in ToSet(sheets) : t.name = name /\ t.path = PathOf(name)
<1>1. PICK t \in ToSet(sheets) : t.name = name
  BY DEF Names
<1>2. t.path = PathOf(name)
  BY <1>1, SheetsAreTheirPaths
<1>3. QED
  BY <1>1, <1>2

\* What is referred to before and after, and where the references are.
LEMMA ListedThere ==
  ASSUME IInv
  PROVE  /\ WellFormed(View) /\ sheets = Listing1(View)
         /\ \A s \in ToSet(sheets) : s.path \in SheetPaths \cap DOMAIN View
         /\ {"workbook", "rels", "types"} \subseteq DOMAIN View
         /\ edits \in Nat
<1>1. WellFormed(View) /\ sheets = Listing1(View) /\ edits \in Nat
  BY DEF IInv, Shown
<1>2. \A s \in ToSet(sheets) : s.path \in SheetPaths \cap DOMAIN View
  BY <1>1 DEF WellFormed, Opens, Listed, Listing1
<1>3. QED
  BY <1>1, <1>2 DEF WellFormed, PartsTyped

\* The references as they are and will be.
RefersNow == Refers(View, sheets, rowIds, edits)

\* A cell with a reference to the row it is for, or with none.
LEMMA WriteRefers ==
  ASSUME IInv, RefersNow, NEW name \in Names, NEW row, NEW ref,
         Keeps(ref, name, sheets, rowIds, edits),
         NEW part, Writing(PathOf(name), row, ref, part)
  PROVE  RefersNow'
<1> DEFINE path == PathOf(name)
           c == Single(path, part)
           after == Patched(View, c, {})
<1>1. /\ path \in SheetPaths \cap DOMAIN View
      /\ \A q \in DOMAIN part.cells :
           IF q = row THEN part.cells[q].ref = ref
           ELSE q \in DOMAIN View[path].cells /\ part.cells[q].ref = View[path].cells[q].ref
      /\ WellFormed(after) /\ Listing1(after) = sheets
      /\ View' = after \/ View' = Recalculated(after)
      /\ sheets' = sheets /\ rowIds' = rowIds /\ edits' = edits + 1
  BY DEF Writing
<1>2. /\ WellFormed(View) /\ \A s \in ToSet(sheets) : s.path \in SheetPaths \cap DOMAIN View
      /\ {"workbook", "rels", "types"} \subseteq DOMAIN View
      /\ edits \in Nat
  BY ListedThere
<1>3. DOMAIN c = {path} /\ c[path] = part
  BY DEF Single
<1> HIDE DEF path, c
<1>4. /\ after[path] = part
      /\ \A p \in DOMAIN View : p # path => after[p] = View[p]
      /\ DOMAIN after = DOMAIN View
  <2>1. path \in DOMAIN View
    BY <1>1
  <2>2. QED
    BY <1>3, <2>1 DEF Patched
<1>5. after["workbook"] = View["workbook"] /\ after["rels"] = View["rels"]
  BY <1>1, <1>2, <1>4, PartNames
<1>6. "chart" \in DOMAIN after => "chart" \in DOMAIN View /\ after["chart"] = View["chart"]
  BY <1>1, <1>4, PartNames
<1> HIDE DEF after
<1>7. Refers(after, sheets, rowIds, edits)
  <2>1. ASSUME NEW s \in ToSet(sheets), NEW q \in DOMAIN after[s.path].cells
        PROVE  Keeps(after[s.path].cells[q].ref, s.name, sheets, rowIds, edits)
    <3>1. CASE s.path # path
      <4>1. after[s.path] = View[s.path]
        BY <1>2, <1>4, <3>1
      <4>2. QED
        BY <4>1 DEF RefersNow, Refers, CellsKeep
    <3>2. CASE s.path = path
      <4>1. s.name = name
        BY <3>2, SheetsAreTheirPaths DEF path
      <4>2. after[s.path] = part
        BY <1>4, <3>2
      <4>3. CASE q = row
        BY <1>1, <4>1, <4>2, <4>3
      <4>4. CASE q # row
        <5>1. q \in DOMAIN View[s.path].cells /\ part.cells[q].ref = View[s.path].cells[q].ref
          BY <1>1, <3>2, <4>2, <4>4
        <5>2. QED
          BY <4>2, <5>1 DEF RefersNow, Refers, CellsKeep
      <4>5. QED
        BY <4>3, <4>4
    <3>3. QED
      BY <3>1, <3>2
  <2>2. ChartKeeps(after, sheets, rowIds, edits)
    BY <1>6 DEF RefersNow, Refers, ChartKeeps
  <2>3. NamesKeep(after["workbook"], sheets, rowIds, edits) /\ Scoped(after)
    BY <1>5 DEF RefersNow, Refers, Scoped
  <2>4. QED
    BY <2>1, <2>2, <2>3 DEF RefersNow, Refers, CellsKeep
<1>8. Refers(after, sheets, rowIds, edits + 1)
  BY <1>2, <1>7, RefersLater
<1>9. Refers(Recalculated(after), sheets, rowIds, edits + 1)
  BY <1>1, <1>8, RefersRecalculated
<1>10. QED
  BY <1>1, <1>8, <1>9 DEF RefersNow

\* The names of a workbook that is shifted refer as they did.
LEMMA NamesShiftKeep ==
  ASSUME IInv, RefersNow, NEW plan, IsPlan(plan), NEW t \in ToSet(sheets), NEW w,
         w.entries = View["workbook"].entries,
         DOMAIN w.names = DOMAIN View["workbook"].names,
         \A i \in DOMAIN View["workbook"].names :
           LET old == View["workbook"].names[i]  new == w.names[i]
           IN new.scope = old.scope /\ new.ref = ShiftRef(old.ref, NameSource(old), t.name, plan)
  PROVE  /\ NamesKeep(w, sheets, ShiftedIds(rowIds, t.path, plan), edits + 1)
         /\ \A i \in DOMAIN w.names : ScopedName(w.names[i], w.entries, View["rels"])
<1> DEFINE v == View["workbook"]
<1>1. WellFormed(View)
  BY ListedThere
<1>2. ASSUME NEW i \in DOMAIN v.names
      PROVE  /\ Keeps(w.names[i].ref, ScopeName(w, w.names[i]), sheets,
                      ShiftedIds(rowIds, t.path, plan), edits + 1)
             /\ ScopedName(w.names[i], w.entries, View["rels"])
  <2> DEFINE old == v.names[i]
             new == w.names[i]
             ref == old.ref
             scope == ScopeName(v, old)
             source == NameSource(old)
             moved == ShiftRef(ref, source, t.name, plan)
  <2>1. new.scope = old.scope /\ new.ref = moved
    OBVIOUS
  <2>2. ref \in References
    BY <1>1, ReferencesThere
  <2>3. ScopedName(old, v.entries, View["rels"])
    BY DEF RefersNow, Refers, Scoped
  <2>4. Keeps(ref, scope, sheets, rowIds, edits)
    BY DEF RefersNow, Refers, NamesKeep
  <2>5. IsRef(ref) => Meant(ref, source) = Meant(ref, scope)
    BY <2>3, ScopeIsSource
  <2>6. Places(sheets, rowIds, edits)
    BY DEF RefersNow, Refers
  <2>7. ScopeName(w, new) = scope
    <3> HIDE DEF v
    <3>1. w.entries = v.entries
      BY DEF v
    <3> HIDE DEF new, old
    <3>2. QED
      BY <2>1, <3>1, Zenon DEF ScopeName
  <2> HIDE DEF scope, source
  <2>8. Keeps(moved, scope, sheets, ShiftedIds(rowIds, t.path, plan), edits + 1)
    BY <2>2, <2>4, <2>5, <2>6, ShiftedRefKeeps
  <2>9. IsRef(moved) => IsRef(ref) /\ (Sheetless(moved) => Sheetless(ref))
    <3> HIDE DEF ref
    <3>1. CASE moved = ref
      BY <3>1
    <3>2. CASE moved = Tombstone(ref)
      BY <2>2, <3>2, TombstoneIsLeft
    <3>3. CASE moved = [ref EXCEPT !.row = MovedRow(plan, ref.row)] /\ IsRef(ref)
      <4>1. moved.sheet = ref.sheet
        BY <2>2, <3>3 DEF References
      <4>2. QED
        BY <3>3, <4>1, Zenon DEF Sheetless
    <3>4. QED
      BY <3>1, <3>2, <3>3, Zenon DEF ShiftRef, IsTarget
  <2>10. ScopedName(new, w.entries, View["rels"])
    <3> HIDE DEF moved, v, old, new
    <3>1. w.entries = v.entries
      BY DEF v
    <3> HIDE DEF ref
    <3>2. IsRef(new.ref) /\ Sheetless(new.ref) => IsRef(old.ref) /\ Sheetless(old.ref)
      BY <2>1, <2>9 DEF ref
    <3>3. QED
      BY <2>1, <2>3, <3>1, <3>2 DEF ScopedName
  <2>11. QED
    BY <2>1, <2>7, <2>8, <2>10
<1>3. QED
  BY <1>2 DEF NamesKeep

\* The references follow their rows when rows are inserted or deleted.
LEMMA ShiftRefers ==
  ASSUME IInv, RefersNow, NEW name \in Names, NEW plan, NEW c, Shifting(name, plan, c)
  PROVE  RefersNow'
<1> DEFINE after == Patched(View, c, {})
           v == View["workbook"]
           w == c["workbook"]
<1>1. /\ WellFormed(View) /\ sheets = Listing1(View)
      /\ \A s \in ToSet(sheets) : s.path \in SheetPaths \cap DOMAIN View
      /\ {"workbook", "rels", "types"} \subseteq DOMAIN View
      /\ edits \in Nat
  BY ListedThere
<1>2. PICK t \in ToSet(sheets) : t.name = name /\ t.path = PathOf(name)
  BY SheetOfName
<1> DEFINE to == ShiftedIds(rowIds, t.path, plan)
<1>3. /\ IsPlan(plan) /\ DOMAIN c \subseteq DOMAIN View /\ "rels" \notin DOMAIN c
      /\ "workbook" \in DOMAIN c
      /\ "chart" \in DOMAIN View =>
           "chart" \in DOMAIN c /\ c["chart"].ref = ShiftRef(View["chart"].ref, Nowhere, name, plan)
      /\ WellFormed(after) /\ Listing1(after) = sheets
      /\ View' = Recalculated(after) /\ sheets' = sheets /\ edits' = edits + 1 /\ rowIds' = to
  BY <1>2 DEF Shifting, ShiftedIds
<1>4. /\ DOMAIN after = DOMAIN View /\ \A p \in DOMAIN c : after[p] = c[p]
      /\ after["rels"] = View["rels"] /\ after["workbook"] = w
  BY <1>1, <1>3 DEF Patched
<1>5. Places(sheets, rowIds, edits) /\ Places(sheets, to, edits + 1)
  <2>1. Places(sheets, rowIds, edits)
    BY DEF RefersNow, Refers
  <2>2. t.path \in DOMAIN rowIds
    BY <2>1 DEF Places
  <2>3. QED
    BY <1>3, <2>1, <2>2, IdsOfSheets
<1> HIDE DEF to
<1>6. ASSUME NEW s \in ToSet(sheets), NEW q \in DOMAIN after[s.path].cells
      PROVE  Keeps(after[s.path].cells[q].ref, s.name, sheets, to, edits + 1)
  <2>1. s.path \in DOMAIN c /\ \A x \in DOMAIN c[s.path].cells : \E r \in DOMAIN View[s.path].cells :
          c[s.path].cells[x].ref = ShiftRef(View[s.path].cells[r].ref,
                                            IF s.path = PathOf(name) THEN name ELSE NameOf(s.path),
                                            name, plan)
    BY DEF Shifting
  <2>2. after[s.path] = c[s.path]
    BY <1>4, <2>1
  <2>3. PICK r \in DOMAIN View[s.path].cells :
          after[s.path].cells[q].ref = ShiftRef(View[s.path].cells[r].ref, s.name, name, plan)
    BY <2>1, <2>2, SourceIsName
  <2> DEFINE ref == View[s.path].cells[r].ref
  <2>4. ref \in References
    BY <1>1, ReferencesThere
  <2>5. Keeps(ref, s.name, sheets, rowIds, edits)
    BY DEF RefersNow, Refers, CellsKeep
  <2> HIDE DEF ref
  <2>6. Keeps(ShiftRef(ref, s.name, t.name, plan), s.name, sheets, ShiftedIds(rowIds, t.path, plan), edits + 1)
    BY <1>3, <1>5, <2>4, <2>5, ShiftedRefKeeps
  <2>7. QED
    BY <1>2, <2>3, <2>6 DEF to, ref
<1>7. ASSUME "chart" \in DOMAIN after PROVE Keeps(after["chart"].ref, Nowhere, sheets, to, edits + 1)
  <2> DEFINE ref == View["chart"].ref
  <2>1. after["chart"].ref = ShiftRef(ref, Nowhere, name, plan)
    BY <1>3, <1>4, <1>7
  <2>2. ref \in References
    BY <1>1, <1>4, <1>7, ReferencesThere
  <2>3. Keeps(ref, Nowhere, sheets, rowIds, edits)
    BY <1>4, <1>7 DEF RefersNow, Refers, ChartKeeps
  <2> HIDE DEF ref
  <2>4. Keeps(ShiftRef(ref, Nowhere, t.name, plan), Nowhere, sheets, ShiftedIds(rowIds, t.path, plan), edits + 1)
    BY <1>3, <1>5, <2>2, <2>3, ShiftedRefKeeps
  <2>5. QED
    BY <1>2, <2>1, <2>4 DEF to
<1>8. NamesKeep(w, sheets, to, edits + 1) /\ \A i \in DOMAIN w.names : ScopedName(w.names[i], w.entries, View["rels"])
  <2>1. /\ w.entries = v.entries /\ DOMAIN w.names = DOMAIN v.names
        /\ \A i \in DOMAIN v.names :
             LET old == v.names[i]  new == w.names[i]
             IN new.scope = old.scope /\ new.ref = ShiftRef(old.ref, NameSource(old), t.name, plan)
    BY <1>2 DEF Shifting
  <2> HIDE DEF w
  <2>2. QED
    BY <1>3, <2>1, NamesShiftKeep DEF to
<1> HIDE DEF after, w
<1>9. Refers(after, sheets, to, edits + 1)
  <2>1. CellsKeep(after, sheets, to, edits + 1) /\ ChartKeeps(after, sheets, to, edits + 1)
    BY <1>6, <1>7 DEF CellsKeep, ChartKeeps
  <2>2. NamesKeep(after["workbook"], sheets, to, edits + 1) /\ Scoped(after)
    BY <1>4, <1>8 DEF Scoped
  <2>3. QED
    BY <1>5, <2>1, <2>2 DEF Refers
<1>10. Refers(Recalculated(after), sheets, to, edits + 1)
  BY <1>3, <1>9, RefersRecalculated
<1>11. QED
  BY <1>3, <1>10 DEF RefersNow

-----------------------------------------------------------------------------
\* The worksheets of a well-formed package are told apart.
LEMMA PlacesOf ==
  ASSUME NEW package, WellFormed(package), NEW list, list = Listing1(package), NEW n \in Nat, NEW ids,
         DOMAIN ids = {s.path : s \in ToSet(list)}, \A p \in DOMAIN ids : Sound(ids[p], n)
  PROVE  Places(list, ids, n)
<1> DEFINE e == package["workbook"].entries
           m == Len(list)
<1>1. /\ DOMAIN list = 1..m /\ e \in Seq(Entries) /\ DOMAIN e = 1..Len(e)
      /\ \A j \in 1..m : \E i \in Positions(e, package["rels"]) : list[j] = SheetOf(e, package["rels"], i)
      /\ \A j \in 1..m : list[j].path \in SheetPaths
      /\ \A j, k \in 1..m : PathKey(list[j].path) = PathKey(list[k].path) => j = k
  BY Outline
<1>2. \A j, k \in 1..m : NameKey(list[j].name) = NameKey(list[k].name) => j = k
  BY ListedNamesDiffer
<1>3. ASSUME NEW j \in 1..m PROVE list[j].name \in SheetNames
  <2>1. PICK i \in 1..Len(e) : list[j] = SheetOf(e, package["rels"], i)
    BY <1>1 DEF Positions
  <2> HIDE DEF e
  <2>2. list[j].name = e[i].name /\ e[i] \in Entries
    BY <1>1, <2>1 DEF SheetOf
  <2>3. QED
    BY <2>2 DEF Entries
<1> HIDE DEF m
<1>4. \A s \in ToSet(list) : \E j \in 1..m : s = list[j]
  BY <1>1 DEF ToSet
<1>5. \A s, t \in ToSet(list) : NameKey(s.name) = NameKey(t.name) => s = t
  BY <1>2, <1>4
<1>6. \A s, t \in ToSet(list) : s.path = t.path => s = t
  BY <1>1, <1>4
<1>7. \A s \in ToSet(list) : s.name \in SheetNames /\ s.path \in SheetPaths
  BY <1>1, <1>3, <1>4
<1>8. QED
  BY <1>5, <1>6, <1>7 DEF Places

\* No worksheet is called as a chart's formulas say that they are in none.
LEMMA OnlyNowhere ==
  ASSUME NEW list, \A s \in ToSet(list) : s.name \in SheetNames
  PROVE  OnlyName(list, Nowhere) /\ Nowhere \notin SheetNames
<1>1. \A x \in SheetNames : x # Nowhere
  BY Zenon DEF SheetNames, Nowhere
<1>2. \A x : NameKey(x) = NameKey(Nowhere) => x = Nowhere
  BY DEF NameKey, Nowhere
<1>3. QED
  BY <1>1, <1>2 DEF OnlyName

\* No worksheet is called as another entry in another case.
LEMMA OnlyEntryName ==
  ASSUME IInv, NEW i \in DOMAIN View["workbook"].entries
  PROVE  OnlyName(sheets, View["workbook"].entries[i].name)
<1> DEFINE e == View["workbook"].entries
           rels == View["rels"]
           m == Len(sheets)
<1>1. WellFormed(View) /\ sheets = Listing1(View)
  BY ListedThere
<1>2. /\ DOMAIN sheets = 1..m /\ DOMAIN e = 1..Len(e)
      /\ \A j \in 1..m : \E k \in Positions(e, rels) : sheets[j] = SheetOf(e, rels, k)
      /\ \A j, k \in 1..Len(e) : NameKey(e[j].name) = NameKey(e[k].name) => j = k
  BY <1>1, Outline
<1> HIDE DEF e, rels, m
<1>3. ASSUME NEW s \in ToSet(sheets), NameKey(s.name) = NameKey(e[i].name) PROVE s.name = e[i].name
  <2>1. PICK j \in 1..m : s = sheets[j]
    BY <1>2 DEF ToSet
  <2>2. PICK k \in 1..Len(e) : sheets[j] = SheetOf(e, rels, k)
    BY <1>2 DEF Positions
  <2>3. s.name = e[k].name
    BY <2>1, <2>2 DEF SheetOf
  <2>4. i \in 1..Len(e)
    BY <1>2 DEF e
  <2>5. k = i
    BY <1>2, <1>3, <2>3, <2>4
  <2>6. QED
    BY <2>3, <2>5
<1>4. QED
  BY <1>3 DEF OnlyName, e

\* The worksheets after one was renamed are those that there were.
LEMMA RenamedSheets ==
  ASSUME IInv, NEW old, NEW new
  PROVE  LET after == Renamed(sheets, old, new)
         IN /\ RenamedIn(sheets, after, old, new)
            /\ \A t \in ToSet(after) : \E s \in ToSet(sheets) :
                 t.path = s.path /\ t.name = IF s.name = old THEN new ELSE s.name
<1> DEFINE after == Renamed(sheets, old, new)
           e == View["workbook"].entries
           rels == View["rels"]
           m == Len(sheets)
<1>1. WellFormed(View) /\ sheets = Listing1(View)
  BY ListedThere
<1>2. /\ DOMAIN sheets = 1..m
      /\ \A j \in 1..m : \E k \in Positions(e, rels) : sheets[j] = SheetOf(e, rels, k)
  BY <1>1, Outline
<1>3. /\ DOMAIN after = 1..m
      /\ \A j \in 1..m : after[j] = IF sheets[j].name = old THEN [sheets[j] EXCEPT !.name = new] ELSE sheets[j]
  BY <1>2 DEF Renamed
<1> HIDE DEF after, e, rels, m
<1>4. ASSUME NEW j \in 1..m
      PROVE  /\ after[j].path = sheets[j].path
             /\ after[j].name = IF sheets[j].name = old THEN new ELSE sheets[j].name
  <2> DEFINE s == sheets[j]
             t == after[j]
  <2>1. PICK k : s = SheetOf(e, rels, k)
    BY <1>2
  <2>2. s = [name |-> s.name, path |-> s.path]
    BY <2>1 DEF SheetOf
  <2>3. t = IF s.name = old THEN [s EXCEPT !.name = new] ELSE s
    BY <1>3
  <2> HIDE DEF s, t
  <2>4. t.path = s.path /\ t.name = IF s.name = old THEN new ELSE s.name
    BY <2>2, <2>3
  <2>5. QED
    BY <2>4 DEF s, t
<1>5. /\ \A s \in ToSet(sheets) : \E j \in 1..m : s = sheets[j]
      /\ \A t \in ToSet(after) : \E j \in 1..m : t = after[j]
      /\ \A j \in 1..m : sheets[j] \in ToSet(sheets) /\ after[j] \in ToSet(after)
  BY <1>2, <1>3 DEF ToSet
<1>6. RenamedIn(sheets, after, old, new)
  BY <1>4, <1>5 DEF RenamedIn
<1>7. \A t \in ToSet(after) : \E s \in ToSet(sheets) :
        t.path = s.path /\ t.name = IF s.name = old THEN new ELSE s.name
  BY <1>4, <1>5
<1>8. QED
  BY <1>6, <1>7 DEF after

\* A renamed reference is a reference, with a sheet if it had one.
LEMMA RenamedReference ==
  ASSUME NEW ref \in References, NEW old, NEW new \in SheetNames
  PROVE  LET now == RenameRef(ref, old, new)
         IN (IsRef(now) <=> IsRef(ref)) /\ (Sheetless(now) => Sheetless(ref))
<1> DEFINE now == RenameRef(ref, old, new)
           renamed == [ref EXCEPT !.sheet = new]
<1>1. now = ref \/ now = renamed
  BY Zenon DEF RenameRef
<1>2. renamed.sheet = new /\ renamed.row = ref.row
  BY DEF References
<1> HIDE DEF now, renamed
<1>3. ~Sheetless(renamed)
  BY <1>2, SheetNamesAreSheets
<1>4. IsRef(renamed) <=> IsRef(ref)
  BY <1>2 DEF IsRef
<1>5. QED
  BY <1>1, <1>3, <1>4 DEF now

\* The names of a workbook with a worksheet renamed refer as they did.
LEMMA NamesRenameKeep ==
  ASSUME IInv, RefersNow, NEW old \in SheetNames, NEW new \in SheetNames,
         NEW after, RenamedIn(sheets, after, old, new), OnlyName(sheets, old),
         NEW w, w.entries = Renamed(View["workbook"].entries, old, new), w.entries \in Seq(Entries),
         DOMAIN w.names = DOMAIN View["workbook"].names,
         \A i \in DOMAIN View["workbook"].names :
           LET was == View["workbook"].names[i]  now == w.names[i]
           IN now.scope = was.scope /\ now.ref = RenameRef(was.ref, old, new)
  PROVE  /\ NamesKeep(w, after, rowIds, edits)
         /\ \A i \in DOMAIN w.names : ScopedName(w.names[i], w.entries, View["rels"])
<1> DEFINE v == View["workbook"]
           e == v.entries
           d == w.entries
<1>1. WellFormed(View)
  BY ListedThere
<1>2. e \in Seq(Entries) /\ DOMAIN e = 1..Len(e) /\ Len(e) \in Nat
  BY <1>1, Outline
<1>3. d = Renamed(e, old, new) /\ d \in Seq(Entries)
  OBVIOUS
<1>4. \A i \in 1..Len(e) : d[i].rid = e[i].rid /\ d[i].name = IF e[i].name = old THEN new ELSE e[i].name
  <2> HIDE DEF e, d
  <2>1. LET f == Renamed(e, old, new)
        IN /\ DOMAIN e = 1..Len(e) /\ Len(e) \in Nat /\ DOMAIN f = 1..Len(e) /\ Len(f) = Len(e)
           /\ \A i \in 1..Len(e) :
                f[i].id = e[i].id /\ f[i].rid = e[i].rid
                /\ f[i].name = IF e[i].name = old THEN new ELSE e[i].name
    BY <1>2, <1>3, RenamedEntries
  <2>2. QED
    BY <1>3, <2>1
<1>5. ASSUME NEW i \in DOMAIN v.names
      PROVE  /\ Keeps(w.names[i].ref, ScopeName(w, w.names[i]), after, rowIds, edits)
             /\ ScopedName(w.names[i], d, View["rels"])
  <2> DEFINE was == v.names[i]
             now == w.names[i]
             ref == was.ref
             scope == ScopeName(v, was)
             renamed == RenameRef(ref, old, new)
  <2>1. now.scope = was.scope /\ now.ref = renamed
    OBVIOUS
  <2>2. ref \in References /\ was.scope \in (-1)..(Len(e) - 1)
    BY <1>1, ReferencesThere
  <2>3. ScopedName(was, e, View["rels"])
    BY DEF RefersNow, Refers, Scoped
  <2>4. Keeps(ref, scope, sheets, rowIds, edits)
    BY DEF RefersNow, Refers, NamesKeep
  <2>5. OnlyName(sheets, scope) /\ ScopeName(w, now) = IF scope = old THEN new ELSE scope
    <3>1. CASE was.scope < 0
      <4>1. scope = Nowhere
        BY <3>1, Zenon DEF ScopeName, Nowhere
      <4>2. ScopeName(w, now) = Nowhere
        BY <2>1, <3>1, Zenon DEF ScopeName, Nowhere
      <4>3. \A s \in ToSet(sheets) : s.name \in SheetNames
        BY DEF RefersNow, Refers, Places
      <4>4. OnlyName(sheets, Nowhere) /\ Nowhere # old
        BY <4>3, OnlyNowhere
      <4> HIDE DEF scope, now
      <4>5. QED
        BY <4>1, <4>2, <4>4
    <3>2. CASE ~(was.scope < 0)
      <4> DEFINE k == was.scope + 1
      <4>1. k \in 1..Len(e)
        BY <1>2, <2>2, <3>2
      <4>2. scope = e[k].name
        BY <3>2, Zenon DEF ScopeName
      <4>3. ScopeName(w, now) = d[k].name
        BY <2>1, <3>2, Zenon DEF ScopeName
      <4>4. OnlyName(sheets, e[k].name)
        BY <1>2, <4>1, OnlyEntryName
      <4> HIDE DEF scope, now, k, e, d
      <4>5. d[k].name = IF e[k].name = old THEN new ELSE e[k].name
        BY <1>4, <4>1
      <4>6. QED
        BY <4>2, <4>3, <4>4, <4>5
    <3>3. QED
      BY <3>1, <3>2
  <2> HIDE DEF scope
  <2>6. Keeps(renamed, IF scope = old THEN new ELSE scope, after, rowIds, edits)
    BY <2>2, <2>4, <2>5, RenamedRefKeeps
  <2>7. (IsRef(renamed) <=> IsRef(ref)) /\ (Sheetless(renamed) => Sheetless(ref))
    BY <2>2, RenamedReference
  <2>8. ScopedName(now, d, View["rels"])
    <3> HIDE DEF renamed, v, e, d, was, now
    <3>1. \A j \in 1..(was.scope + 1) : j \in 1..Len(e)
      BY <1>2, <2>2
    <3>2. IsRef(now.ref) /\ Sheetless(now.ref) => IsRef(was.ref) /\ Sheetless(was.ref)
      BY <2>1, <2>7
    <3> HIDE DEF ref
    <3>3. QED
      BY <1>4, <2>1, <2>3, <3>1, <3>2 DEF ScopedName
  <2>9. QED
    BY <2>1, <2>5, <2>6, <2>8
<1>6. QED
  BY <1>5 DEF NamesKeep

\* The references follow their rows when a worksheet is renamed, if every
\* worksheet is among the parts whose formulas are rewritten.
LEMMA RenameRefers ==
  ASSUME IInv, RefersNow, NEW old \in Names, NEW new \in SheetNames, NEW c, Renaming(old, new, c),
         "data" \notin DOMAIN View
  PROVE  RefersNow'
<1> DEFINE after == Patched(View, c, {})
           list == Renamed(sheets, old, new)
           w == c["workbook"]
<1>1. /\ WellFormed(View) /\ sheets = Listing1(View)
      /\ \A s \in ToSet(sheets) : s.path \in SheetPaths \cap DOMAIN View
      /\ {"workbook", "rels", "types"} \subseteq DOMAIN View
      /\ edits \in Nat
  BY ListedThere
<1>2. Renames(View, c, old, new)
  BY DEF Renaming
<1>3. WellFormed(after) /\ Listing1(after) = list
  BY <1>1, <1>2, RenamedIsWellFormed
<1>4. /\ View' = Recalculated(after) /\ sheets' = list /\ edits' = edits + 1 /\ rowIds' = rowIds
  BY DEF Renaming
<1>5. /\ DOMAIN c \subseteq DOMAIN View /\ "rels" \notin DOMAIN c /\ "workbook" \in DOMAIN c
      /\ w.entries = Renamed(View["workbook"].entries, old, new) /\ w.entries \in Seq(Entries)
  BY <1>2 DEF Renames, Workbooks
<1>6. /\ DOMAIN after = DOMAIN View /\ \A p \in DOMAIN c : after[p] = c[p]
      /\ after["rels"] = View["rels"] /\ after["workbook"] = w
  BY <1>1, <1>5 DEF Patched
<1>7. Places(sheets, rowIds, edits)
  BY DEF RefersNow, Refers
<1>8. /\ RenamedIn(sheets, list, old, new)
      /\ \A t \in ToSet(list) : \E s \in ToSet(sheets) :
           t.path = s.path /\ t.name = IF s.name = old THEN new ELSE s.name
  BY RenamedSheets
<1> HIDE DEF list
<1>9. Places(list, rowIds, edits)
  <2>1. {t.path : t \in ToSet(list)} = {s.path : s \in ToSet(sheets)}
    BY <1>8 DEF RenamedIn
  <2>2. DOMAIN rowIds = {t.path : t \in ToSet(list)} /\ \A p \in DOMAIN rowIds : Sound(rowIds[p], edits)
    BY <1>7, <2>1 DEF Places
  <2> HIDE DEF after
  <2>3. QED
    BY <1>1, <1>3, <2>2, PlacesOf
<1>10. /\ OnlyName(sheets, old) /\ old \in SheetNames /\ old # Nowhere
       /\ \A s \in ToSet(sheets) : OnlyName(sheets, s.name)
       /\ OnlyName(sheets, Nowhere)
  <2>1. PICK t \in ToSet(sheets) : t.name = old
    BY DEF Names
  <2>2. /\ \A s \in ToSet(sheets) : s.name \in SheetNames
        /\ \A s, u \in ToSet(sheets) : NameKey(s.name) = NameKey(u.name) => s = u
    BY <1>7 DEF Places
  <2>3. \A s \in ToSet(sheets) : OnlyName(sheets, s.name)
    BY <2>2 DEF OnlyName
  <2>4. OnlyName(sheets, Nowhere) /\ Nowhere \notin SheetNames
    BY <2>2, OnlyNowhere
  <2>5. old \in SheetNames
    BY <2>1, <2>2
  <2>6. QED
    BY <2>1, <2>3, <2>4, <2>5
<1>11. ASSUME NEW t \in ToSet(list), NEW q \in DOMAIN after[t.path].cells
       PROVE  Keeps(after[t.path].cells[q].ref, t.name, list, rowIds, edits)
  <2>1. PICK s \in ToSet(sheets) : t.path = s.path /\ t.name = IF s.name = old THEN new ELSE s.name
    BY <1>8
  <2>2. s.path \in (SheetPaths \ {"data"}) \cap DOMAIN View
    BY <1>1
  <2>3. /\ s.path \in DOMAIN c
        /\ \A x \in DOMAIN c[s.path].cells :
             /\ x \in DOMAIN View[s.path].cells
             /\ c[s.path].cells[x].ref = RenameRef(View[s.path].cells[x].ref, old, new)
    BY <2>2 DEF Renaming
  <2>4. after[t.path] = c[s.path]
    BY <1>6, <2>1, <2>3
  <2> DEFINE ref == View[s.path].cells[q].ref
  <2>5. q \in DOMAIN View[s.path].cells /\ after[t.path].cells[q].ref = RenameRef(ref, old, new)
    BY <2>3, <2>4
  <2>6. ref \in References
    BY <1>1, <2>5, ReferencesThere
  <2>7. Keeps(ref, s.name, sheets, rowIds, edits)
    BY <2>5 DEF RefersNow, Refers, CellsKeep
  <2> HIDE DEF ref
  <2>8. Keeps(RenameRef(ref, old, new), IF s.name = old THEN new ELSE s.name, list, rowIds, edits)
    BY <1>8, <1>10, <2>6, <2>7, RenamedRefKeeps
  <2>9. QED
    BY <2>1, <2>5, <2>8
<1>12. ASSUME "chart" \in DOMAIN after PROVE Keeps(after["chart"].ref, Nowhere, list, rowIds, edits)
  <2> DEFINE ref == View["chart"].ref
  <2>1. "chart" \in DOMAIN c /\ c["chart"].ref = RenameRef(ref, old, new)
    BY <1>6, <1>12 DEF Renaming
  <2>2. ref \in References
    BY <1>1, <1>6, <1>12, ReferencesThere
  <2>3. Keeps(ref, Nowhere, sheets, rowIds, edits)
    BY <1>6, <1>12 DEF RefersNow, Refers, ChartKeeps
  <2> HIDE DEF ref
  <2>4. Keeps(RenameRef(ref, old, new), IF Nowhere = old THEN new ELSE Nowhere, list, rowIds, edits)
    BY <1>8, <1>10, <2>2, <2>3, RenamedRefKeeps
  <2>5. (IF Nowhere = old THEN new ELSE Nowhere) = Nowhere
    BY <1>10
  <2>6. QED
    BY <1>6, <2>1, <2>4, <2>5
<1>13. NamesKeep(w, list, rowIds, edits) /\ \A i \in DOMAIN w.names : ScopedName(w.names[i], w.entries, View["rels"])
  <2>1. /\ DOMAIN w.names = DOMAIN View["workbook"].names
        /\ \A i \in DOMAIN View["workbook"].names :
             LET was == View["workbook"].names[i]  now == w.names[i]
             IN now.scope = was.scope /\ now.ref = RenameRef(was.ref, old, new)
    BY DEF Renaming
  <2> HIDE DEF w
  <2>2. QED
    BY <1>5, <1>8, <1>10, <2>1, NamesRenameKeep
<1> HIDE DEF after, w
<1>14. Refers(after, list, rowIds, edits)
  <2>1. CellsKeep(after, list, rowIds, edits) /\ ChartKeeps(after, list, rowIds, edits)
    BY <1>11, <1>12 DEF CellsKeep, ChartKeeps
  <2>2. NamesKeep(after["workbook"], list, rowIds, edits) /\ Scoped(after)
    BY <1>6, <1>13 DEF Scoped
  <2>3. QED
    BY <1>9, <2>1, <2>2 DEF Refers
<1>15. Refers(after, list, rowIds, edits + 1)
  BY <1>1, <1>14, RefersLater
<1>16. Refers(Recalculated(after), list, rowIds, edits + 1)
  BY <1>3, <1>15, RefersRecalculated
<1>17. QED
  BY <1>4, <1>16 DEF RefersNow

\* A number format changes no reference.
LEMMA FormatRefers ==
  ASSUME IInv, RefersNow, NEW path, NEW first \in Rows, NEW last \in Rows,
         NEW code \in Texts, NEW c, NEW link, NEW start, NEW plan,
         Formatting(path, first, last, code, c, link, start, plan),
         IsFormatted(View[path], c[path], plan.targets, first, last)
  PROVE  RefersNow'
<1> DEFINE after == Patched(View, c, {})
           v == View["workbook"]
<1>1. /\ WellFormed(View) /\ sheets = Listing1(View)
      /\ \A s \in ToSet(sheets) : s.path \in SheetPaths \cap DOMAIN View
      /\ {"workbook", "rels", "types"} \subseteq DOMAIN View
      /\ edits \in Nat
  BY ListedThere
<1>2. /\ Formats(View, c, path, link) /\ Apply(c, {}) /\ original' = original
      /\ edits' = edits + 1 /\ sheets' = sheets /\ rowIds' = rowIds
  BY DEF Formatting
<1>3. View' = after
  BY <1>2, ViewAfterApply
<1>4. /\ path \in SheetPaths \cap DOMAIN View /\ path \in DOMAIN c
      /\ DOMAIN c \subseteq {path, "styles", "rels", "types"}
      /\ "rels" \in DOMAIN c => link \in Nat /\ link \notin DOMAIN View["rels"]
           /\ c["rels"] = With(View["rels"], Single(link, [kind |-> "styles", path |-> "styles"]))
  <2>1. /\ path \in SheetPaths \cap DOMAIN View
        /\ IF "styles" \in DOMAIN View THEN DOMAIN c = {path, "styles"}
           ELSE /\ DOMAIN c = {path, "styles", "rels", "types"}
                /\ link \in Nat /\ link \notin DOMAIN View["rels"]
                /\ c["rels"] = With(View["rels"], Single(link, [kind |-> "styles", path |-> "styles"]))
    BY <1>2 DEF Formats
  <2>2. path # "rels" /\ path # "types" /\ path # "styles"
    BY <2>1, PartNames
  <2>3. QED
    BY <2>1, <2>2
<1>5. /\ path # "workbook" /\ path # "chart"
      /\ DOMAIN after = DOMAIN View \cup DOMAIN c
      /\ \A p \in DOMAIN after : after[p] = IF p \in DOMAIN c THEN c[p] ELSE View[p]
  BY <1>4, PartNames DEF Patched
<1>6. \A p \in DOMAIN c : after[p] = c[p]
  BY DEF Patched
<1>7. /\ after["workbook"] = v
      /\ "chart" \in DOMAIN after => "chart" \in DOMAIN View /\ after["chart"] = View["chart"]
      /\ after[path] = c[path]
      /\ \A s \in ToSet(sheets) : s.path # path => after[s.path] = View[s.path]
  BY <1>1, <1>4, <1>5, PartNames
<1>8. \A r \in DOMAIN View["rels"] : after["rels"][r] = View["rels"][r]
  <2>1. CASE "rels" \notin DOMAIN c
    BY <1>1, <1>5, <2>1
  <2>2. CASE "rels" \in DOMAIN c
    <3> DEFINE more == Single(link, [kind |-> "styles", path |-> "styles"])
    <3>1. DOMAIN more = {link}
      BY DEF Single
    <3>2. c["rels"] = With(View["rels"], more) /\ link \notin DOMAIN View["rels"]
      BY <1>4, <2>2
    <3> HIDE DEF more, after
    <3>3. after["rels"] = With(View["rels"], more)
      BY <1>6, <2>2, <3>2
    <3> DEFINE was == View["rels"]
    <3>4. \A r \in DOMAIN was : r \notin DOMAIN more => With(was, more)[r] = was[r]
      BY WithParts
    <3>5. \A r \in DOMAIN was : r \notin DOMAIN more
      BY <3>1, <3>2
    <3>6. QED
      BY <3>3, <3>4, <3>5
  <2>3. QED
    BY <2>1, <2>2
<1> HIDE DEF after
<1>9. ASSUME NEW s \in ToSet(sheets), NEW q \in DOMAIN after[s.path].cells
      PROVE  Keeps(after[s.path].cells[q].ref, s.name, sheets, rowIds, edits)
  <2>1. CASE s.path # path
    <3>1. after[s.path] = View[s.path]
      BY <1>7, <2>1
    <3>2. QED
      BY <3>1 DEF RefersNow, Refers, CellsKeep
  <2>2. CASE s.path = path
    <3>1. q \in DOMAIN c[path].cells /\ after[s.path] = c[path]
      BY <1>7, <2>2
    <3>2. c[path].cells[q].ref = IF q \in DOMAIN View[path].cells THEN View[path].cells[q].ref ELSE NoRef
      BY <3>1 DEF IsFormatted
    <3>3. CASE q \in DOMAIN View[path].cells
      <4>1. after[s.path].cells[q].ref = View[s.path].cells[q].ref
        BY <2>2, <3>1, <3>2, <3>3
      <4>2. q \in DOMAIN View[s.path].cells
        BY <2>2, <3>3
      <4>3. QED
        BY <4>1, <4>2 DEF RefersNow, Refers, CellsKeep
    <3>4. CASE q \notin DOMAIN View[path].cells
      BY <3>1, <3>2, <3>4, NoRefKeeps
    <3>5. QED
      BY <3>3, <3>4
  <2>3. QED
    BY <2>1, <2>2
<1>10. Scoped(after)
  <2> DEFINE e == v.entries
  <2>1. DOMAIN e = 1..Len(e) /\ Len(e) \in Nat /\ \A i \in 1..Len(e) : e[i].rid \in DOMAIN View["rels"]
    BY <1>1, Outline
  <2>2. ASSUME NEW i \in DOMAIN v.names PROVE ScopedName(v.names[i], e, after["rels"])
    <3> DEFINE name == v.names[i]
    <3>1. ScopedName(name, e, View["rels"])
      BY DEF RefersNow, Refers, Scoped
    <3>2. name.scope \in (-1)..(Len(e) - 1)
      BY <1>1, ReferencesThere
    <3> HIDE DEF name, e, v
    <3>3. \A j \in 1..(name.scope + 1) : j \in 1..Len(e)
      BY <2>1, <3>2
    <3>4. QED
      BY <1>8, <2>1, <3>1, <3>3 DEF ScopedName, name
  <2>3. QED
    BY <1>7, <2>2 DEF Scoped
<1>11. Refers(after, sheets, rowIds, edits)
  <2>1. CellsKeep(after, sheets, rowIds, edits)
    BY <1>9 DEF CellsKeep
  <2>2. ChartKeeps(after, sheets, rowIds, edits)
    BY <1>7 DEF RefersNow, Refers, ChartKeeps
  <2>3. NamesKeep(after["workbook"], sheets, rowIds, edits)
    BY <1>7 DEF RefersNow, Refers
  <2>4. QED
    BY <1>10, <2>1, <2>2, <2>3 DEF RefersNow, Refers
<1>12. Refers(after, sheets, rowIds, edits + 1)
  BY <1>1, <1>11, RefersLater
<1>13. QED
  BY <1>2, <1>3, <1>12 DEF RefersNow

\* The list with a worksheet more has that one and the others.
LEMMA SheetsOfOneMore ==
  ASSUME NEW list, NEW m \in Nat, m = Len(list), DOMAIN list = 1..m, NEW place \in 0..m, NEW x
  PROVE  ToSet(OneMore(list, place, x)) = ToSet(list) \cup {x}
<1> DEFINE more == OneMore(list, place, x)
<1>1. /\ DOMAIN more = 1..(m + 1)
      /\ \A j \in 1..(m + 1) :
           more[j] = IF j <= place THEN list[j] ELSE IF j = place + 1 THEN x ELSE list[j - 1]
  BY DEF OneMore
<1> HIDE DEF more
<1>2. ASSUME NEW j \in 1..(m + 1) PROVE more[j] = x \/ \E k \in 1..m : more[j] = list[k]
  <2>1. CASE j <= place
    <3>1. j \in 1..m /\ more[j] = list[j]
      BY <1>1, <2>1
    <3>2. QED
      BY <3>1
  <2>2. CASE j = place + 1
    BY <1>1, <2>2
  <2>3. CASE j > place + 1
    <3>1. j - 1 \in 1..m /\ more[j] = list[j - 1]
      BY <1>1, <2>3
    <3>2. QED
      BY <3>1
  <2>4. QED
    BY <2>1, <2>2, <2>3
<1>3. ASSUME NEW k \in 1..m PROVE \E j \in 1..(m + 1) : more[j] = list[k]
  <2>1. CASE k <= place
    <3>1. k \in 1..(m + 1) /\ more[k] = list[k]
      BY <1>1, <2>1
    <3>2. QED
      BY <3>1
  <2>2. CASE k > place
    <3>1. k + 1 \in 1..(m + 1) /\ ~(k + 1 <= place) /\ k + 1 # place + 1 /\ (k + 1) - 1 = k
      BY <2>2
    <3>2. more[k + 1] = list[(k + 1) - 1]
      BY <1>1, <3>1
    <3>3. QED
      BY <3>1, <3>2
  <2>3. QED
    BY <2>1, <2>2
<1>4. place + 1 \in 1..(m + 1) /\ more[place + 1] = x
  BY <1>1
<1>5. /\ \A y : y \in ToSet(list) <=> \E k \in 1..m : y = list[k]
      /\ \A y : y \in ToSet(more) <=> \E j \in 1..(m + 1) : y = more[j]
  BY <1>1 DEF ToSet
<1>6. ASSUME NEW y PROVE y \in ToSet(more) <=> y \in ToSet(list) \cup {x}
  <2>1. ASSUME NEW j \in 1..(m + 1), y = more[j] PROVE y \in ToSet(list) \cup {x}
    BY <1>2, <1>5, <2>1
  <2>2. ASSUME NEW k \in 1..m, y = list[k] PROVE y \in ToSet(more)
    BY <1>3, <1>5, <2>2
  <2>3. x \in ToSet(more)
    BY <1>4, <1>5
  <2>4. QED
    BY <1>5, <2>1, <2>2, <2>3
<1>7. QED
  BY <1>6 DEF more

\* An entry for a worksheet is inserted into a workbook with a name.
NameAtInsert(v, entry, at, w, i, rels, links) ==
  /\ v \in Workbooks /\ Indexed(v) /\ entry \in Entries /\ at \in 0..Len(v.entries)
  /\ w = Inserting(v, at, entry) /\ i \in DOMAIN v.names
  /\ \A j \in 1..Len(v.entries) : links[v.entries[j].rid] = rels[v.entries[j].rid]
  /\ links[entry.rid].kind = "worksheet"
  /\ ScopedName(v.names[i], v.entries, rels)

\* The name refers as it did.
NameKept(v, w, i, links) ==
  /\ w.names[i].ref = v.names[i].ref
  /\ ScopeName(w, w.names[i]) = ScopeName(v, v.names[i])
  /\ ScopedName(w.names[i], w.entries, links)

\* The names of a workbook with an entry more refer as they did.
LEMMA NamesInsertKeep ==
  ASSUME NEW v, NEW entry, NEW at, NEW w, NEW i, NEW rels, NEW links,
         NameAtInsert(v, entry, at, w, i, rels, links)
  PROVE  NameKept(v, w, i, links)
<1> USE DEF NameAtInsert
<1> DEFINE e == v.entries
           d == w.entries
           was == v.names[i].scope
           now == w.names[i].scope
<1>1. /\ e \in Seq(Entries) /\ Len(e) \in Nat /\ DOMAIN e = 1..Len(e)
      /\ was \in (-1)..(Len(e) - 1)
  BY DEF Workbooks, Indexed
<1>2. /\ d = InsertAt(e, at + 1, entry)
      /\ DOMAIN w.names = DOMAIN v.names
      /\ w.names[i].ref = v.names[i].ref
      /\ now = IF was >= at THEN was + 1 ELSE was
  BY EntryInserted
<1>3. at \in 0..Len(e)
  OBVIOUS
<1> HIDE DEF e, d, was, now
<1>4. \A j \in 1..(Len(e) + 1) :
        d[j] = IF j < at + 1 THEN e[j] ELSE IF j = at + 1 THEN entry ELSE e[j - 1]
  <2>1. HasInserted(d, e, at, entry)
    BY <1>1, <1>2, <1>3, InsertedThere
  <2>2. QED
    BY <2>1 DEF HasInserted
<1>5. ScopeName(w, w.names[i]) = ScopeName(v, v.names[i])
  <2>1. CASE was < 0
    <3>1. now < 0
      BY <1>1, <1>2, <1>3, <2>1
    <3>2. QED
      BY <2>1, <3>1, Zenon DEF ScopeName, was, now
  <2>2. CASE ~(was < 0)
    <3>1. ~(now < 0) /\ d[now + 1] = e[was + 1]
      <4>1. CASE was >= at
        <5>1. now = was + 1
          BY <1>2, <4>1
        <5>2. /\ now + 1 \in 1..(Len(e) + 1) /\ ~(now + 1 < at + 1) /\ now + 1 # at + 1
              /\ (now + 1) - 1 = was + 1 /\ ~(now < 0)
          BY <1>1, <1>3, <2>2, <4>1, <5>1
        <5>3. d[now + 1] = e[(now + 1) - 1]
          BY <1>4, <5>2
        <5>4. QED
          BY <5>2, <5>3
      <4>2. CASE ~(was >= at)
        <5>1. now = was
          BY <1>2, <4>2
        <5>2. was + 1 \in 1..(Len(e) + 1) /\ was + 1 < at + 1
          BY <1>1, <1>3, <2>2, <4>2
        <5>3. d[was + 1] = e[was + 1]
          BY <1>4, <5>2
        <5>4. QED
          BY <2>2, <5>1, <5>3
      <4>3. QED
        BY <4>1, <4>2
    <3>2. QED
      BY <2>2, <3>1, Zenon DEF ScopeName, was, now, e, d
  <2>3. QED
    BY <2>1, <2>2
<1>6. ScopedName(w.names[i], d, links)
  <2> SUFFICES ASSUME IsRef(v.names[i].ref), Sheetless(v.names[i].ref), NEW j \in 1..(now + 1)
               PROVE  links[d[j].rid].kind = "worksheet"
    BY <1>2 DEF ScopedName, now
  <2>1. \A k \in 1..(was + 1) : rels[e[k].rid].kind = "worksheet"
    BY DEF ScopedName, was, e
  <2>2. \A k \in 1..(was + 1) : k \in 1..Len(e)
    BY <1>1
  <2>3. ASSUME NEW k \in 1..(was + 1), d[j] = e[k] PROVE links[d[j].rid].kind = "worksheet"
    BY <2>1, <2>2, <2>3 DEF e
  <2>4. CASE j < at + 1
    <3>1. j \in 1..(Len(e) + 1) /\ j \in 1..(was + 1)
      BY <1>1, <1>2, <1>3, <2>4
    <3>2. d[j] = e[j]
      BY <1>4, <2>4, <3>1
    <3>3. QED
      BY <2>3, <3>1, <3>2
  <2>5. CASE j = at + 1
    <3>1. d[j] = entry
      BY <1>3, <1>1, <1>4, <2>5
    <3>2. QED
      BY <3>1
  <2>6. CASE j > at + 1
    <3>1. j \in 1..(Len(e) + 1) /\ ~(j < at + 1) /\ j # at + 1 /\ j - 1 \in 1..(was + 1)
      BY <1>1, <1>2, <1>3, <2>6
    <3>2. d[j] = e[j - 1]
      BY <1>4, <3>1
    <3>3. QED
      BY <2>3, <3>1, <3>2
  <2>7. QED
    BY <1>1, <1>2, <1>3, <2>4, <2>5, <2>6
<1>7. QED
  BY <1>2, <1>5, <1>6 DEF d, NameKept

\* The references follow their rows when a worksheet is added.
LEMMA AddRefers ==
  ASSUME IInv, RefersNow, NEW name \in SheetNames, NEW position \in 0..Len(sheets),
         NEW c, NEW path, NEW entry, NEW at, NEW ids, Adding(name, position, c, path, entry, at, ids)
  PROVE  RefersNow'
<1> DEFINE after == Patched(View, c, {})
           sheet == [name |-> name, path |-> path]
           list == OneMore(sheets, position, sheet)
           to == With(rowIds, Single(path, ids))
           v == View["workbook"]
           w == c["workbook"]
<1>1. /\ WellFormed(View) /\ sheets = Listing1(View)
      /\ \A s \in ToSet(sheets) : s.path \in SheetPaths \cap DOMAIN View
      /\ {"workbook", "rels", "types"} \subseteq DOMAIN View
      /\ edits \in Nat
  BY ListedThere
<1>2. /\ Adds(View, c, path, entry, at, position) /\ entry.name = name
      /\ w = Inserting(v, at, entry)
      /\ Apply(c, {}) /\ original' = original
      /\ sheets' = SheetsOf(w, c["rels"]) /\ edits' = edits + 1
      /\ ids = [r \in Rows |-> <<0, r>>] /\ rowIds' = to
  BY DEF Adding
<1>3. WellFormed(after) /\ Listing1(after) = list
  BY <1>1, <1>2, AddedIsWellFormed
<1>4. /\ path \in SheetPaths /\ path \notin DOMAIN View
      /\ path \notin {"workbook", "rels", "types", "app", "styles", "chain", "chart"}
      /\ v \in Workbooks /\ Indexed(v)
  BY <1>1, <1>2, PartNames DEF Adds, WellFormed, PartsTyped
<1>5. /\ DOMAIN c = {path, "workbook", "rels", "types"} \cup ({"app"} \cap DOMAIN View)
      /\ c[path] = BlankSheet
      /\ c["rels"] = With(View["rels"], Single(entry.rid, [kind |-> "worksheet", path |-> path]))
      /\ entry \in Entries /\ at \in 0..Len(v.entries) /\ entry.rid \notin DOMAIN View["rels"]
  BY <1>2 DEF Adds, Before
<1>6. View' = after
  BY <1>2, ViewAfterApply
<1>7. /\ DOMAIN after = DOMAIN View \cup {path}
      /\ after["workbook"] = w /\ after["rels"] = c["rels"]
      /\ after[path] = BlankSheet
      /\ \A p \in DOMAIN View : p \notin {"workbook", "rels", "types", "app"} => after[p] = View[p]
  BY <1>1, <1>4, <1>5 DEF Patched
<1> HIDE DEF after
<1>8. sheets' = list
  BY <1>2, <1>3, <1>7 DEF Listing1
<1>9. ToSet(list) = ToSet(sheets) \cup {sheet}
  <2>1. DOMAIN sheets = 1..Len(sheets) /\ Len(sheets) \in Nat
    BY <1>1, Outline
  <2>2. QED
    BY <2>1, SheetsOfOneMore
<1> HIDE DEF list
<1>10. Places(sheets, rowIds, edits) /\ path \notin DOMAIN rowIds
  <2>1. Places(sheets, rowIds, edits)
    BY DEF RefersNow, Refers
  <2>2. QED
    BY <1>1, <1>4, <2>1 DEF Places
<1>11. /\ DOMAIN to = DOMAIN rowIds \cup {path} /\ to[path] = ids
       /\ \A p \in DOMAIN rowIds : to[p] = rowIds[p]
  BY <1>10 DEF With, Single
<1> HIDE DEF to
<1>12. Places(list, to, edits + 1)
  <2>1. Sound(ids, edits + 1)
    <3>1. ids \in [Rows -> Nat \X Nat]
      BY <1>2, BoundsAssumption DEF Rows
    <3>2. \A r \in Rows : ids[r] = <<0, r>> /\ ids[r][1] = 0
      BY <1>2
    <3>3. \A r, q \in Rows : ids[r] = ids[q] => r = q
      <4> SUFFICES ASSUME NEW r \in Rows, NEW q \in Rows, ids[r] = ids[q] PROVE r = q
        OBVIOUS
      <4>1. <<0, r>> = <<0, q>>
        BY <3>2
      <4>2. QED
        BY <4>1
    <3>4. \A r \in Rows : ids[r][1] <= edits + 1
      <4>1. 0 <= edits + 1
        BY <1>1
      <4>2. QED
        BY <3>2, <4>1
    <3>5. QED
      BY <3>1, <3>3, <3>4 DEF Sound
  <2>2. Places(sheets, rowIds, edits + 1)
    BY <1>1, <1>10, PlacesLater
  <2>3. \A p \in DOMAIN to : Sound(to[p], edits + 1)
    BY <1>11, <2>1, <2>2 DEF Places
  <2>4. DOMAIN to = {s.path : s \in ToSet(list)}
    <3>1. DOMAIN rowIds = {s.path : s \in ToSet(sheets)}
      BY <2>2 DEF Places
    <3>2. sheet.path = path
      OBVIOUS
    <3> HIDE DEF sheet
    <3>3. QED
      BY <1>9, <1>11, <3>1, <3>2
  <2>5. edits + 1 \in Nat
    BY <1>1
  <2>6. QED
    BY <1>3, <2>3, <2>4, <2>5, PlacesOf
<1>13. MoreOf(sheets, rowIds, list, to)
  BY <1>9, <1>10, <1>11 DEF MoreOf, Places
<1>14. ASSUME NEW ref, NEW inSheet, Keeps(ref, inSheet, sheets, rowIds, edits)
       PROVE  Keeps(ref, inSheet, list, to, edits + 1)
  <2>1. edits \in Nat /\ edits + 1 \in Nat /\ edits <= edits + 1
    BY <1>1
  <2>2. QED
    BY <1>13, <1>14, <2>1, RefKeepsWithMore
<1>15. ASSUME NEW s \in ToSet(list), NEW q \in DOMAIN after[s.path].cells
       PROVE  Keeps(after[s.path].cells[q].ref, s.name, list, to, edits + 1)
  <2>1. CASE s = sheet
    <3>1. after[s.path] = BlankSheet
      BY <1>7, <2>1
    <3>2. DOMAIN BlankSheet.cells = {}
      BY DEF BlankSheet
    <3>3. QED
      BY <3>1, <3>2
  <2>2. CASE s \in ToSet(sheets)
    <3>1. after[s.path] = View[s.path]
      BY <1>1, <1>7, <2>2, PartNames
    <3>2. Keeps(after[s.path].cells[q].ref, s.name, sheets, rowIds, edits)
      BY <2>2, <3>1 DEF RefersNow, Refers, CellsKeep
    <3>3. QED
      BY <1>14, <3>2
  <2>3. QED
    BY <1>9, <2>1, <2>2
<1>16. ASSUME "chart" \in DOMAIN after PROVE Keeps(after["chart"].ref, Nowhere, list, to, edits + 1)
  <2>1. "chart" \in DOMAIN View /\ after["chart"] = View["chart"]
    BY <1>4, <1>7, <1>16
  <2>2. Keeps(after["chart"].ref, Nowhere, sheets, rowIds, edits)
    BY <2>1 DEF RefersNow, Refers, ChartKeeps
  <2>3. QED
    BY <1>14, <2>2
<1>17. /\ \A j \in 1..Len(v.entries) : c["rels"][v.entries[j].rid] = View["rels"][v.entries[j].rid]
       /\ c["rels"][entry.rid].kind = "worksheet"
  <2> DEFINE link == [kind |-> "worksheet", path |-> path]
             more == Single(entry.rid, link)
             was == View["rels"]
  <2>1. DOMAIN more = {entry.rid} /\ more[entry.rid] = link /\ link.kind = "worksheet"
    BY DEF Single
  <2>2. \A j \in 1..Len(v.entries) : v.entries[j].rid \in DOMAIN was
    BY <1>1, Outline
  <2> HIDE DEF more, link, was
  <2>3. /\ \A r \in DOMAIN more : With(was, more)[r] = more[r]
        /\ \A r \in DOMAIN was : r \notin DOMAIN more => With(was, more)[r] = was[r]
    BY DEF With
  <2>4. c["rels"] = With(was, more)
    BY <1>5 DEF more, link, was
  <2>5. \A r \in DOMAIN was : r \notin DOMAIN more
    BY <1>5, <2>1 DEF was
  <2>6. \A j \in 1..Len(v.entries) : c["rels"][v.entries[j].rid] = was[v.entries[j].rid]
    BY <2>2, <2>3, <2>4, <2>5
  <2>7. c["rels"][entry.rid] = link
    BY <2>1, <2>3, <2>4
  <2>8. QED
    BY <2>1, <2>6, <2>7 DEF was
<1>18. ASSUME NEW i \in DOMAIN w.names
       PROVE  /\ Keeps(w.names[i].ref, ScopeName(w, w.names[i]), list, to, edits + 1)
              /\ ScopedName(w.names[i], w.entries, c["rels"])
  <2>1. DOMAIN w.names = DOMAIN v.names
    BY <1>2, <1>4, <1>5, EntryInserted
  <2>2. i \in DOMAIN v.names
    BY <2>1
  <2>3. ScopedName(v.names[i], v.entries, View["rels"])
    BY <2>2 DEF RefersNow, Refers, Scoped
  <2>4. Keeps(v.names[i].ref, ScopeName(v, v.names[i]), sheets, rowIds, edits)
    BY <2>2 DEF RefersNow, Refers, NamesKeep
  <2> DEFINE rels == View["rels"]
             links == c["rels"]
  <2>5. /\ \A j \in 1..Len(v.entries) : links[v.entries[j].rid] = rels[v.entries[j].rid]
        /\ links[entry.rid].kind = "worksheet"
    BY <1>17
  <2>6. w = Inserting(v, at, entry)
    BY <1>2
  <2>7. entry \in Entries /\ at \in 0..Len(v.entries)
    BY <1>5
  <2>8. v \in Workbooks /\ Indexed(v)
    BY <1>4
  <2>9. ScopedName(v.names[i], v.entries, rels)
    BY <2>3
  <2>10. NameAtInsert(v, entry, at, w, i, rels, links)
    BY <2>2, <2>5, <2>6, <2>7, <2>8, <2>9, Zenon DEF NameAtInsert
  <2> HIDE DEF rels, links, v, w
  <2>11. NameKept(v, w, i, links)
    BY <2>10, NamesInsertKeep
  <2>12. /\ w.names[i].ref = v.names[i].ref
         /\ ScopeName(w, w.names[i]) = ScopeName(v, v.names[i])
         /\ ScopedName(w.names[i], w.entries, links)
    BY <2>11 DEF NameKept
  <2>13. QED
    BY <1>14, <2>4, <2>12 DEF links
<1>19. Refers(after, list, to, edits + 1)
  <2>1. CellsKeep(after, list, to, edits + 1) /\ ChartKeeps(after, list, to, edits + 1)
    BY <1>15, <1>16 DEF CellsKeep, ChartKeeps
  <2> HIDE DEF w
  <2>2. NamesKeep(after["workbook"], list, to, edits + 1) /\ Scoped(after)
    BY <1>7, <1>18 DEF NamesKeep, Scoped
  <2>3. QED
    BY <1>12, <2>1, <2>2 DEF Refers
<1>20. QED
  BY <1>2, <1>6, <1>8, <1>19 DEF RefersNow

\* Every reference follows its row, here and in the file, and no worksheet is
\* where a rename does not reach it.
RefsInv ==
  /\ IInv
  /\ RefersNow
  /\ Refers(file.package, Listing1(file.package), file.rowIds, edits)
  /\ "rename" \in session.edits => "data" \notin DOMAIN View \cup DOMAIN file.package

\* An edit leaves the references with their rows, and adds no such worksheet.
Follow ==
  /\ IInv' /\ RefersNow'
  /\ "data" \in DOMAIN View' => "data" \in DOMAIN View
  /\ UNCHANGED <<session, file>> /\ edits' = edits + 1

\* An edit leaves the file, so that the references of the file keep to its rows.
LEMMA EditFollows ==
  ASSUME RefsInv, Follow
  PROVE  RefsInv'
<1>1. edits \in Nat /\ edits + 1 \in Nat /\ edits <= edits + 1
  BY DEF RefsInv, IInv
<1> DEFINE package == file.package
           list == Listing1(package)
           ids == file.rowIds
<1>2. Refers(package, list, ids, edits)
  BY DEF RefsInv
<1> HIDE DEF package, list, ids
<1>3. Refers(package, list, ids, edits + 1)
  BY <1>1, <1>2, RefersLater
<1>4. file' = file /\ session' = session /\ edits' = edits + 1
  BY DEF Follow
<1>5. Refers(file'.package, Listing1(file'.package), file'.rowIds, edits')
  BY <1>3, <1>4 DEF package, list, ids
<1>6. "rename" \in session'.edits => "data" \notin DOMAIN View' \cup DOMAIN file'.package
  BY <1>4 DEF RefsInv, Follow
<1>7. QED
  BY <1>5, <1>6 DEF RefsInv, Follow

\* What is not in a package is not in it without its chain.
LEMMA NoMoreParts ==
  ASSUME NEW package, NEW c, NEW p, p \notin DOMAIN package, p \notin DOMAIN c
  PROVE  p \notin DOMAIN Patched(package, c, {}) /\ p \notin DOMAIN Recalculated(Patched(package, c, {}))
BY DEF Patched, Recalculated

\* The write of a cell.
LEMMA WriteFollows ==
  ASSUME RefsInv, NEW name \in Names, NEW row \in Rows, NEW data \in Texts, NEW ref \in References,
         Keeps(ref, name, sheets, rowIds, edits), WriteCell(name, row, data, ref)
  PROVE  Follow
<1>1. IInv /\ RefersNow
  BY DEF RefsInv
<1>2. IInv' /\ \E part : Writing(PathOf(name), row, ref, part)
  BY <1>1, WriteCellKeeps
<1>3. PICK part : Writing(PathOf(name), row, ref, part)
  BY <1>2
<1>4. RefersNow'
  BY <1>1, <1>3, WriteRefers
<1> DEFINE c == Single(PathOf(name), part)
           after == Patched(View, c, {})
<1>5. /\ PathOf(name) \in DOMAIN View
      /\ View' = after \/ View' = Recalculated(after)
      /\ UNCHANGED <<session, file>> /\ edits' = edits + 1
  BY <1>3 DEF Writing
<1>6. DOMAIN c = {PathOf(name)}
  BY DEF Single
<1> HIDE DEF c
<1>7. "data" \notin DOMAIN View => "data" \notin DOMAIN after /\ "data" \notin DOMAIN Recalculated(after)
  BY <1>5, <1>6, NoMoreParts
<1> HIDE DEF after
<1>8. QED
  BY <1>2, <1>4, <1>5, <1>7 DEF Follow

\* An insert or a delete of rows.
LEMMA ShiftFollows ==
  ASSUME RefsInv, NEW name \in Names, NEW row \in Rows, NEW count \in 1..2, NEW delete \in BOOLEAN,
         AxisShift(name, Plan(row, count, delete))
  PROVE  Follow
<1> DEFINE plan == Plan(row, count, delete)
<1>1. IInv /\ RefersNow
  BY DEF RefsInv
<1>2. IInv' /\ \E c : Shifting(name, plan, c)
  BY <1>1, AxisShiftKeeps
<1> HIDE DEF plan
<1>3. PICK c : Shifting(name, plan, c)
  BY <1>2
<1>4. RefersNow'
  BY <1>1, <1>3, ShiftRefers
<1> DEFINE after == Patched(View, c, {})
<1>5. /\ DOMAIN c \subseteq DOMAIN View /\ View' = Recalculated(after)
      /\ UNCHANGED <<session, file>> /\ edits' = edits + 1
  BY <1>3 DEF Shifting
<1>6. "data" \notin DOMAIN View => "data" \notin DOMAIN Recalculated(after)
  BY <1>5, NoMoreParts
<1> HIDE DEF after
<1>7. QED
  BY <1>2, <1>4, <1>5, <1>6 DEF Follow

\* The rename of a sheet.
LEMMA RenameFollows ==
  ASSUME RefsInv, NEW old \in Names, NEW new \in SheetNames, RenameSheet(old, new)
  PROVE  Follow
<1>1. IInv /\ RefersNow
  BY DEF RefsInv
<1>2. IInv' /\ \E c : Renaming(old, new, c)
  BY <1>1, RenameKeeps
<1>3. PICK c : Renaming(old, new, c)
  BY <1>2
<1> DEFINE after == Patched(View, c, {})
<1>4. /\ DOMAIN c \subseteq DOMAIN View /\ View' = Recalculated(after)
      /\ UNCHANGED <<session, file>> /\ edits' = edits + 1 /\ "rename" \in session.edits
  BY <1>3 DEF Renaming, Renames
<1>5. "data" \notin DOMAIN View
  BY <1>4 DEF RefsInv
<1>6. RefersNow'
  BY <1>1, <1>3, <1>5, RenameRefers
<1>7. "data" \notin DOMAIN Recalculated(after)
  BY <1>4, <1>5, NoMoreParts
<1> HIDE DEF after
<1>8. QED
  BY <1>2, <1>4, <1>6, <1>7 DEF Follow

\* A sheet is added.
LEMMA AddFollows ==
  ASSUME RefsInv, NEW name \in SheetNames, NEW position \in 0..Len(sheets), AddSheet(name, position)
  PROVE  Follow
<1>1. IInv /\ RefersNow
  BY DEF RefsInv
<1>2. IInv'
  BY <1>1, AddSheetKeeps
<1>3. PICK c, path, entry, at, ids : Adding(name, position, c, path, entry, at, ids)
  BY <1>1, AddSheetAdds
<1>4. RefersNow'
  BY <1>1, <1>3, AddRefers
<1> DEFINE after == Patched(View, c, {})
<1>5. /\ Apply(c, {}) /\ path # "data"
      /\ DOMAIN c = {path, "workbook", "rels", "types"} \cup ({"app"} \cap DOMAIN View)
      /\ UNCHANGED <<session, original, file>> /\ edits' = edits + 1
  BY <1>3 DEF Adding, Adds
<1>6. View' = after
  BY <1>5, ViewAfterApply
<1>7. "data" \notin DOMAIN c
  BY <1>5
<1>8. "data" \notin DOMAIN View => "data" \notin DOMAIN after
  BY <1>7, NoMoreParts
<1> HIDE DEF after
<1>9. QED
  BY <1>2, <1>4, <1>5, <1>6, <1>8 DEF Follow

\* A number format is set.
LEMMA FormatFollows ==
  ASSUME RefsInv, NEW name \in Names, NEW first \in Rows, NEW last \in Rows, first <= last,
         NEW code \in Texts, SetNumberFormat(name, first, last, code)
  PROVE  Follow
<1> DEFINE path == PathOf(name)
<1>1. IInv /\ RefersNow
  BY DEF RefsInv
<1>2. IInv'
  BY <1>1, SetNumberFormatKeeps
<1>3. PICK c, link, start, plan : Formatting(path, first, last, code, c, link, start, plan)
  BY <1>1, SetNumberFormatFormats
<1>4. path \in SheetPaths \cap DOMAIN View /\ IsWorksheet(View[path])
  <2>1. path \in SheetPaths \cap DOMAIN View /\ WellFormed(View)
    BY <1>1, NamedSheet, ListedThere
  <2>2. QED
    BY <2>1 DEF WellFormed, PartsTyped
<1> HIDE DEF path
<1>5. IsFormatted(View[path], c[path], plan.targets, first, last)
  <2> DEFINE part == View[path]
             targets == plan.targets
             start0 == start
  <2>1. /\ c[path] = Formatted(part, targets, first, last)
        /\ PlanGood(start, plan) /\ start.xfs = StylesIn(View).xfs
        /\ \A r \in first..last : BaseStyle(part, r) \in DOMAIN targets
    BY <1>3 DEF Formatting, Planned
  <2>2. \A r \in first..last : targets[BaseStyle(part, r)] \in Nat
    <3> TAKE r \in first..last
    <3> DEFINE b == BaseStyle(part, r)
               target == targets[b]
    <3>1. Found(start, plan.appended, target, b)
      BY <2>1 DEF PlanGood
    <3>2. target \in 0..(Len(start.xfs) + Len(plan.appended) - 1)
      BY <3>1 DEF Found
    <3> HIDE DEF target
    <3>3. target \in Nat
      BY <3>2
    <3>4. QED
      BY <3>3 DEF target
  <2> HIDE DEF part, targets
  <2>3. IsFormatted(part, Formatted(part, targets, first, last), targets, first, last)
    BY <1>4, <2>2, SheetRestyled DEF part
  <2>4. QED
    BY <2>1, <2>3 DEF part, targets
<1>6. RefersNow'
  BY <1>1, <1>3, <1>5, FormatRefers
<1> DEFINE after == Patched(View, c, {})
<1>7. /\ Apply(c, {}) /\ DOMAIN c \subseteq {path, "styles", "rels", "types"}
      /\ UNCHANGED <<session, original, file>> /\ edits' = edits + 1
  BY <1>3 DEF Formatting, Formats
<1>8. View' = after
  BY <1>7, ViewAfterApply
<1>9. "data" \notin DOMAIN View => "data" \notin DOMAIN c
  BY <1>4, <1>7
<1>10. "data" \notin DOMAIN View => "data" \notin DOMAIN after
  BY <1>9, NoMoreParts
<1> HIDE DEF after
<1>11. QED
  BY <1>2, <1>6, <1>7, <1>8, <1>10 DEF Follow

\* A save: the file has what the session shows.
LEMMA SaveRefs ==
  ASSUME RefsInv, Save
  PROVE  RefsInv'
<1>1. IInv' /\ sheets = Listing1(View)
  BY SaveKeeps DEF RefsInv, IInv, Shown
<1>2. file' = [package |-> View, rowIds |-> rowIds, touched |-> touched]
      /\ UNCHANGED <<session, original, changed, removed, sheets, dirty, rowIds, touched, edits>>
  BY SavedIsShown DEF Save, RefsInv
<1>3. View' = View
  BY <1>2 DEF View, Part
<1>4. file'.package = View /\ file'.rowIds = rowIds
  BY <1>2
<1>5. Refers(View, sheets, rowIds, edits)
  BY DEF RefsInv, RefersNow
<1>6. RefersNow' /\ Refers(file'.package, Listing1(file'.package), file'.rowIds, edits')
  BY <1>1, <1>2, <1>3, <1>4, <1>5 DEF RefersNow
<1>7. "rename" \in session'.edits => "data" \notin DOMAIN View' \cup DOMAIN file'.package
  BY <1>2, <1>3, <1>4 DEF RefsInv
<1>8. QED
  BY <1>1, <1>6, <1>7 DEF RefsInv

\* The file is opened again: the session shows what the file has.
LEMMA OpenRefs ==
  ASSUME RefsInv, Open
  PROVE  RefsInv'
<1> DEFINE package == file.package
<1>1. IInv' /\ WellFormed(package)
  BY OpenKeeps DEF RefsInv, IInv, Shown
<1>2. /\ original' = package /\ changed' = <<>> /\ removed' = {}
      /\ sheets' = Listing1(package) /\ rowIds' = file.rowIds
      /\ file' = file /\ session' = session /\ edits' = edits
  BY DEF Open, Listing1
<1>3. Refers(package, Listing1(package), file.rowIds, edits)
  BY DEF RefsInv
<1> HIDE DEF package
<1>4. View' = package
  BY <1>1, <1>2, NothingChanged
<1>5. RefersNow' /\ Refers(file'.package, Listing1(file'.package), file'.rowIds, edits')
  BY <1>2, <1>3, <1>4 DEF RefersNow, package
<1>6. "rename" \in session'.edits => "data" \notin DOMAIN View' \cup DOMAIN file'.package
  BY <1>2, <1>4 DEF RefsInv, package
<1>7. QED
  BY <1>1, <1>5, <1>6 DEF RefsInv

\* A stuttering step.
LEMMA UnchangedRefs ==
  ASSUME RefsInv, UNCHANGED vars
  PROVE  RefsInv'
<1>1. IInv'
  BY UnchangedKeeps DEF RefsInv
<1>2. View' = View
  BY DEF vars, View, Part
<1>3. sheets' = sheets /\ rowIds' = rowIds /\ edits' = edits /\ file' = file /\ session' = session
  BY DEF vars
<1>4. QED
  BY <1>1, <1>2, <1>3 DEF RefsInv, RefersNow

\* Every step keeps the invariant.
LEMMA NextRefs ==
  ASSUME RefsInv, [Next]_vars
  PROVE  RefsInv'
<1>1. /\ session.rows \subseteq Rows /\ session.data \subseteq Texts
      /\ session.names \subseteq SheetNames /\ session.codes \subseteq Texts
  BY SessionInputs DEF RefsInv
<1>2. ASSUME NEW name \in Names, NEW row \in session.rows, NEW data \in session.data,
             WriteCell(name, row, data, NoRef)
      PROVE  RefsInv'
  <2>1. Follow
    BY <1>1, <1>2, NoRefType, NoRefKeeps, WriteFollows
  <2>2. QED
    BY <2>1, EditFollows
<1>3. ASSUME NEW name \in Names, NEW row \in session.rows, NEW to \in Names \cup {""},
             NEW target \in session.rows, WriteCell(name, row, "", RefTo(to, name, target))
      PROVE  RefsInv'
  <2>1. RefTo(to, name, target) \in References
    BY <1>1, RefToType DEF RefsInv
  <2>2. row \in Rows /\ target \in Rows /\ "" \in Texts
    BY <1>1 DEF Texts
  <2>3. Places(sheets, rowIds, edits)
    BY DEF RefsInv, RefersNow, Refers
  <2>4. Keeps(RefTo(to, name, target), name, sheets, rowIds, edits)
    BY <2>2, <2>3, RefToKeeps
  <2>5. Follow
    BY <1>3, <2>1, <2>2, <2>4, WriteFollows
  <2>6. QED
    BY <2>5, EditFollows
<1>4. ASSUME NEW name \in Names, NEW row \in session.rows, NEW count \in 1..2, NEW delete \in BOOLEAN,
             AxisShift(name, Plan(row, count, delete))
      PROVE  RefsInv'
  <2>1. row \in Rows
    BY <1>1
  <2>2. Follow
    BY <1>4, <2>1, ShiftFollows
  <2>3. QED
    BY <2>2, EditFollows
<1>5. ASSUME NEW name \in Names, NEW row \in session.rows, NEW last \in session.rows,
             NEW code \in session.codes, last >= row, SetNumberFormat(name, row, last, code)
      PROVE  RefsInv'
  <2>1. row \in Rows /\ last \in Rows /\ row <= last /\ code \in Texts
    BY <1>1, <1>5, BoundsAssumption DEF Rows
  <2>2. Follow
    BY <1>5, <2>1, FormatFollows
  <2>3. QED
    BY <2>2, EditFollows
<1>6. ASSUME NEW name \in Names, NEW new \in session.names, RenameSheet(name, new)
      PROVE  RefsInv'
  BY <1>1, <1>6, RenameFollows, EditFollows
<1>7. ASSUME NEW new \in session.names, NEW position \in 0..Len(sheets), AddSheet(new, position)
      PROVE  RefsInv'
  BY <1>1, <1>7, AddFollows, EditFollows
<1>8. QED
  BY <1>2, <1>3, <1>4, <1>5, <1>6, <1>7, SaveRefs, OpenRefs, UnchangedRefs DEF Next

-----------------------------------------------------------------------------
\* A session starts with references that follow their rows.
LEMMA InitRefers ==
  ASSUME Init, Reached(session)
  PROVE  RefsInv
<1> DEFINE package == session.package
           list == Listing1(package)
           ids == FirstIds(list)
           none == [r \in Rows |-> <<0, r>>]
<1>1. IInv
  BY InitShows
<1>2. /\ session \in Sessions /\ original = package /\ changed = <<>> /\ removed = {}
      /\ sheets = list /\ rowIds = ids /\ edits = 0 /\ file.package = package /\ file.rowIds = ids
  BY DEF Init, Listing1
<1>3. WellFormed(package) /\ Referring(package)
  BY <1>2, SessionsAssumption
<1>4. View = package
  <2>1. DOMAIN changed = {}
    BY <1>2
  <2>2. View = [p \in DOMAIN original |-> original[p]]
    BY <1>2, <2>1 DEF View, Part
  <2>3. package = [p \in DOMAIN package |-> package[p]]
    BY <1>3 DEF WellFormed, PartsTyped
  <2>4. QED
    BY <1>2, <2>2, <2>3
<1> HIDE DEF package, list, ids
<1>5. Places(list, ids, 0)
  <2>1. Sound(none, 0)
    <3>1. none \in [Rows -> Nat \X Nat]
      BY BoundsAssumption DEF Rows
    <3>2. \A r \in Rows : none[r] = <<0, r>> /\ none[r][1] = 0
      OBVIOUS
    <3> HIDE DEF none
    <3>3. \A r, q \in Rows : none[r] = none[q] => r = q
      <4> SUFFICES ASSUME NEW r \in Rows, NEW q \in Rows, none[r] = none[q] PROVE r = q
        OBVIOUS
      <4>1. <<0, r>> = <<0, q>>
        BY <3>2
      <4>2. QED
        BY <4>1
    <3>4. QED
      BY <3>1, <3>2, <3>3 DEF Sound
  <2>2. DOMAIN ids = {s.path : s \in ToSet(list)} /\ \A p \in DOMAIN ids : ids[p] = none
    BY DEF ids, FirstIds
  <2> HIDE DEF none
  <2>3. QED
    BY <1>3, <2>1, <2>2, PlacesOf DEF list
<1>6. FormulasFollow(package, list, ids)
  BY <1>3 DEF Referring, list, ids, Listing1
<1>7. ASSUME NEW ref, NEW inSheet, Follows(ref, inSheet, list, ids), IsRef(ref) \/ ref = NoRef
      PROVE  Keeps(ref, inSheet, list, ids, 0)
  BY <1>7, NoRefKeeps DEF Follows, Keeps, IsAt
<1>8. CellsKeep(package, list, ids, 0)
  <2> SUFFICES ASSUME NEW s \in ToSet(list), NEW r \in DOMAIN package[s.path].cells
               PROVE  Keeps(package[s.path].cells[r].ref, s.name, list, ids, 0)
    BY DEF CellsKeep
  <2> DEFINE part == package[s.path]
             ref == part.cells[r].ref
  <2>1. Follows(ref, s.name, list, ids)
    BY <1>6 DEF FormulasFollow
  <2>2. \A x \in FormulasOf(part) : IsRef(x) \/ x = NoRef
    BY <1>3 DEF Referring, list, Listing1
  <2>3. "cells" \in DOMAIN part
    <3>1. s.path \in SheetPaths \cap DOMAIN package
      BY <1>3 DEF WellFormed, Opens, Listed, list, Listing1
    <3>2. part \in [cells : {part.cells}, colStyle : Nat]
      BY <1>3, <3>1 DEF WellFormed, PartsTyped, IsWorksheet
    <3> HIDE DEF part
    <3>3. QED
      BY <3>2
  <2>4. ref \in FormulasOf(part)
    BY <2>3 DEF FormulasOf
  <2>5. IsRef(ref) \/ ref = NoRef
    BY <2>2, <2>4
  <2> HIDE DEF ref
  <2>6. QED
    BY <1>7, <2>1, <2>5 DEF ref
<1>9. ChartKeeps(package, list, ids, 0)
  <2> SUFFICES ASSUME "chart" \in DOMAIN package
               PROVE  Keeps(package["chart"].ref, Nowhere, list, ids, 0)
    BY DEF ChartKeeps
  <2> DEFINE part == package["chart"]
             ref == part.ref
  <2>1. Follows(ref, Nowhere, list, ids)
    BY <1>6, Zenon DEF FormulasFollow, Nowhere
  <2>2. \A x \in FormulasOf(part) : IsRef(x) \/ x = NoRef
    BY <1>3 DEF Referring
  <2>3. "cells" \notin DOMAIN part
    <3>1. part \in [ref : References]
      BY <1>3 DEF WellFormed, PartsTyped, Charts
    <3> HIDE DEF part
    <3>2. QED
      BY <3>1
  <2>4. ref \in FormulasOf(part)
    BY <2>3 DEF FormulasOf
  <2>5. IsRef(ref) \/ ref = NoRef
    BY <2>2, <2>4
  <2> HIDE DEF ref
  <2>6. QED
    BY <1>7, <2>1, <2>5 DEF ref
<1>10. NamesKeep(package["workbook"], list, ids, 0)
  <2> DEFINE w == package["workbook"]
  <2> SUFFICES ASSUME NEW i \in DOMAIN w.names
               PROVE  Keeps(w.names[i].ref, ScopeName(w, w.names[i]), list, ids, 0)
    BY DEF NamesKeep
  <2> DEFINE ref == w.names[i].ref
             scope == ScopeName(w, w.names[i])
  <2>1. Follows(ref, scope, list, ids)
    BY <1>6 DEF FormulasFollow
  <2>2. IsRef(ref)
    BY <1>3 DEF Referring
  <2> HIDE DEF ref, scope
  <2>3. Keeps(ref, scope, list, ids, 0)
    BY <1>7, <2>1, <2>2
  <2>4. QED
    BY <2>3 DEF ref, scope
<1>11. Refers(package, list, ids, 0)
  BY <1>5, <1>8, <1>9, <1>10 DEF Refers, Reached, package
<1>12. RefersNow /\ Refers(file.package, Listing1(file.package), file.rowIds, edits)
  BY <1>2, <1>4, <1>11 DEF RefersNow, list
<1>13. "rename" \in session.edits => "data" \notin DOMAIN View \cup DOMAIN file.package
  BY <1>2, <1>4 DEF Reached, package
<1>14. QED
  BY <1>1, <1>12, <1>13 DEF RefsInv

\* Through any insertions, deletions, renames, added sheets, saves and new
\* sessions, the formulas of cells, charts and names keep to their rows.
THEOREM ReferencesFollow == Spec /\ Reached(session) => []RefsFollowRows
<1>1. Init /\ Reached(session) => RefsInv
  BY InitRefers
<1>2. RefsInv /\ [Next]_vars => RefsInv'
  BY NextRefs
<1>3. RefsInv => RefsFollowRows
  BY RefersFollows DEF RefsInv, RefersNow, RefsFollowRows
<1>4. QED
  BY <1>1, <1>2, <1>3, PTL DEF Spec
=============================================================================
