--------------------------- MODULE PeekGridProofs ---------------------------
(* For every set of sheets, letters and screens: the cursor is on the screen,
   the matches are those of what is shown, and sheets are remembered. *)
EXTENDS PeekGrid, SequenceLemmas

-----------------------------------------------------------------------------
(* The search: one step per cell within one step per row. *)

ColumnStep(c, found, col) ==
  IF ContainsText(Cell(c.i, c.order, c.row, col).text, c.q)
  THEN Append(found, <<c.row, col>>) ELSE found
RowStep(c, found, row) == MatchesOfRow(c.i, c.order, c.q, found, row)

Columns == INSTANCE FoldInduction WITH Op <- ColumnStep, Good <- LAMBDA c, found : TRUE
Rows    == INSTANCE FoldInduction WITH Op <- RowStep, Good <- LAMBDA c, found : TRUE

Upto(n) == [k \in 1..n |-> k]

LEMMA UptoProperties ==
  ASSUME NEW n \in Nat
  PROVE  /\ Upto(n) \in Seq(1..n) /\ Len(Upto(n)) = n
         /\ \A k \in 1..n : Upto(n)[k] = k
BY DEF Upto

LEMMA ColumnsFold ==
  ASSUME NEW i, NEW order, NEW q, NEW row, NEW above
  PROVE  MatchesOfRow(i, order, q, above, row)
           = Columns!Folded([i |-> i, order |-> order, q |-> q, row |-> row],
                            above, Upto(Sheets[i].columns))
BY DEF MatchesOfRow, FoldLeft, MapThenFoldSet, Max, ColumnStep, Upto,
       Columns!Folded, Columns!IsFold, Columns!Top

LEMMA RowsFold ==
  ASSUME NEW i, NEW order, NEW q, q # <<>>
  PROVE  Matches(i, order, q)
           = Rows!Folded([i |-> i, order |-> order, q |-> q], <<>>, Upto(Len(order)))
BY DEF Matches, FoldLeft, MapThenFoldSet, Max, RowStep, Upto,
       Rows!Folded, Rows!IsFold, Rows!Top

\* The cells of the first rows, and the first columns of the row after them, that
\* contain the query are found in the order of the screen.
Hits(i, order, q, row, cols) ==
  {at \in (1..Len(order)) \X (1..Sheets[i].columns) :
     /\ at[1] < row \/ (at[1] = row /\ at[2] <= cols)
     /\ ContainsText(Cell(i, order, at[1], at[2]).text, q)}

InScreenOrder(found) ==
  \A j, k \in DOMAIN found : j < k => Earlier(found[j], found[k])

HasFound(i, order, q, row, cols, found) ==
  /\ found \in Seq((1..Len(order)) \X (1..Sheets[i].columns))
  /\ ToSet(found) = Hits(i, order, q, row, cols)
  /\ InScreenOrder(found)

LEMMA ColumnIsSearched ==
  ASSUME NEW i, NEW order, NEW q, Len(order) \in Nat, Sheets[i].columns \in Nat,
         NEW row \in 1..Len(order), NEW col \in 1..Sheets[i].columns,
         NEW found, HasFound(i, order, q, row, col - 1, found)
  PROVE  HasFound(i, order, q, row, col,
                  ColumnStep([i |-> i, order |-> order, q |-> q, row |-> row], found, col))
<1> DEFINE P == (1..Len(order)) \X (1..Sheets[i].columns)
           here == <<row, col>>
           next == ColumnStep([i |-> i, order |-> order, q |-> q, row |-> row], found, col)
<1>1. here \in P /\ here[1] = row /\ here[2] = col
  OBVIOUS
<1>2. \A at \in P : at[1] \in Nat /\ at[2] \in Nat /\ at = <<at[1], at[2]>>
  OBVIOUS
<1>3. \A at \in P : at[1] < row \/ (at[1] = row /\ at[2] <= col)
                    <=> at = here \/ at[1] < row \/ (at[1] = row /\ at[2] <= col - 1)
  BY <1>1, <1>2
<1>4. CASE ~ContainsText(Cell(i, order, row, col).text, q)
  <2>1. next = found
    BY <1>4 DEF ColumnStep
  <2>2. Hits(i, order, q, row, col) = Hits(i, order, q, row, col - 1)
    BY <1>1, <1>3, <1>4 DEF Hits
  <2>3. QED
    BY <2>1, <2>2 DEF HasFound
<1>5. CASE ContainsText(Cell(i, order, row, col).text, q)
  <2>1. next = Append(found, here)
    BY <1>5 DEF ColumnStep
  <2>2. Hits(i, order, q, row, col) = Hits(i, order, q, row, col - 1) \cup {here}
    BY <1>1, <1>3, <1>5 DEF Hits
  <2> DEFINE n == Len(found)
  <2>3. /\ n \in Nat /\ found \in Seq(P) /\ DOMAIN found = 1..n
        /\ next \in Seq(P) /\ DOMAIN next = 1..(n + 1) /\ next[n + 1] = here
        /\ \A k \in 1..n : next[k] = found[k]
    <3>1. found \in Seq(P)
      BY DEF HasFound
    <3> HIDE DEF P, here, next
    <3>2. QED
      BY <1>1, <2>1, <3>1
  <2> HIDE DEF n, next, P, here
  <2>4. ToSet(next) = ToSet(found) \cup {here}
    <3>1. ToSet(next) = {next[k] : k \in 1..(n + 1)} /\ ToSet(found) = {found[k] : k \in 1..n}
      BY <2>3 DEF ToSet
    <3>2. \A k \in 1..(n + 1) : k \in 1..n \/ k = n + 1
      BY <2>3
    <3>3. \A k \in 1..n : k \in 1..(n + 1)
      BY <2>3
    <3>4. n + 1 \in 1..(n + 1)
      BY <2>3
    <3>5. QED
      BY <2>3, <3>1, <3>2, <3>3, <3>4
  <2>5. \A k \in 1..n : Earlier(found[k], here)
    <3> SUFFICES ASSUME NEW k \in 1..n PROVE Earlier(found[k], here)
      OBVIOUS
    <3>1. found[k] \in Hits(i, order, q, row, col - 1)
      BY <2>3 DEF HasFound, ToSet
    <3>2. QED
      BY <1>1, <1>2, <3>1 DEF Hits, Earlier, P
  <2>6. InScreenOrder(next)
    <3> SUFFICES ASSUME NEW j \in 1..(n + 1), NEW k \in 1..(n + 1), j < k
                 PROVE  Earlier(next[j], next[k])
      BY <2>3 DEF InScreenOrder
    <3>1. j \in 1..n /\ (k \in 1..n \/ k = n + 1)
      BY <2>3
    <3>2. QED
      BY <2>3, <2>5, <3>1 DEF HasFound, InScreenOrder
  <2>7. QED
    BY <2>2, <2>3, <2>4, <2>6 DEF HasFound, P, next
<1>6. QED
  BY <1>4, <1>5

LEMMA RowIsSearched ==
  ASSUME NEW i, NEW order, NEW q, Len(order) \in Nat, Sheets[i].columns \in Nat,
         NEW row \in 1..Len(order),
         NEW above, HasFound(i, order, q, row, 0, above)
  PROVE  HasFound(i, order, q, row, Sheets[i].columns, MatchesOfRow(i, order, q, above, row))
<1> DEFINE c == [i |-> i, order |-> order, q |-> q, row |-> row]
           n == Sheets[i].columns
<1>1. /\ Upto(n) \in Seq(1..n) /\ Len(Upto(n)) = n
      /\ \A k \in 1..n : Upto(n)[k] = k
  BY UptoProperties
<1>2. PICK f : Columns!PrefixFolds(c, above, Upto(n), f)
  BY <1>1, Columns!PrefixesFold
<1>3. /\ f[1..0] = above
      /\ \A k \in 0..(n - 1) : f[1..(k + 1)] = ColumnStep(c, f[1..k], k + 1)
      /\ MatchesOfRow(i, order, q, above, row) = f[1..n]
  <2> HIDE DEF c
  <2>1. /\ f[1..0] = above
        /\ \A k \in 0..(n - 1) : f[1..(k + 1)] = ColumnStep(c, f[1..k], Upto(n)[k + 1])
        /\ Columns!Folded(c, above, Upto(n)) = f[1..n]
    BY <1>1, <1>2 DEF Columns!PrefixFolds
  <2>2. \A k \in 0..(n - 1) : Upto(n)[k + 1] = k + 1
    BY <1>1
  <2>3. MatchesOfRow(i, order, q, above, row) = Columns!Folded(c, above, Upto(n))
    BY ColumnsFold DEF c
  <2>4. QED
    BY <2>1, <2>2, <2>3
<1> DEFINE T == {k \in Nat : k <= n => HasFound(i, order, q, row, k, f[1..k])}
<1>4. 0 \in T
  BY <1>3
<1>5. \A k \in T : k + 1 \in T
  <2> SUFFICES ASSUME NEW k \in T, k + 1 <= n
               PROVE  HasFound(i, order, q, row, k + 1, f[1..(k + 1)])
    OBVIOUS
  <2>1. k \in 0..(n - 1) /\ k + 1 \in 1..n /\ (k + 1) - 1 = k
        /\ HasFound(i, order, q, row, k, f[1..k])
    OBVIOUS
  <2>2. HasFound(i, order, q, row, k + 1, ColumnStep(c, f[1..k], k + 1))
    BY <2>1, ColumnIsSearched
  <2>3. QED
    BY <1>3, <2>1, <2>2
<1>6. T = Nat
  <2>1. T \in SUBSET Nat
    OBVIOUS
  <2> HIDE DEF T
  <2>2. QED
    BY <1>4, <1>5, <2>1, AllNaturals
<1>7. n \in T
  BY <1>6
<1>8. QED
  BY <1>3, <1>7

\* Matches finds the cells that contain the query, in the order of the screen.
LEMMA MatchesAreHits ==
  ASSUME NEW i, NEW order, NEW q, q # <<>>,
         Len(order) \in Nat, Sheets[i].columns \in Nat
  PROVE  HasFound(i, order, q, Len(order), Sheets[i].columns, Matches(i, order, q))
<1> DEFINE c == [i |-> i, order |-> order, q |-> q]
           n == Len(order)
<1>1. /\ Upto(n) \in Seq(1..n) /\ Len(Upto(n)) = n
      /\ \A k \in 1..n : Upto(n)[k] = k
  BY UptoProperties
<1>2. PICK f : Rows!PrefixFolds(c, <<>>, Upto(n), f)
  BY <1>1, Rows!PrefixesFold
<1>3. /\ f[1..0] = <<>>
      /\ \A k \in 0..(n - 1) : f[1..(k + 1)] = MatchesOfRow(i, order, q, f[1..k], k + 1)
      /\ Matches(i, order, q) = f[1..n]
  <2>1. /\ f[1..0] = <<>>
        /\ \A k \in 0..(n - 1) : f[1..(k + 1)] = RowStep(c, f[1..k], Upto(n)[k + 1])
        /\ Rows!Folded(c, <<>>, Upto(n)) = f[1..n]
    <3> HIDE DEF c, n
    <3>1. QED
      BY <1>1, <1>2 DEF Rows!PrefixFolds
  <2>2. \A k \in 0..(n - 1) : Upto(n)[k + 1] = k + 1
    BY <1>1
  <2>3. Matches(i, order, q) = Rows!Folded(c, <<>>, Upto(n))
    BY RowsFold
  <2>4. QED
    BY <2>1, <2>2, <2>3 DEF RowStep
<1> DEFINE T == {k \in Nat : k <= n => HasFound(i, order, q, k, Sheets[i].columns, f[1..k])}
<1>4. \A k \in Nat : Hits(i, order, q, k, Sheets[i].columns) = Hits(i, order, q, k + 1, 0)
  <2> SUFFICES ASSUME NEW k \in Nat, NEW at \in (1..n) \X (1..Sheets[i].columns)
               PROVE  at[1] < k \/ (at[1] = k /\ at[2] <= Sheets[i].columns)
                      <=> at[1] < k + 1 \/ (at[1] = k + 1 /\ at[2] <= 0)
    BY DEF Hits
  <2>1. at[1] \in 1..n /\ at[2] \in 1..Sheets[i].columns
    OBVIOUS
  <2>2. QED
    BY <2>1
<1>5. 0 \in T
  <2>1. ToSet(<<>>) = {} /\ InScreenOrder(<<>>)
    BY DEF ToSet, InScreenOrder
  <2>2. Hits(i, order, q, 0, Sheets[i].columns) = {}
    BY DEF Hits
  <2>3. <<>> \in Seq((1..Len(order)) \X (1..Sheets[i].columns))
    OBVIOUS
  <2>4. HasFound(i, order, q, 0, Sheets[i].columns, <<>>)
    BY <2>1, <2>2, <2>3 DEF HasFound
  <2>5. QED
    BY <1>3, <2>4
<1>6. \A k \in T : k + 1 \in T
  <2> SUFFICES ASSUME NEW k \in T, k + 1 <= n
               PROVE  HasFound(i, order, q, k + 1, Sheets[i].columns, f[1..(k + 1)])
    OBVIOUS
  <2>1. k \in Nat /\ k \in 0..(n - 1) /\ k + 1 \in 1..n
        /\ HasFound(i, order, q, k, Sheets[i].columns, f[1..k])
    OBVIOUS
  <2>2. HasFound(i, order, q, k + 1, 0, f[1..k])
    BY <1>4, <2>1 DEF HasFound
  <2>3. HasFound(i, order, q, k + 1, Sheets[i].columns, MatchesOfRow(i, order, q, f[1..k], k + 1))
    BY <2>1, <2>2, RowIsSearched
  <2>4. QED
    BY <1>3, <2>1, <2>3
<1>7. T = Nat
  <2>1. T \in SUBSET Nat
    OBVIOUS
  <2> HIDE DEF T
  <2>2. QED
    BY <1>5, <1>6, <2>1, AllNaturals
<1>8. n \in T
  BY <1>7
<1>9. QED
  BY <1>3, <1>8

-----------------------------------------------------------------------------
(* Going round the matches. *)

LEMMA LeastOfNaturals ==
  ASSUME NEW S \in SUBSET Nat, S # {}
  PROVE  Min(S) \in S /\ \A k \in S : Min(S) <= k
<1>1. \E k \in S : \A m \in S : k <= m
  BY LeastNatural
<1>2. QED
  BY <1>1 DEF Min

LEMMA GreatestUpto ==
  ASSUME NEW n \in Nat, NEW S \in SUBSET (1..n), S # {}
  PROVE  Max(S) \in S /\ \A k \in S : k <= Max(S)
<1>1. S \in SUBSET (0..n)
  OBVIOUS
<1>2. Top(S) \in S /\ \A k \in S : k <= Top(S)
  BY <1>1, TopIsGreatest
<1>3. QED
  BY <1>2 DEF Max, Top

Positions == Nat \X Nat

\* A jump goes to one of the matches.
LEMMA JumpsToMatches ==
  ASSUME NEW found \in Seq(Positions), found # <<>>, NEW here
  PROVE  NextMatch(found, here) \in ToSet(found) /\ PreviousMatch(found, here) \in ToSet(found)
<1> DEFINE n == Len(found)
           later == {k \in 1..n : Earlier(here, found[k])}
           sooner == {k \in 1..n : Earlier(found[k], here)}
<1>1. n \in Nat /\ n >= 1 /\ DOMAIN found = 1..n
  OBVIOUS
<1>2. NextMatch(found, here)
        = found[IF (IF later # {} THEN Min(later) ELSE 0) = 0 THEN 1
                ELSE (IF later # {} THEN Min(later) ELSE 0)]
  BY DEF NextMatch, SelectInSeq
<1>3. PreviousMatch(found, here)
        = found[IF (IF sooner # {} THEN Max(sooner) ELSE 0) = 0 THEN n
                ELSE (IF sooner # {} THEN Max(sooner) ELSE 0)]
  BY DEF PreviousMatch, SelectLastInSeq
<1>4. later \in SUBSET Nat /\ sooner \in SUBSET (1..n) /\ later \in SUBSET (1..n)
  BY <1>1
<1> HIDE DEF later, sooner, n
<1>5. later # {} => Min(later) \in 1..n
  BY <1>4, LeastOfNaturals
<1>6. sooner # {} => Max(sooner) \in 1..n
  BY <1>1, <1>4, GreatestUpto
<1>7. 1 \in 1..n /\ n \in 1..n
  BY <1>1
<1>8. \A k \in 1..n : found[k] \in ToSet(found)
  BY <1>1 DEF ToSet
<1>9. QED
  BY <1>2, <1>3, <1>5, <1>6, <1>7, <1>8

LEMMA EarlierByIndex ==
  ASSUME NEW found \in Seq(Positions), InScreenOrder(found),
         NEW j \in DOMAIN found, NEW k \in DOMAIN found
  PROVE  /\ Earlier(found[j], found[k]) <=> j < k
         /\ found[j] = found[k] => j = k
<1>1. /\ found[j] \in Positions /\ found[k] \in Positions /\ j \in Nat /\ k \in Nat
      /\ found[j][1] \in Nat /\ found[j][2] \in Nat /\ found[k][1] \in Nat /\ found[k][2] \in Nat
  BY DEF Positions
<1>2. j < k => Earlier(found[j], found[k])
  BY DEF InScreenOrder
<1>3. k < j => Earlier(found[k], found[j])
  BY DEF InScreenOrder
<1>4. QED
  BY <1>1, <1>2, <1>3 DEF Earlier

\* n from a match is the next one, N the one before, round the ends.
LEMMA MatchesInTurn ==
  ASSUME NEW found \in Seq(Positions), InScreenOrder(found), NEW j \in DOMAIN found
  PROVE  /\ NextMatch(found, found[j]) = found[IF j = Len(found) THEN 1 ELSE j + 1]
         /\ PreviousMatch(found, found[j]) = found[IF j = 1 THEN Len(found) ELSE j - 1]
<1> DEFINE n == Len(found)
           later == {k \in 1..n : Earlier(found[j], found[k])}
           sooner == {k \in 1..n : Earlier(found[k], found[j])}
<1>1. n \in Nat /\ DOMAIN found = 1..n /\ j \in 1..n
  OBVIOUS
<1>2. NextMatch(found, found[j])
        = found[IF (IF later # {} THEN Min(later) ELSE 0) = 0 THEN 1
                ELSE (IF later # {} THEN Min(later) ELSE 0)]
  BY DEF NextMatch, SelectInSeq
<1>3. PreviousMatch(found, found[j])
        = found[IF (IF sooner # {} THEN Max(sooner) ELSE 0) = 0 THEN n
                ELSE (IF sooner # {} THEN Max(sooner) ELSE 0)]
  BY DEF PreviousMatch, SelectLastInSeq
<1>4. \A k \in 1..n : (k \in later <=> j < k) /\ (k \in sooner <=> k < j)
  BY <1>1, EarlierByIndex
<1>5. later \in SUBSET Nat /\ later \in SUBSET (1..n) /\ sooner \in SUBSET (1..n)
  BY <1>1
<1> HIDE DEF later, sooner, n
<1>6. (IF later # {} THEN Min(later) ELSE 0) = IF j = n THEN 0 ELSE j + 1
  <2>1. CASE j = n
    <3>1. later = {}
      BY <1>1, <1>4, <1>5, <2>1
    <3>2. QED
      BY <2>1, <3>1
  <2>2. CASE j # n
    <3>1. j + 1 \in 1..n
      BY <1>1, <2>2
    <3>2. j + 1 \in later
      BY <1>1, <1>4, <3>1
    <3>3. Min(later) \in later /\ Min(later) <= j + 1
      BY <1>5, <3>2, LeastOfNaturals
    <3>4. Min(later) = j + 1
      <4> DEFINE m == Min(later)
      <4>1. m \in 1..n /\ m <= j + 1 /\ j < m
        BY <1>4, <1>5, <3>3
      <4> HIDE DEF m
      <4>2. m = j + 1
        BY <1>1, <4>1
      <4>3. QED
        BY <4>2 DEF m
    <3>5. QED
      BY <2>2, <3>2, <3>4
  <2>3. QED
    BY <2>1, <2>2
<1>7. (IF sooner # {} THEN Max(sooner) ELSE 0) = j - 1
  <2>1. CASE j = 1
    <3>1. sooner = {}
      BY <1>1, <1>4, <1>5, <2>1
    <3>2. QED
      BY <2>1, <3>1
  <2>2. CASE j # 1
    <3>1. j - 1 \in 1..n
      BY <1>1, <2>2
    <3>2. j - 1 \in sooner
      BY <1>1, <1>4, <3>1
    <3>3. Max(sooner) \in sooner /\ j - 1 <= Max(sooner)
      BY <1>1, <1>5, <3>2, GreatestUpto
    <3>4. Max(sooner) = j - 1
      <4> DEFINE m == Max(sooner)
      <4>1. m \in 1..n /\ j - 1 <= m /\ m < j
        BY <1>4, <1>5, <3>3
      <4> HIDE DEF m
      <4>2. m = j - 1
        BY <1>1, <4>1
      <4>3. QED
        BY <4>2 DEF m
    <3>5. QED
      BY <3>2, <3>4
  <2>3. QED
    BY <2>1, <2>2
<1>8. NextMatch(found, found[j]) = found[IF j = n THEN 1 ELSE j + 1]
  BY <1>1, <1>2, <1>6
<1>9. PreviousMatch(found, found[j]) = found[IF j = 1 THEN n ELSE j - 1]
  BY <1>1, <1>3, <1>7
<1>10. QED
  BY <1>8, <1>9 DEF n

\* N comes back from where n goes to.
LEMMA BackAndForth ==
  ASSUME NEW found \in Seq(Positions), InScreenOrder(found), NEW at \in ToSet(found)
  PROVE  /\ NextMatch(found, at) \in ToSet(found)
         /\ PreviousMatch(found, NextMatch(found, at)) = at
<1> DEFINE n == Len(found)
<1>1. n \in Nat /\ DOMAIN found = 1..n /\ ToSet(found) = {found[k] : k \in 1..n}
  BY DEF ToSet
<1>2. PICK j \in 1..n : at = found[j]
  BY <1>1
<1> DEFINE k == IF j = n THEN 1 ELSE j + 1
<1>3. k \in 1..n /\ j = (IF k = 1 THEN n ELSE k - 1)
  <2> HIDE DEF n
  <2>1. QED
    BY <1>1
<1>4. NextMatch(found, at) = found[k]
  BY <1>1, <1>2, MatchesInTurn
<1> HIDE DEF n, k
<1>5. PreviousMatch(found, found[k]) = found[j]
  BY <1>1, <1>3, MatchesInTurn DEF n
<1>6. QED
  BY <1>1, <1>2, <1>3, <1>4, <1>5

\* What n never leaves is all of the matches.
LEMMA RoundTrip ==
  ASSUME NEW found \in Seq(Positions), InScreenOrder(found),
         NEW S \in SUBSET ToSet(found), S # {},
         \A at \in S : NextMatch(found, at) \in S
  PROVE  S = ToSet(found)
<1> DEFINE n == Len(found)
           K == {k \in 1..n : found[k] \in S}
<1>1. n \in Nat /\ DOMAIN found = 1..n /\ ToSet(found) = {found[k] : k \in 1..n}
  BY DEF ToSet
<1>2. K # {} /\ K \in SUBSET (1..n)
  BY <1>1
<1>3. \A k \in K : (IF k = n THEN 1 ELSE k + 1) \in K
  <2> SUFFICES ASSUME NEW k \in K PROVE (IF k = n THEN 1 ELSE k + 1) \in K
    OBVIOUS
  <2> DEFINE next == IF k = n THEN 1 ELSE k + 1
  <2>1. k \in DOMAIN found /\ found[k] \in S
    BY <1>1
  <2>2. NextMatch(found, found[k]) = found[next]
    BY <2>1, MatchesInTurn
  <2>3. found[next] \in S
    BY <2>1, <2>2
  <2>4. next \in 1..n
    BY <1>1, <2>1
  <2>5. QED
    BY <2>3, <2>4
<1>4. \A k \in 1..n : k \in K => found[k] \in S
  OBVIOUS
<1> HIDE DEF K, n
<1>5. Max(K) \in K /\ \A k \in K : k <= Max(K)
  BY <1>1, <1>2, GreatestUpto
<1>6. n \in K
  <2> DEFINE m == Max(K)
  <2>1. m \in K /\ m \in 1..n /\ \A k \in K : k <= m
    BY <1>2, <1>5
  <2> HIDE DEF m
  <2>2. m = n \/ m + 1 \in K
    BY <1>3, <2>1
  <2>3. m = n
    BY <1>1, <2>1, <2>2
  <2>4. QED
    BY <2>1, <2>3
<1>7. 1 \in K
  BY <1>3, <1>6
<1> DEFINE T == {m \in Nat : m + 1 <= n => m + 1 \in K}
<1>8. 0 \in T
  BY <1>7
<1>9. \A m \in T : m + 1 \in T
  BY <1>1, <1>2, <1>3
<1>10. T = Nat
  <2>1. T \in SUBSET Nat
    OBVIOUS
  <2> HIDE DEF T
  <2>2. QED
    BY <1>8, <1>9, <2>1, AllNaturals
<1>11. \A k \in 1..n : k \in K
  <2> SUFFICES ASSUME NEW k \in 1..n PROVE k \in K
    OBVIOUS
  <2>1. k - 1 \in Nat /\ (k - 1) + 1 = k /\ k <= n
    BY <1>1
  <2>2. QED
    BY <1>10, <2>1
<1>12. QED
  BY <1>1, <1>4, <1>11

-----------------------------------------------------------------------------
(* Views. *)

Views(i) == [order : Seq(DOMAIN Sheets[i].rows),
             sort  : [column : Nat, descending : BOOLEAN],
             row : Nat \ {0}, col : Nat \ {0}, top : Nat \ {0}, left : Nat \ {0}]

LEMMA SheetProperties ==
  ASSUME NEW i \in DOMAIN Sheets
  PROVE  /\ Sheets[i].columns \in Nat
         /\ Sheets[i].rows \in Seq(Seq(Cells))
         /\ \A r \in DOMAIN Sheets[i].rows : Len(Sheets[i].rows[r]) = Sheets[i].columns
<1> DEFINE D == [columns : Nat, widths : Seq(Nat), rows : Seq(Seq(Cells))]
<1>1. Sheets[i] \in D
  <2>1. Sheets \in Seq(D)
    BY SheetsAssumption
  <2> HIDE DEF D
  <2>2. QED
    BY <2>1
<1>2. Sheets[i] \in ToSet(Sheets)
  BY DEF ToSet
<1>3. \A row \in ToSet(Sheets[i].rows) : Len(row) = Sheets[i].columns
  BY <1>2, SheetsAssumption
<1>4. QED
  BY <1>1, <1>3 DEF ToSet

\* One row more, at its place.
LEMMA PlacedIsSeq ==
  ASSUME NEW D, NEW order \in Seq(D), NEW r \in D, NEW i, NEW col, NEW descending
  PROVE  Placed(i, col, descending, order, r) \in Seq(D)
<1> DEFINE sooner == {n \in DOMAIN order : ~Before(i, col, descending, r, order[n])}
           k == Cardinality(sooner)
<1>1. DOMAIN order = 1..Len(order) /\ Len(order) \in Nat
  OBVIOUS
<1>2. IsFiniteSet(1..Len(order)) /\ Cardinality(1..Len(order)) = Len(order)
  BY <1>1, FS_Interval
<1>3. sooner \in SUBSET (1..Len(order))
  BY <1>1
<1> HIDE DEF sooner
<1>4. k \in Nat /\ k <= Len(order)
  <2>1. IsFiniteSet(sooner) /\ Cardinality(sooner) <= Cardinality(1..Len(order))
    BY <1>2, <1>3, FS_Subset
  <2>2. QED
    BY <1>2, <2>1, FS_CardinalityType
<1> HIDE DEF k
<1>5. /\ SubSeq(order, 1, k) \in Seq(D)
      /\ SubSeq(order, 1 + k, Len(order)) \in Seq(D)
      /\ <<r>> \in Seq(D) /\ (1 + k) - 1 = k
  BY <1>1, <1>4
<1>6. SubSeq(order, 1, (1 + k) - 1) \o <<r>> \o SubSeq(order, 1 + k, Len(order)) \in Seq(D)
  BY <1>5
<1>7. QED
  BY <1>6 DEF Placed, InsertAt, k, sooner

OrderStep(c, order, r) == Placed(c.i, c.col, c.descending, order, r)

Orders == INSTANCE FoldInduction WITH Op <- OrderStep,
                                      Good <- LAMBDA c, order : order \in Seq(DOMAIN Sheets[c.i].rows)

LEMMA OrderedIsSeq ==
  ASSUME NEW i \in DOMAIN Sheets, NEW col, NEW descending
  PROVE  Ordered(i, col, descending) \in Seq(DOMAIN Sheets[i].rows)
<1> DEFINE c == [i |-> i, col |-> col, descending |-> descending]
           D == DOMAIN Sheets[i].rows
           source == [r \in D |-> r]
<1>1. Ordered(i, col, descending) = Orders!Folded(c, <<>>, source)
  BY DEF Ordered, FoldLeft, MapThenFoldSet, Max, OrderStep,
         Orders!Folded, Orders!IsFold, Orders!Top
<1>2. source \in Seq(D) /\ DOMAIN source = D /\ <<>> \in Seq(D)
  <2>1. D = 1..Len(Sheets[i].rows) /\ Len(Sheets[i].rows) \in Nat
    BY SheetProperties
  <2> HIDE DEF D
  <2>2. QED
    BY <2>1
<1>3. \A order : \A r \in DOMAIN source : order \in Seq(D) => OrderStep(c, order, source[r]) \in Seq(D)
  BY PlacedIsSeq DEF OrderStep
<1>4. c.i = i
  OBVIOUS
<1> HIDE DEF c, source
<1>5. Orders!Folded(c, <<>>, source) \in Seq(DOMAIN Sheets[c.i].rows)
  BY <1>2, <1>3, <1>4, Orders!FoldKeeps
<1>6. QED
  BY <1>1, <1>4, <1>5

\* What CursorVisible says of a view and a screen.
OnScreen(i, v, size) ==
  /\ v.row \in v.top..(v.top + size.page - 1)
  /\ v.left <= v.col
  /\ Span(i, v.left, v.col) <= size.width \/ v.left = v.col

\* Scrolling brings the cursor on the screen and changes nothing else.
LEMMA ScrolledOnScreen ==
  ASSUME NEW i, NEW v \in Views(i), NEW size \in Screens
  PROVE  /\ Scrolled(i, v, size) \in Views(i)
         /\ Scrolled(i, v, size).order = v.order
         /\ OnScreen(i, Scrolled(i, v, size), size)
<1> DEFINE fits == {c \in Min({v.left, v.col})..v.col : Span(i, c, v.col) <= size.width}
           left == Min({v.col} \cup fits)
           s == Scrolled(i, v, size)
           top == IF v.row < v.top THEN v.row
                  ELSE IF v.row >= v.top + size.page THEN v.row - size.page + 1 ELSE v.top
<1>1. s = [v EXCEPT !.top = top, !.left = left]
  BY DEF Scrolled
<1>2. v.row \in Nat \ {0} /\ v.col \in Nat \ {0} /\ v.top \in Nat \ {0} /\ v.left \in Nat \ {0}
      /\ size.page \in Nat \ {0}
  BY ScreensAssumption DEF Views
<1>3. /\ Min({v.left, v.col}) \in Nat \ {0}
  <2>1. {v.left, v.col} \in SUBSET Nat /\ {v.left, v.col} # {}
    BY <1>2
  <2>2. Min({v.left, v.col}) \in {v.left, v.col}
    BY <2>1, LeastOfNaturals
  <2>3. QED
    BY <1>2, <2>2
<1>4. left \in Nat \ {0} /\ left <= v.col /\ (Span(i, left, v.col) <= size.width \/ left = v.col)
  <2>1. \A c \in fits : c \in Nat \ {0} /\ c <= v.col /\ Span(i, c, v.col) <= size.width
    BY <1>2, <1>3
  <2> HIDE DEF fits
  <2>2. {v.col} \cup fits \in SUBSET Nat /\ {v.col} \cup fits # {}
    BY <1>2, <2>1
  <2>3. left \in {v.col} \cup fits
    BY <2>2, LeastOfNaturals
  <2> HIDE DEF left
  <2>4. QED
    BY <1>2, <2>1, <2>3
<1>5. top \in Nat \ {0} /\ v.row \in top..(top + size.page - 1)
  BY <1>2
<1> HIDE DEF left, top
<1>6. /\ s \in Views(i) /\ s.order = v.order /\ s.row = v.row /\ s.col = v.col
      /\ s.top = top /\ s.left = left
  BY <1>1, <1>4, <1>5 DEF Views
<1>7. QED
  BY <1>4, <1>5, <1>6 DEF OnScreen

\* A sheet that is loaded is shown from its first cell.
LEMMA NewViewProperties ==
  ASSUME NEW i \in DOMAIN Sheets
  PROVE  NewView(i) \in Views(i) /\ NewView(i).row = 1 /\ NewView(i).top = 1
         /\ NewView(i).col = 1 /\ NewView(i).left = 1
<1>1. [r \in DOMAIN Sheets[i].rows |-> r] \in Seq(DOMAIN Sheets[i].rows)
  <2>1. /\ DOMAIN Sheets[i].rows = 1..Len(Sheets[i].rows)
        /\ Len(Sheets[i].rows) \in Nat
    BY SheetProperties
  <2>2. QED
    BY <2>1
<1> DEFINE source == [r \in DOMAIN Sheets[i].rows |-> r]
<1>2. NewView(i) = [order |-> source, sort |-> NoSort, row |-> 1, col |-> 1, top |-> 1, left |-> 1]
  <2>1. NewView(i) = [NoView EXCEPT !.order = source, !.row = 1, !.col = 1, !.top = 1, !.left = 1]
    BY DEF NewView
  <2> HIDE DEF source
  <2>2. QED
    BY <2>1 DEF NoView
<1> HIDE DEF source
<1>3. QED
  BY <1>1, <1>2 DEF NoSort, Views, source

LEMMA NoViewIsNone ==
  ASSUME NEW i
  PROVE  NoView \notin Views(i)
BY DEF NoView, Views

LEMMA MaxOfTwo ==
  ASSUME NEW a \in Int, NEW b \in Int
  PROVE  Max({a, b}) = IF a >= b THEN a ELSE b
BY DEF Max

LEMMA MinOfTwo ==
  ASSUME NEW a \in Int, NEW b \in Int
  PROVE  Min({a, b}) = IF a <= b THEN a ELSE b
BY DEF Min

-----------------------------------------------------------------------------
(* The invariant: what is shown, what was searched for, what was parked. *)

Shown ==
  /\ current \in DOMAIN Sheets
  /\ view \in Views(current)
  /\ screen \in Screens
  /\ OnScreen(current, view, screen)

Searched ==
  /\ query \in Seq(Letters)
  /\ typed \in Seq(Letters)
  /\ matches = Matches(current, view.order, query)

Parked ==
  /\ DOMAIN parked = DOMAIN Sheets
  /\ DOMAIN loads = DOMAIN Sheets
  /\ \A i \in DOMAIN Sheets : parked[i] = NoView \/ parked[i] \in Views(i)
  /\ parked[current] = NoView
  /\ leftAt = parked
  /\ SheetsRemembered

Inv == Shown /\ Searched /\ Parked

LEMMA InitHolds == Init => Inv
<1> SUFFICES ASSUME Init PROVE Inv
  OBVIOUS
<1> USE DEF Init
<1>1. current \in DOMAIN Sheets /\ view = NewView(current) /\ screen \in Screens
  OBVIOUS
<1>2. /\ view \in Views(current) /\ view.row = 1 /\ view.top = 1
      /\ view.col = 1 /\ view.left = 1
  BY <1>1, NewViewProperties
<1>3. screen.page \in Nat \ {0}
  BY <1>1, ScreensAssumption
<1>4. OnScreen(current, view, screen)
  BY <1>2, <1>3 DEF OnScreen
<1>5. Searched
  <2>1. <<>> \in Seq(Letters)
    OBVIOUS
  <2>2. QED
    BY <2>1 DEF Searched, Matches
<1>6. Parked
  BY DEF Parked, SheetsRemembered
<1>7. QED
  BY <1>1, <1>2, <1>4, <1>5, <1>6 DEF Inv, Shown

\* The cells found by a search are cells of the grid.
LEMMA MatchesAreCells ==
  ASSUME NEW i \in DOMAIN Sheets, NEW order, Len(order) \in Nat, NEW q
  PROVE  /\ Matches(i, order, q) \in Seq((1..Len(order)) \X (1..Sheets[i].columns))
         /\ InScreenOrder(Matches(i, order, q))
<1>1. CASE q = <<>>
  <2>1. Matches(i, order, q) = <<>>
    BY <1>1 DEF Matches
  <2>2. <<>> \in Seq((1..Len(order)) \X (1..Sheets[i].columns)) /\ InScreenOrder(<<>>)
    BY DEF InScreenOrder
  <2>3. QED
    BY <2>1, <2>2
<1>2. CASE q # <<>>
  BY <1>2, MatchesAreHits, SheetProperties DEF HasFound
<1>3. QED
  BY <1>1, <1>2

LEMMA JumpedIsView ==
  ASSUME NEW i \in DOMAIN Sheets, NEW v \in Views(i), NEW q, NEW found, NEW here,
         found = Matches(i, v.order, q), found # <<>>
  PROVE  /\ Jumped(v, NextMatch(found, here)) \in Views(i)
         /\ Jumped(v, NextMatch(found, here)).order = v.order
         /\ Jumped(v, PreviousMatch(found, here)) \in Views(i)
         /\ Jumped(v, PreviousMatch(found, here)).order = v.order
<1> DEFINE P == (1..Len(v.order)) \X (1..Sheets[i].columns)
<1>1. Len(v.order) \in Nat
  BY DEF Views
<1>2. found \in Seq(P)
  BY <1>1, MatchesAreCells
<1>3. found \in Seq(Positions)
  <2>1. P \subseteq Positions
    BY DEF Positions
  <2> HIDE DEF P
  <2>2. QED
    BY <1>2, <2>1
<1>4. \A at \in ToSet(found) : at[1] \in Nat \ {0} /\ at[2] \in Nat \ {0}
  <2>1. \A at \in P : at[1] \in Nat \ {0} /\ at[2] \in Nat \ {0}
    OBVIOUS
  <2> HIDE DEF P
  <2>2. \A at \in ToSet(found) : at \in P
    BY <1>2 DEF ToSet
  <2>3. QED
    BY <2>1, <2>2
<1>5. NextMatch(found, here) \in ToSet(found) /\ PreviousMatch(found, here) \in ToSet(found)
  BY <1>3, JumpsToMatches
<1>6. \A at \in ToSet(found) : Jumped(v, at) \in Views(i) /\ Jumped(v, at).order = v.order
  BY <1>4 DEF Jumped, Views
<1>7. QED
  BY <1>5, <1>6

\* A key that moves within the sheet to another view of it.
LEMMA BrowseKeeps ==
  ASSUME Inv, NEW v \in Views(current), NEW found,
         found = Matches(current, v.order, query), Browse(v, found)
  PROVE  Inv'
<1>1. /\ view' = Scrolled(current, v, screen) /\ matches' = found
      /\ current' = current /\ parked' = parked /\ query' = query /\ typed' = typed
      /\ screen' = screen /\ loads' = loads /\ leftAt' = leftAt
  BY DEF Browse, Show
<1>2. /\ view' \in Views(current) /\ view'.order = v.order
      /\ OnScreen(current, view', screen)
  BY <1>1, ScrolledOnScreen DEF Inv, Shown
<1>3. Shown'
  BY <1>1, <1>2 DEF Inv, Shown
<1>4. Searched'
  BY <1>1, <1>2 DEF Inv, Searched
<1>5. Parked'
  BY <1>1 DEF Inv, Parked, SheetsRemembered
<1>6. QED
  BY <1>3, <1>4, <1>5 DEF Inv

\* A key that moves only the cursor.
LEMMA MoveKeeps ==
  ASSUME Inv, NEW v \in Views(current), v.order = view.order, Browse(v, matches)
  PROVE  Inv'
BY BrowseKeeps DEF Inv, Searched

LEMMA TurnKeeps ==
  ASSUME Inv, NEW from, NEW to, NEW text \in Seq(Letters), Turn(from, to, text)
  PROVE  Inv'
<1>1. /\ view' = Scrolled(current, view, screen) /\ matches' = matches /\ typed' = text
      /\ current' = current /\ parked' = parked /\ query' = query
      /\ screen' = screen /\ loads' = loads /\ leftAt' = leftAt
  BY DEF Turn
<1>2. /\ view' \in Views(current) /\ view'.order = view.order
      /\ OnScreen(current, view', screen)
  BY <1>1, ScrolledOnScreen DEF Inv, Shown
<1>3. Shown'
  BY <1>1, <1>2 DEF Inv, Shown
<1>4. Searched'
  BY <1>1, <1>2 DEF Inv, Searched
<1>5. Parked'
  BY <1>1 DEF Inv, Parked, SheetsRemembered
<1>6. QED
  BY <1>3, <1>4, <1>5 DEF Inv

LEMMA CursorKeysKeep ==
  ASSUME Inv, NEW rows \in Nat,
         Up(rows) \/ Down(rows) \/ Left \/ Right \/ Home \/ End \/ ToTop \/ ToBottom
  PROVE  Inv'
<1>1. /\ view \in Views(current) /\ current \in DOMAIN Sheets
      /\ view.row \in Nat \ {0} /\ view.col \in Nat \ {0}
  BY DEF Inv, Shown, Views
<1>2. LastRow \in Nat \ {0} /\ LastCol \in Nat \ {0}
  <2>1. Len(view.order) \in Nat
    BY <1>1 DEF Views
  <2>2. Sheets[current].columns \in Nat
    BY <1>1, SheetProperties
  <2>3. QED
    BY <2>1, <2>2, MaxOfTwo DEF LastRow, LastCol
<1>3. \A r \in Nat \ {0} : /\ [view EXCEPT !.row = r] \in Views(current)
                           /\ [view EXCEPT !.row = r].order = view.order
  BY <1>1 DEF Views
<1>4. \A c \in Nat \ {0} : /\ [view EXCEPT !.col = c] \in Views(current)
                           /\ [view EXCEPT !.col = c].order = view.order
  BY <1>1 DEF Views
<1>5. CASE Up(rows)
  <2>1. Max({1, view.row - rows}) \in Nat \ {0}
    BY <1>1, MaxOfTwo
  <2>2. QED
    BY <1>3, <1>5, <2>1, MoveKeeps DEF Up
<1>6. CASE Down(rows)
  <2>1. Min({view.row + rows, LastRow}) \in Nat \ {0}
    BY <1>1, <1>2, MinOfTwo
  <2>2. QED
    BY <1>3, <1>6, <2>1, MoveKeeps DEF Down
<1>7. CASE Left
  <2>1. Max({1, view.col - 1}) \in Nat \ {0}
    BY <1>1, MaxOfTwo
  <2>2. QED
    BY <1>4, <1>7, <2>1, MoveKeeps DEF Left
<1>8. CASE Right
  <2>1. Min({view.col + 1, LastCol}) \in Nat \ {0}
    BY <1>1, <1>2, MinOfTwo
  <2>2. QED
    BY <1>4, <1>8, <2>1, MoveKeeps DEF Right
<1>9. CASE Home
  <2>1. [view EXCEPT !.col = 1] \in Views(current) /\ [view EXCEPT !.col = 1].order = view.order
    BY <1>4
  <2>2. QED
    BY <1>9, <2>1, MoveKeeps DEF Home
<1>10. CASE End
  BY <1>2, <1>4, <1>10, MoveKeeps DEF End
<1>11. CASE ToTop
  <2>1. [view EXCEPT !.row = 1] \in Views(current) /\ [view EXCEPT !.row = 1].order = view.order
    BY <1>3
  <2>2. QED
    BY <1>11, <2>1, MoveKeeps DEF ToTop
<1>12. CASE ToBottom
  BY <1>2, <1>3, <1>12, MoveKeeps DEF ToBottom
<1>13. QED
  BY <1>5, <1>6, <1>7, <1>8, <1>9, <1>10, <1>11, <1>12

LEMMA FindKeeps ==
  ASSUME Inv, FindNext \/ FindPrevious
  PROVE  Inv'
<1>1. view \in Views(current) /\ current \in DOMAIN Sheets
      /\ matches = Matches(current, view.order, query)
  BY DEF Inv, Shown, Searched
<1>2. CASE FindNext
  <2>1. matches # <<>> /\ Browse(Jumped(view, NextMatch(matches, <<view.row, view.col>>)), matches)
    BY <1>2 DEF FindNext
  <2>2. /\ Jumped(view, NextMatch(matches, <<view.row, view.col>>)) \in Views(current)
        /\ Jumped(view, NextMatch(matches, <<view.row, view.col>>)).order = view.order
    BY <1>1, <2>1, JumpedIsView
  <2>3. QED
    BY <2>1, <2>2, MoveKeeps
<1>3. CASE FindPrevious
  <2>1. matches # <<>> /\ Browse(Jumped(view, PreviousMatch(matches, <<view.row, view.col>>)), matches)
    BY <1>3 DEF FindPrevious
  <2>2. /\ Jumped(view, PreviousMatch(matches, <<view.row, view.col>>)) \in Views(current)
        /\ Jumped(view, PreviousMatch(matches, <<view.row, view.col>>)).order = view.order
    BY <1>1, <2>1, JumpedIsView
  <2>3. QED
    BY <2>1, <2>2, MoveKeeps
<1>4. QED
  BY <1>2, <1>3

LEMMA SortsKeep ==
  ASSUME Inv, SortRows \/ RestoreOrder
  PROVE  Inv'
<1>1. view \in Views(current) /\ current \in DOMAIN Sheets
  BY DEF Inv, Shown
<1>2. CASE SortRows
  <2> DEFINE v == Sorted(current, view)
  <2>1. v \in Views(current)
    BY <1>1, OrderedIsSeq DEF Sorted, Views
  <2>2. Browse(v, Matches(current, v.order, query))
    BY <1>2 DEF SortRows
  <2> HIDE DEF v
  <2>3. QED
    BY <2>1, <2>2, BrowseKeeps
<1>3. CASE RestoreOrder
  <2> DEFINE source == NewView(current).order
             v == [view EXCEPT !.order = source, !.sort = NoSort]
  <2>1. source \in Seq(DOMAIN Sheets[current].rows)
    BY <1>1, NewViewProperties DEF Views
  <2>2. Browse(v, Matches(current, v.order, query))
    BY <1>3 DEF RestoreOrder
  <2> HIDE DEF source
  <2>3. v \in Views(current)
    BY <1>1, <2>1 DEF Views, NoSort
  <2> HIDE DEF v
  <2>4. QED
    BY <2>2, <2>3, BrowseKeeps
<1>4. QED
  BY <1>2, <1>3

LEMMA TypingKeeps ==
  ASSUME Inv,
         \/ Frequency \/ CloseFrequency \/ StartSearch \/ Erase \/ DropSearch \/ Quit
         \/ \E letter \in Letters : TypeLetter(letter)
  PROVE  Inv'
<1>1. typed \in Seq(Letters) /\ <<>> \in Seq(Letters)
  BY DEF Inv, Searched
<1>2. CASE Frequency
  BY <1>1, <1>2, TurnKeeps DEF Frequency
<1>3. CASE CloseFrequency
  BY <1>1, <1>3, TurnKeeps DEF CloseFrequency
<1>4. CASE StartSearch
  BY <1>1, <1>4, TurnKeeps DEF StartSearch
<1>5. CASE Erase
  <2>1. (IF typed = <<>> THEN <<>> ELSE Front(typed)) \in Seq(Letters)
    BY <1>1 DEF Front
  <2>2. QED
    BY <1>5, <2>1, TurnKeeps DEF Erase
<1>6. CASE DropSearch
  BY <1>1, <1>6, TurnKeeps DEF DropSearch
<1>7. CASE Quit
  <2>1. PICK from \in {"browse", "search", "frequency"} : Turn(from, "quit", <<>>)
    BY <1>7 DEF Quit
  <2>2. QED
    BY <1>1, <2>1, TurnKeeps
<1>8. CASE \E letter \in Letters : TypeLetter(letter)
  <2>1. PICK letter \in Letters : TypeLetter(letter)
    BY <1>8
  <2>2. Append(typed, letter) \in Seq(Letters)
    BY <1>1
  <2>3. QED
    BY <2>1, <2>2, TurnKeeps DEF TypeLetter
<1>9. QED
  BY <1>2, <1>3, <1>4, <1>5, <1>6, <1>7, <1>8

LEMMA CommitKeeps ==
  ASSUME Inv, CommitSearch
  PROVE  Inv'
<1> DEFINE found == Matches(current, view.order, typed)
           v == IF found = <<>> THEN view
                ELSE Jumped(view, NextMatch(found, <<view.row, view.col>>))
<1>1. /\ view' = Scrolled(current, v, screen) /\ matches' = found
      /\ query' = typed /\ typed' = <<>>
      /\ current' = current /\ parked' = parked
      /\ screen' = screen /\ loads' = loads /\ leftAt' = leftAt
  BY DEF CommitSearch, Show
<1>2. v \in Views(current) /\ v.order = view.order
  <2>1. view \in Views(current) /\ current \in DOMAIN Sheets
    BY DEF Inv, Shown
  <2>2. found # <<>> =>
          /\ Jumped(view, NextMatch(found, <<view.row, view.col>>)) \in Views(current)
          /\ Jumped(view, NextMatch(found, <<view.row, view.col>>)).order = view.order
    BY <2>1, JumpedIsView
  <2> HIDE DEF found
  <2>3. QED
    BY <2>1, <2>2
<1>3. found = Matches(current, v.order, typed)
  BY <1>2
<1> HIDE DEF found, v
<1>4. /\ view' \in Views(current) /\ view'.order = v.order
      /\ OnScreen(current, view', screen)
  BY <1>1, <1>2, ScrolledOnScreen DEF Inv, Shown
<1>5. Shown'
  BY <1>1, <1>4 DEF Inv, Shown
<1>6. Searched'
  <2>1. <<>> \in Seq(Letters)
    OBVIOUS
  <2>2. QED
    BY <1>1, <1>3, <1>4, <2>1 DEF Inv, Searched
<1>7. Parked'
  BY <1>1 DEF Inv, Parked, SheetsRemembered
<1>8. QED
  BY <1>5, <1>6, <1>7 DEF Inv

\* Tab goes to another sheet.
LEMMA AnotherSheet ==
  ASSUME NEW count \in Nat, count >= 2, NEW n \in 1..count, NEW d \in {1, count - 1}
  PROVE  /\ 1 + ((n - 1 + d) % count) \in 1..count
         /\ 1 + ((n - 1 + d) % count) # n
<1> DEFINE a == n - 1 + d
           m == a % count
           k == a \div count
<1>1. a \in Nat /\ count \in Nat /\ count > 0 /\ a < 2 * count
  OBVIOUS
<1>2. m \in 0..(count - 1) /\ k \in Int /\ a = count * k + m
  <2> HIDE DEF a
  <2>1. QED
    BY <1>1
<1> HIDE DEF m, k
<1>3. k = 0 \/ k = 1
  <2>1. k < 2
    <3>1. k >= 2 => count * k >= 2 * count
      BY <1>1, <1>2
    <3>2. QED
      BY <1>1, <1>2, <3>1
  <2>2. k > -1
    <3>1. k <= -1 => count * k <= -count
      BY <1>1, <1>2
    <3>2. QED
      BY <1>1, <1>2, <3>1
  <2>3. QED
    BY <1>2, <2>1, <2>2
<1>4. m = a \/ m = a - count
  BY <1>1, <1>2, <1>3
<1>5. m # n - 1
  BY <1>4
<1>6. QED
  BY <1>2, <1>5 DEF m

LEMMA CycleKeeps ==
  ASSUME Inv, NEW forward \in BOOLEAN, Cycle(forward)
  PROVE  Inv'
<1> DEFINE count == Len(Sheets)
           i == 1 + ((current - 1 + (IF forward THEN 1 ELSE count - 1)) % count)
           v == IF parked[i] # NoView THEN parked[i] ELSE NewView(i)
<1>1. /\ count >= 2
      /\ loads' = IF parked[i] # NoView THEN loads ELSE [loads EXCEPT ![i] = @ + 1]
      /\ parked' = [parked EXCEPT ![i] = NoView, ![current] = view]
      /\ leftAt' = [leftAt EXCEPT ![i] = NoView, ![current] = view]
      /\ current' = i
      /\ matches' = Matches(i, v.order, query)
      /\ view' = Scrolled(i, v, screen)
      /\ query' = query /\ typed' = typed /\ screen' = screen
  BY DEF Cycle, Park
<1>2. i \in DOMAIN Sheets /\ i # current
  <2>1. count \in Nat /\ DOMAIN Sheets = 1..count
    BY SheetsAssumption
  <2> HIDE DEF count
  <2>2. current \in 1..count /\ (IF forward THEN 1 ELSE count - 1) \in {1, count - 1}
    BY <2>1 DEF Inv, Shown
  <2>3. i \in 1..count /\ i # current
    BY <1>1, <2>1, <2>2, AnotherSheet
  <2> HIDE DEF i
  <2>4. QED
    BY <2>1, <2>3
<1> HIDE DEF i
<1>3. v \in Views(i)
  BY <1>2, NewViewProperties DEF Inv, Parked
<1> HIDE DEF v
<1>4. /\ view' \in Views(i) /\ view'.order = v.order
      /\ OnScreen(i, view', screen)
  BY <1>1, <1>3, ScrolledOnScreen DEF Inv, Shown
<1>5. Shown'
  BY <1>1, <1>2, <1>4 DEF Inv, Shown
<1>6. Searched'
  BY <1>1, <1>4 DEF Inv, Searched
<1>7. current \in DOMAIN Sheets /\ view \in Views(current) /\ view # NoView
  BY NoViewIsNone DEF Inv, Shown
<1>8. Parked'
  <2>1. leftAt' = parked' /\ DOMAIN parked' = DOMAIN Sheets /\ DOMAIN loads' = DOMAIN Sheets
    BY <1>1 DEF Inv, Parked
  <2>2. /\ parked'[i] = NoView /\ parked'[current] = view
        /\ \A s \in DOMAIN Sheets \ {i, current} : parked'[s] = parked[s]
    BY <1>1, <1>2, <1>7 DEF Inv, Parked
  <2>3. \A s \in DOMAIN Sheets : parked'[s] = NoView \/ parked'[s] \in Views(s)
    BY <1>7, <2>2 DEF Inv, Parked
  <2>4. \A s \in DOMAIN Sheets : loads'[s] = IF s = i \/ parked'[s] # NoView THEN 1 ELSE 0
    <3> SUFFICES ASSUME NEW s \in DOMAIN Sheets
                 PROVE  loads'[s] = IF s = i \/ parked'[s] # NoView THEN 1 ELSE 0
      OBVIOUS
    <3>1. loads[s] = IF s = current \/ parked[s] # NoView THEN 1 ELSE 0
      BY DEF Inv, Parked, SheetsRemembered
    <3>2. CASE s = i
      BY <1>1, <1>2, <3>1, <3>2 DEF Inv, Parked
    <3>3. CASE s # i
      <4>1. loads'[s] = loads[s]
        BY <1>1, <3>3 DEF Inv, Parked
      <4>2. QED
        BY <1>7, <2>2, <3>1, <3>3, <4>1
    <3>4. QED
      BY <3>2, <3>3
  <2>5. QED
    BY <1>1, <2>1, <2>2, <2>3, <2>4 DEF Parked, SheetsRemembered
<1>9. QED
  BY <1>5, <1>6, <1>8 DEF Inv

LEMMA DrawKeeps ==
  ASSUME Inv, NEW size \in Screens, Draw(size)
  PROVE  Inv'
<1>1. /\ view' = Scrolled(current, view, size) /\ matches' = matches
      /\ current' = current /\ parked' = parked /\ query' = query /\ typed' = typed
      /\ screen' = size /\ loads' = loads /\ leftAt' = leftAt
  BY DEF Draw
<1>2. /\ view' \in Views(current) /\ view'.order = view.order
      /\ OnScreen(current, view', size)
  BY <1>1, ScrolledOnScreen DEF Inv, Shown
<1>3. Shown'
  BY <1>1, <1>2 DEF Inv, Shown
<1>4. Searched'
  BY <1>1, <1>2 DEF Inv, Searched
<1>5. Parked'
  BY <1>1 DEF Inv, Parked, SheetsRemembered
<1>6. QED
  BY <1>3, <1>4, <1>5 DEF Inv

LEMMA StepKeeps == Inv /\ [Next]_vars => Inv'
<1> SUFFICES ASSUME Inv, [Next]_vars PROVE Inv'
  OBVIOUS
<1>1. CASE \/ Left \/ Right \/ Home \/ End \/ ToTop \/ ToBottom
  <2>1. 1 \in Nat
    OBVIOUS
  <2>2. QED
    BY <1>1, <2>1, CursorKeysKeep
<1>2. CASE Up(1) \/ Down(1) \/ Up(screen.page) \/ Down(screen.page)
  <2>1. 1 \in Nat /\ screen.page \in Nat
    BY ScreensAssumption DEF Inv, Shown
  <2>2. QED
    BY <1>2, <2>1, CursorKeysKeep
<1>3. CASE FindNext \/ FindPrevious
  BY <1>3, FindKeeps
<1>4. CASE SortRows \/ RestoreOrder
  BY <1>4, SortsKeep
<1>5. CASE \/ Frequency \/ CloseFrequency \/ StartSearch \/ Erase \/ DropSearch \/ Quit
           \/ \E letter \in Letters : TypeLetter(letter)
  BY <1>5, TypingKeeps
<1>6. CASE CommitSearch
  BY <1>6, CommitKeeps
<1>7. CASE \E forward \in BOOLEAN : Cycle(forward)
  BY <1>7, CycleKeeps
<1>8. CASE \E size \in Screens : Draw(size)
  BY <1>8, DrawKeeps
<1>9. CASE UNCHANGED vars
  BY <1>9 DEF vars, Inv, Shown, Searched, Parked, SheetsRemembered
<1>10. QED
  BY <1>1, <1>2, <1>3, <1>4, <1>5, <1>6, <1>7, <1>8, <1>9 DEF Next

LEMMA InvAlways == Spec => []Inv
BY InitHolds, StepKeeps, PTL DEF Spec

-----------------------------------------------------------------------------
\* Whatever keys are pressed and however the screen changes its size between them,
\* the cursor is on the screen, on sheets and screens of any size.
THEOREM CursorStaysVisible == Spec => []CursorVisible
<1>1. Inv => CursorVisible
  BY DEF Inv, Shown, OnScreen, CursorVisible
<1>2. QED
  BY <1>1, InvAlways, PTL

\* However often the user goes round any number of sheets, each is loaded once and
\* shown again as it was left.
THEOREM SheetsAreRemembered == Spec => []SheetsRemembered
<1>1. Inv => SheetsRemembered
  BY DEF Inv, Parked
<1>2. QED
  BY <1>1, InvAlways, PTL

\* A text contains a query if one of its pieces is the query.
LEMMA PieceOfText ==
  ASSUME NEW text \in Seq(Int), NEW q \in Seq(Letters), q # <<>>
  PROVE  ContainsText(text, q)
           <=> \E a, b \in DOMAIN text : a <= b /\ SubSeq(text, a, b) = q
<1> DEFINE n == Len(text)
           m == Len(q)
<1>1. n \in Nat /\ m \in Nat /\ m >= 1 /\ DOMAIN text = 1..n /\ SubSeq(q, 1, m) = q
  OBVIOUS
<1>2. ASSUME NEW k \in 1..n
      PROVE  /\ Len(SubSeq(text, k, n)) = n - k + 1
             /\ \A j \in 1..(n - k + 1) :
                  SubSeq(SubSeq(text, k, n), 1, j) = SubSeq(text, k, k + j - 1)
  <2>1. SubSeq(text, k, n) \in Seq(Int) /\ Len(SubSeq(text, k, n)) = n - k + 1
    OBVIOUS
  <2>2. QED
    BY <2>1
<1>3. \A a, b \in DOMAIN text : a <= b => Len(SubSeq(text, a, b)) = b - a + 1
  OBVIOUS
<1> HIDE DEF n, m
<1>4. ASSUME NEW k \in 1..n, IsPrefix(q, SubSeq(text, k, n))
      PROVE  \E a, b \in DOMAIN text : a <= b /\ SubSeq(text, a, b) = q
  <2>1. m <= n - k + 1 /\ SubSeq(q, 1, m) = SubSeq(SubSeq(text, k, n), 1, m)
    BY <1>2, <1>4 DEF IsPrefix, m
  <2>2. m \in 1..(n - k + 1) /\ k + m - 1 \in 1..n /\ k <= k + m - 1
    BY <1>1, <2>1
  <2>3. SubSeq(text, k, k + m - 1) = q
    BY <1>1, <1>2, <2>1, <2>2
  <2>4. QED
    BY <1>1, <2>2, <2>3
<1>5. ASSUME NEW a \in 1..n, NEW b \in 1..n, a <= b, SubSeq(text, a, b) = q
      PROVE  IsPrefix(q, SubSeq(text, a, n))
  <2>1. m = b - a + 1
    BY <1>1, <1>3, <1>5 DEF m
  <2>2. m \in 1..(n - a + 1) /\ a + m - 1 = b
    BY <1>1, <2>1
  <2>3. SubSeq(SubSeq(text, a, n), 1, m) = q /\ m <= Len(SubSeq(text, a, n))
    <3>1. SubSeq(SubSeq(text, a, n), 1, m) = SubSeq(text, a, a + m - 1)
      BY <1>2, <2>2
    <3>2. Len(SubSeq(text, a, n)) = n - a + 1
      BY <1>2
    <3>3. m <= n - a + 1
      BY <1>1, <2>2
    <3>4. QED
      BY <1>5, <2>2, <3>1, <3>2, <3>3
  <2>4. QED
    BY <1>1, <2>3 DEF IsPrefix, m
<1>6. QED
  BY <1>1, <1>4, <1>5 DEF ContainsText, n

LEMMA InvFindsAll == Inv => SearchFindsAll
<1> SUFFICES ASSUME Inv PROVE SearchFindsAll
  OBVIOUS
<1> DEFINE Holds(text) == \E a, b \in DOMAIN text : a <= b /\ SubSeq(text, a, b) = query
           n == Len(view.order)
           m == Sheets[current].columns
           cells == {at \in (DOMAIN view.order) \X (1..m) :
                       Holds(Cell(current, view.order, at[1], at[2]).text)}
<1>1. /\ current \in DOMAIN Sheets /\ view.order \in Seq(DOMAIN Sheets[current].rows)
      /\ query \in Seq(Letters) /\ matches = Matches(current, view.order, query)
  BY DEF Inv, Shown, Searched, Views
<1>2. m \in Nat /\ n \in Nat /\ DOMAIN view.order = 1..n
  BY <1>1, SheetProperties
<1>3. \A at \in (1..n) \X (1..m) : Cell(current, view.order, at[1], at[2]).text \in Seq(Int)
  <2> SUFFICES ASSUME NEW r \in 1..n, NEW c \in 1..m
               PROVE  Cell(current, view.order, r, c).text \in Seq(Int)
    OBVIOUS
  <2>1. view.order[r] \in DOMAIN Sheets[current].rows
    BY <1>1, <1>2
  <2> DEFINE row == Sheets[current].rows[view.order[r]]
  <2>2. row \in Seq(Cells) /\ Len(row) = m
    BY <1>1, <2>1, SheetProperties, SMTT(30)
  <2> HIDE DEF row
  <2>3. row[c] \in Cells
    BY <2>2
  <2>4. QED
    BY <2>3 DEF Cell, Cells, row
<1>4. matches \in Seq(Positions) /\ InScreenOrder(matches)
  <2> DEFINE P == (1..n) \X (1..m)
  <2>1. matches \in Seq(P) /\ InScreenOrder(matches)
    BY <1>1, <1>2, MatchesAreCells
  <2>2. P \subseteq Positions
    BY DEF Positions
  <2> HIDE DEF P
  <2>3. QED
    BY <2>1, <2>2
<1>5. ToSet(matches) = cells
  <2>1. CASE query = <<>>
    <3>1. matches = <<>> /\ ToSet(<<>>) = {}
      BY <1>1, <2>1 DEF Matches, ToSet
    <3>2. \A text \in Seq(Int) : \A a, b \in DOMAIN text : a <= b => SubSeq(text, a, b) # <<>>
      <4> SUFFICES ASSUME NEW text \in Seq(Int), NEW a \in DOMAIN text, NEW b \in DOMAIN text, a <= b
                   PROVE  SubSeq(text, a, b) # <<>>
        OBVIOUS
      <4>1. Len(SubSeq(text, a, b)) = b - a + 1 /\ b - a + 1 # 0
        OBVIOUS
      <4>2. QED
        BY <4>1
    <3>3. cells = {}
      BY <1>2, <1>3, <2>1, <3>2
    <3>4. QED
      BY <3>1, <3>3
  <2>2. CASE query # <<>>
    <3>1. ToSet(matches) = Hits(current, view.order, query, n, m)
      BY <1>1, <1>2, <2>2, MatchesAreHits DEF HasFound
    <3>2. \A at \in (1..n) \X (1..m) : at[1] < n \/ (at[1] = n /\ at[2] <= m)
      <4> SUFFICES ASSUME NEW r \in 1..n, NEW c \in 1..m PROVE r < n \/ (r = n /\ c <= m)
        OBVIOUS
      <4>1. QED
        BY <1>2
    <3>3. \A at \in (1..n) \X (1..m) :
            ContainsText(Cell(current, view.order, at[1], at[2]).text, query)
              <=> Holds(Cell(current, view.order, at[1], at[2]).text)
      BY <1>1, <1>3, <2>2, PieceOfText
    <3> HIDE DEF Holds
    <3>4. QED
      BY <1>2, <3>1, <3>2, <3>3 DEF Hits
  <2>3. QED
    BY <2>1, <2>2
<1> HIDE DEF cells
<1> DEFINE after == [at \in ToSet(matches) |-> NextMatch(matches, at)]
<1>6. \A i, j \in DOMAIN matches : i < j => Earlier(matches[i], matches[j])
  BY <1>4 DEF InScreenOrder
<1>7. \A at \in ToSet(matches) : PreviousMatch(matches, after[at]) = at
  BY <1>4, BackAndForth
<1>8. ASSUME NEW S \in SUBSET ToSet(matches), S # {}, {after[at] : at \in S} \subseteq S
      PROVE  S = ToSet(matches)
  <2>1. \A at \in S : NextMatch(matches, at) \in S
    BY <1>8
  <2>2. QED
    BY <1>4, <1>8, <2>1, RoundTrip
<1>9. QED
  BY <1>5, <1>6, <1>7, <1>8 DEF SearchFindsAll, cells

\* On any sheets, in any order of the rows and for any query: the matches are all
\* the cells that contain it, and n and N go round them.
THEOREM SearchesFindAll == Spec => []SearchFindsAll
BY InvAlways, InvFindsAll, PTL
=============================================================================
