--------------------------- MODULE SequenceLemmas ---------------------------
(* Facts about numbers, sequences and the operators of SequencesExt that the
   proofs of several components need. *)
EXTENDS SequencesExt, SequenceTheorems, WellFoundedInduction, FiniteSetTheorems, TLAPS

-----------------------------------------------------------------------------
(* Induction on the naturals, for sets of them in place of predicates. *)

\* Every non-empty set of naturals has a least one.
LEMMA LeastNatural ==
  ASSUME NEW T \in SUBSET Nat, T # {}
  PROVE  \E n \in T : \A m \in T : n <= m
<1>1. IsWellFoundedOn(OpToRel(<, Nat), Nat)
  BY NatLessThanWellFounded
<1>2. PICK n \in T : \A m \in T : ~(<<m, n>> \in OpToRel(<, Nat))
  BY <1>1, WFMin, Zenon
<1>3. \A m \in T : ~(m < n)
  BY <1>2 DEF OpToRel
<1>4. QED
  BY <1>3

\* A set that holds 0 and with a number the next holds them all.
LEMMA AllNaturals ==
  ASSUME NEW T \in SUBSET Nat, 0 \in T, \A n \in T : n + 1 \in T
  PROVE  T = Nat
<1> SUFFICES ASSUME T # Nat PROVE FALSE
  OBVIOUS
<1>1. PICK n \in Nat \ T : \A m \in Nat \ T : n <= m
  BY LeastNatural
<1>2. n - 1 \in Nat /\ n - 1 \notin Nat \ T
  BY <1>1
<1>3. QED
  BY <1>1, <1>2

\* A set of naturals that is bounded has a greatest element, the one that
\* Max of FiniteSetsExt chooses.
Top(s) == CHOOSE x \in s : \A y \in s : x >= y

\* The top of a bounded set is its greatest number.
LEMMA TopIsGreatest ==
  ASSUME NEW n \in Nat, NEW s \in SUBSET (0..n), s # {}
  PROVE  Top(s) \in s /\ \A i \in s : i <= Top(s)
<1> DEFINE above == {k \in Nat : \A i \in s : i <= k}
<1>1. n \in above
  OBVIOUS
<1>2. PICK k \in above : \A m \in above : k <= m
  <2>1. above \in SUBSET Nat /\ above # {}
    BY <1>1
  <2> HIDE DEF above
  <2>2. QED
    BY <2>1, LeastNatural
<1>3. k \in s
  <2> SUFFICES ASSUME k \notin s PROVE FALSE
    OBVIOUS
  <2>1. \A i \in s : i <= k - 1 /\ i \in Nat
    BY <1>2
  <2>2. k \in Nat /\ k - 1 \in Nat
    <3>1. PICK i \in s : TRUE
      OBVIOUS
    <3>2. i <= k - 1 /\ i \in Nat
      BY <2>1
    <3> HIDE DEF above
    <3>3. k \in Nat
      BY DEF above
    <3>4. QED
      BY <3>2, <3>3
  <2>3. k - 1 \in above
    BY <2>1, <2>2
  <2>4. QED
    BY <1>2, <2>2, <2>3
<1>4. \E x \in s : \A y \in s : x >= y
  BY <1>2, <1>3
<1>5. QED
  BY <1>4 DEF Top

-----------------------------------------------------------------------------
(* Bounded sets, and sequences with an element more or less. *)

Bounded(S) == \E n \in Nat : S \subseteq 0..n

\* What the code takes for the next number is the maximum of 0 and those in use.
LEMMA MaxIsAbove ==
  ASSUME NEW S, Bounded(S)
  PROVE  /\ Max({0} \cup S) \in Nat
         /\ \A k \in S : k \in Nat /\ k <= Max({0} \cup S)
<1>1. PICK n \in Nat : S \subseteq 0..n
  BY DEF Bounded
<1>2. {0} \cup S \in SUBSET (0..n) /\ {0} \cup S # {}
  BY <1>1
<1>3. Max({0} \cup S) = Top({0} \cup S)
  BY DEF Max, Top
<1>4. /\ Top({0} \cup S) \in {0} \cup S
      /\ \A i \in {0} \cup S : i <= Top({0} \cup S)
  BY <1>2, TopIsGreatest
<1>5. \A k \in {0} \cup S : k \in Nat
  BY <1>1
<1>6. QED
  BY <1>3, <1>4, <1>5, Zenon

\* Two bounded sets are bounded together.
LEMMA BoundedUnion ==
  ASSUME NEW S, NEW T, Bounded(S), Bounded(T)
  PROVE  Bounded(S \cup T)
<1>1. PICK m \in Nat : S \subseteq 0..m
  BY DEF Bounded
<1>2. PICK n \in Nat : T \subseteq 0..n
  BY DEF Bounded
<1>3. S \cup T \subseteq 0..(m + n) /\ m + n \in Nat
  BY <1>1, <1>2
<1>4. QED
  BY <1>3 DEF Bounded

\* A sequence with an element put in.
LEMMA InsertAtProperties ==
  ASSUME NEW D, NEW s \in Seq(D), NEW e \in D, NEW i \in 1..(Len(s) + 1)
  PROVE  /\ InsertAt(s, i, e) \in Seq(D)
         /\ Len(InsertAt(s, i, e)) = Len(s) + 1
         /\ \A j \in 1..(Len(s) + 1) :
              InsertAt(s, i, e)[j] =
                IF j < i THEN s[j] ELSE IF j = i THEN e ELSE s[j - 1]
<1> DEFINE front == SubSeq(s, 1, i - 1)
           back  == SubSeq(s, i, Len(s))
           fe    == front \o <<e>>
<1>1. /\ front \in Seq(D) /\ Len(front) = i - 1
      /\ \A j \in 1..(i - 1) : front[j] = s[j]
  BY SubSeqProperties
<1>2. /\ back \in Seq(D) /\ Len(back) = Len(s) + 1 - i
      /\ \A j \in 1..(Len(s) + 1 - i) : back[j] = s[i + j - 1]
  BY SubSeqProperties
<1> HIDE DEF front, back
<1>3. /\ fe \in Seq(D) /\ Len(fe) = i
      /\ \A j \in 1..i : fe[j] = IF j < i THEN s[j] ELSE e
  BY <1>1
<1> HIDE DEF fe
<1>4. InsertAt(s, i, e) = fe \o back
  BY DEF InsertAt, fe, front, back
<1>5. /\ fe \o back \in Seq(D)
      /\ Len(fe \o back) = Len(fe) + Len(back)
      /\ \A j \in 1..(Len(fe) + Len(back)) :
           (fe \o back)[j] = IF j <= Len(fe) THEN fe[j] ELSE back[j - Len(fe)]
  BY <1>2, <1>3, ConcatProperties, Zenon
<1>6. Len(s) \in Nat /\ i \in Int
  OBVIOUS
<1>7. ASSUME NEW j \in 1..(Len(s) + 1)
      PROVE  (fe \o back)[j] = IF j < i THEN s[j] ELSE IF j = i THEN e ELSE s[j - 1]
  <2>1. CASE j <= i
    BY <1>2, <1>3, <1>5, <1>6, <2>1
  <2>2. CASE j > i
    <3>1. j - i \in 1..(Len(s) + 1 - i) /\ i + (j - i) - 1 = j - 1
      BY <1>6, <2>2
    <3>2. back[j - i] = s[j - 1]
      BY <1>2, <3>1
    <3>3. QED
      BY <1>2, <1>3, <1>5, <1>6, <2>2, <3>2
  <2>3. j <= i \/ j > i
    BY <1>6
  <2>4. QED
    BY <2>1, <2>2, <2>3, Zenon
<1>8. QED
  BY <1>2, <1>3, <1>4, <1>5, <1>6, <1>7

\* A sequence without one of its elements.
LEMMA RemoveAtProperties ==
  ASSUME NEW D, NEW s \in Seq(D), NEW i \in 1..Len(s)
  PROVE  /\ RemoveAt(s, i) \in Seq(D)
         /\ Len(RemoveAt(s, i)) = Len(s) - 1
         /\ \A j \in 1..(Len(s) - 1) :
              RemoveAt(s, i)[j] = IF j < i THEN s[j] ELSE s[j + 1]
<1> DEFINE front == SubSeq(s, 1, i - 1)
           back  == SubSeq(s, i + 1, Len(s))
<1>1. /\ front \in Seq(D) /\ Len(front) = i - 1
      /\ \A j \in 1..(i - 1) : front[j] = s[j]
  BY SubSeqProperties
<1>2. /\ back \in Seq(D) /\ Len(back) = Len(s) - i
      /\ \A j \in 1..(Len(s) - i) : back[j] = s[i + j]
  BY SubSeqProperties
<1> HIDE DEF front, back
<1>3. RemoveAt(s, i) = front \o back
  BY DEF RemoveAt, front, back
<1>4. /\ front \o back \in Seq(D)
      /\ Len(front \o back) = Len(front) + Len(back)
      /\ \A j \in 1..(Len(front) + Len(back)) :
           (front \o back)[j] = IF j <= Len(front) THEN front[j] ELSE back[j - Len(front)]
  BY <1>1, <1>2, ConcatProperties, Zenon
<1>5. Len(s) \in Nat /\ i \in Int
  OBVIOUS
<1>6. ASSUME NEW j \in 1..(Len(s) - 1)
      PROVE  (front \o back)[j] = IF j < i THEN s[j] ELSE s[j + 1]
  <2>1. CASE j < i
    BY <1>1, <1>2, <1>4, <1>5, <2>1
  <2>2. CASE j >= i
    <3>1. j - (i - 1) \in 1..(Len(s) - i) /\ i + (j - (i - 1)) = j + 1
      BY <1>5, <2>2
    <3>2. back[j - (i - 1)] = s[j + 1]
      BY <1>2, <3>1
    <3>3. QED
      BY <1>1, <1>2, <1>4, <1>5, <2>2, <3>2
  <2>3. j < i \/ j >= i
    BY <1>5
  <2>4. QED
    BY <2>1, <2>2, <2>3, Zenon
<1>7. QED
  BY <1>1, <1>2, <1>3, <1>4, <1>5, <1>6

-----------------------------------------------------------------------------
(* Sequences of numbers, and numbers in increasing order. *)

\* A function on 1..n is a sequence.
LEMMA FunctionIsSeq ==
  ASSUME NEW D, NEW n \in Nat, NEW f \in [1..n -> D]
  PROVE  f \in Seq(D) /\ Len(f) = n
OBVIOUS

\* Sequences with the same elements are the same.
LEMMA SameSequence ==
  ASSUME NEW D, NEW a \in Seq(D), NEW b \in Seq(D), Len(a) = Len(b),
         \A i \in 1..Len(a) : a[i] = b[i]
  PROVE  a = b
BY SeqEqual

\* The numbers of a sequence have a bound.
LEMMA SequencesAreBounded ==
  ASSUME NEW s \in Seq(Nat)
  PROVE  \E n \in Nat : \A i \in DOMAIN s : s[i] <= n
<1> DEFINE T == {k \in Nat : k <= Len(s) => \E n \in Nat : \A i \in 1..k : s[i] <= n}
<1>1. Len(s) \in Nat /\ DOMAIN s = 1..Len(s)
  OBVIOUS
<1>2. 0 \in T
  OBVIOUS
<1>3. ASSUME NEW k \in T PROVE k + 1 \in T
  <2> SUFFICES ASSUME k + 1 <= Len(s)
               PROVE  \E n \in Nat : \A i \in 1..(k + 1) : s[i] <= n
    BY SMTT(30)
  <2>1. k \in Nat /\ k <= Len(s) /\ s[k + 1] \in Nat
    BY <1>1
  <2>2. PICK n \in Nat : \A i \in 1..k : s[i] <= n
    BY <2>1
  <2>3. /\ n + s[k + 1] \in Nat
        /\ \A i \in 1..(k + 1) : s[i] \in Nat /\ (i \in 1..k \/ i = k + 1)
    BY <1>1, <2>1
  <2>4. \A i \in 1..(k + 1) : s[i] <= n + s[k + 1]
    BY <2>1, <2>2, <2>3
  <2>5. QED
    BY <2>3, <2>4
<1>4. T = Nat
  <2>1. T \in SUBSET Nat
    OBVIOUS
  <2> HIDE DEF T
  <2>2. QED
    BY <1>2, <1>3, <2>1, AllNaturals
<1>5. Len(s) \in T
  BY <1>1, <1>4
<1>6. QED
  BY <1>1, <1>5

\* So have those of a finite set.
LEMMA FiniteSetsAreBounded ==
  ASSUME NEW S \in SUBSET Nat, IsFiniteSet(S)
  PROVE  Bounded(S)
<1>1. PICK s \in Seq(S) : \A x \in S : \E i \in 1..Len(s) : s[i] = x
  BY DEF IsFiniteSet
<1>2. Len(s) \in Nat /\ DOMAIN s = 1..Len(s) /\ \A i \in 1..Len(s) : s[i] \in Nat
  <2>1. Len(s) \in Nat /\ DOMAIN s = 1..Len(s)
    OBVIOUS
  <2>2. \A i \in 1..Len(s) : s[i] \in S
    BY ElementOfSeq
  <2>3. QED
    BY <2>1, <2>2
<1> DEFINE r == [i \in 1..Len(s) |-> s[i]]
<1>6. r \in [1..Len(s) -> Nat]
  BY <1>2
<1>7. r \in Seq(Nat) /\ DOMAIN r = 1..Len(s)
  BY <1>2, <1>6, FunctionIsSeq
<1>3. PICK n \in Nat : \A i \in DOMAIN r : r[i] <= n
  BY <1>7, SequencesAreBounded
<1>4. ASSUME NEW x \in S PROVE x \in 0..n
  <2>1. PICK i \in 1..Len(s) : s[i] = x
    BY <1>1
  <2>2. r[i] = x /\ r[i] <= n
    BY <1>3, <1>7, <2>1
  <2>3. QED
    BY <2>2
<1>5. QED
  BY <1>4 DEF Bounded

\* pos lists the members of S, m of them, in increasing order.
Enumerates(pos, m, S) ==
  /\ m \in Nat /\ S \subseteq Nat /\ pos \in [1..m -> S]
  /\ \A j, k \in 1..m : j < k => pos[j] < pos[k]
  /\ \A i \in S : \E j \in 1..m : pos[j] = i

\* Two enumerations of a set agree as far as both go.
LEMMA EnumerationsStartAlike ==
  ASSUME NEW S, NEW p, NEW m, Enumerates(p, m, S), NEW q, NEW n, Enumerates(q, n, S)
  PROVE  \A i \in 1..m : i \in 1..n => p[i] = q[i]
<1> DEFINE T == {k \in Nat : \A i \in 1..k : i \in 1..m /\ i \in 1..n => p[i] = q[i]}
<1>1. /\ m \in Nat /\ n \in Nat /\ S \subseteq Nat
      /\ \A i \in 1..m : p[i] \in S /\ p[i] \in Nat
      /\ \A i \in 1..n : q[i] \in S /\ q[i] \in Nat
      /\ \A j, k \in 1..m : j < k => p[j] < p[k]
      /\ \A j, k \in 1..n : j < k => q[j] < q[k]
      /\ \A i \in S : \E j \in 1..m : p[j] = i
      /\ \A i \in S : \E j \in 1..n : q[j] = i
  BY DEF Enumerates
<1>2. \A k \in T : k + 1 \in T
  <2> SUFFICES ASSUME NEW k \in Nat, k + 1 \in 1..m, k + 1 \in 1..n,
                      \A i \in 1..k : i \in 1..m /\ i \in 1..n => p[i] = q[i]
               PROVE  p[k + 1] = q[k + 1]
    OBVIOUS
  <2>1. PICK j \in 1..m : p[j] = q[k + 1]
    BY <1>1
  <2>2. PICK l \in 1..n : q[l] = p[k + 1]
    BY <1>1
  <2>3. ~(j < k + 1)
    <3> SUFFICES ASSUME j < k + 1 PROVE FALSE
      OBVIOUS
    <3>1. j \in 1..k /\ j \in 1..n
      BY <1>1
    <3>2. q[j] < q[k + 1] /\ p[j] = q[j]
      BY <1>1, <3>1
    <3>3. QED
      BY <1>1, <2>1, <3>1, <3>2
  <2>4. ~(l < k + 1)
    <3> SUFFICES ASSUME l < k + 1 PROVE FALSE
      OBVIOUS
    <3>1. l \in 1..k /\ l \in 1..m
      BY <1>1
    <3>2. p[l] < p[k + 1] /\ p[l] = q[l]
      BY <1>1, <3>1
    <3>3. QED
      BY <1>1, <2>2, <3>1, <3>2
  <2>5. p[k + 1] <= p[j]
    BY <1>1, <2>3
  <2>6. q[k + 1] <= q[l]
    BY <1>1, <2>4
  <2>7. QED
    BY <1>1, <2>1, <2>2, <2>5, <2>6
<1>3. 0 \in T
  OBVIOUS
<1>4. T = Nat
  <2>1. T \in SUBSET Nat
    OBVIOUS
  <2> HIDE DEF T
  <2>2. QED
    BY <1>2, <1>3, <2>1, AllNaturals
<1>5. m \in T
  BY <1>1, <1>4
<1>6. QED
  BY <1>1, <1>5

\* And neither goes further than the other.
LEMMA EnumerationsAreAsLong ==
  ASSUME NEW S, NEW p, NEW m, Enumerates(p, m, S), NEW q, NEW n, Enumerates(q, n, S)
  PROVE  n <= m
<1> SUFFICES ASSUME ~(n <= m) PROVE FALSE
  OBVIOUS
<1>1. /\ m \in Nat /\ n \in Nat /\ m + 1 \in 1..n
      /\ \A i \in 1..m : i \in 1..n
  BY DEF Enumerates
<1>2. q[m + 1] \in S
  BY <1>1 DEF Enumerates
<1>3. PICK j \in 1..m : p[j] = q[m + 1]
  BY <1>2 DEF Enumerates
<1>4. p[j] = q[j] /\ j < m + 1
  BY <1>1, EnumerationsStartAlike
<1>5. q[j] < q[m + 1] /\ q[m + 1] \in Nat
  BY <1>1, <1>2, <1>4 DEF Enumerates
<1>6. QED
  BY <1>3, <1>4, <1>5

\* There is one such listing.
LEMMA EnumerationsAgree ==
  ASSUME NEW S, NEW p, NEW m, Enumerates(p, m, S), NEW q, NEW n, Enumerates(q, n, S)
  PROVE  m = n /\ p = q
<1>1. m \in Nat /\ n \in Nat /\ p \in [1..m -> S] /\ q \in [1..n -> S]
  BY DEF Enumerates
<1>2. m <= n /\ n <= m
  BY EnumerationsAreAsLong
<1>3. m = n
  BY <1>1, <1>2
<1>4. \A i \in 1..m : p[i] = q[i]
  BY <1>3, EnumerationsStartAlike
<1>5. QED
  BY <1>1, <1>3, <1>4

\* The enumeration of a set that has every number up to one starts with them.
LEMMA EnumerationStartsFull ==
  ASSUME NEW S, NEW pos, NEW m, Enumerates(pos, m, S), 0 \notin S, NEW k \in Nat, 1..k \subseteq S
  PROVE  \A i \in 1..k : i \in 1..m /\ pos[i] = i
<1> DEFINE T == {n \in Nat : \A i \in 1..n : i <= k => i \in 1..m /\ pos[i] = i}
<1>1. /\ m \in Nat /\ S \subseteq Nat /\ pos \in [1..m -> S]
      /\ \A i, j \in 1..m : i < j => pos[i] < pos[j]
      /\ \A i \in S : \E j \in 1..m : pos[j] = i
  BY DEF Enumerates
<1>2. 0 \in T
  OBVIOUS
<1>3. ASSUME NEW n \in T PROVE n + 1 \in T
  <2>1. n \in Nat /\ \A i \in 1..n : i <= k => i \in 1..m /\ pos[i] = i
    OBVIOUS
  <2>2. ASSUME n + 1 <= k PROVE n + 1 \in 1..m /\ pos[n + 1] = n + 1
    <3>1. n + 1 \in S
      BY <2>1, <2>2
    <3>2. PICK j \in 1..m : pos[j] = n + 1
      BY <1>1, <3>1
    <3>3. j > n
      <4>1. j \in Nat /\ j >= 1 /\ n \in Nat
        BY <1>1, <2>1
      <4>2. ASSUME j <= n PROVE FALSE
        <5>1. j \in 1..n /\ j <= k
          BY <2>2, <4>1, <4>2
        <5>2. pos[j] = j
          BY <2>1, <5>1
        <5>3. QED
          BY <3>2, <4>1, <4>2, <5>2
      <4>3. QED
        BY <4>1, <4>2
    <3>4. ASSUME j > n + 1 PROVE FALSE
      <4> DEFINE p == pos[n + 1]
      <4>1. n + 1 \in 1..m /\ p < n + 1 /\ p \in S
        BY <1>1, <2>1, <3>2, <3>4
      <4>2. p \in 1..n
        <5>1. p \in Nat /\ p # 0 /\ n \in Nat
          BY <1>1, <4>1
        <5> HIDE DEF p
        <5>2. QED
          BY <4>1, <5>1
      <4>3. p \in 1..m /\ pos[p] = p
        BY <2>1, <2>2, <4>2
      <4>4. pos[p] < pos[n + 1]
        BY <1>1, <4>1, <4>2, <4>3
      <4>5. QED
        BY <1>1, <4>1, <4>3, <4>4
    <3>5. j = n + 1
      <4>1. j \in Nat /\ n \in Nat /\ ~(j > n + 1)
        BY <1>1, <3>4
      <4>2. QED
        BY <3>3, <4>1
    <3>6. QED
      BY <3>2, <3>5
  <2>3. QED
    BY <2>1, <2>2
<1>4. T = Nat
  <2> HIDE DEF T
  <2>1. T \in SUBSET Nat
    BY DEF T
  <2>2. QED
    BY <1>2, <1>3, <2>1, AllNaturals
<1>5. k \in T
  BY <1>4
<1>6. QED
  BY <1>5

\* The listing of a set into which one number more is put, the larger ones
\* moving up by one.
Pushed(pos, m, place, new) ==
  [j \in 1..(m + 1) |-> IF j <= place THEN pos[j]
                        ELSE IF j = place + 1 THEN new ELSE pos[j - 1] + 1]

\* The set with one number more, and those above it moved up.
LEMMA EnumerationWithOneMore ==
  ASSUME NEW S, NEW pos, NEW m, Enumerates(pos, m, S),
         NEW at \in Nat, NEW place \in 0..m,
         \A j \in 1..m : (j <= place => pos[j] <= at) /\ (j > place => pos[j] > at),
         NEW R \in SUBSET Nat, at + 1 \in R,
         \A i \in Nat : i <= at => (i \in R <=> i \in S),
         \A i \in Nat : i > at => (i + 1 \in R <=> i \in S)
  PROVE  Enumerates(Pushed(pos, m, place, at + 1), m + 1, R)
<1> DEFINE q == Pushed(pos, m, place, at + 1)
<1>1. /\ m \in Nat /\ place \in Nat /\ place <= m
      /\ \A j \in 1..m : pos[j] \in S /\ pos[j] \in Nat
      /\ \A j, k \in 1..m : j < k => pos[j] < pos[k]
      /\ \A i \in S : \E j \in 1..m : pos[j] = i
  <2>1. m \in Nat /\ S \subseteq Nat /\ pos \in [1..m -> S]
    BY DEF Enumerates
  <2>2. place \in Nat /\ place <= m
    BY <2>1
  <2>3. \A j \in 1..m : pos[j] \in S
    BY <2>1
  <2>4. QED
    BY <2>1, <2>2, <2>3 DEF Enumerates
<1>2. ASSUME NEW j \in 1..(m + 1)
      PROVE  \/ j <= place /\ j \in 1..m /\ q[j] = pos[j] /\ pos[j] <= at
             \/ j = place + 1 /\ q[j] = at + 1
             \/ j > place + 1 /\ j - 1 \in 1..m /\ q[j] = pos[j - 1] + 1 /\ pos[j - 1] > at
  <2>1. CASE j <= place
    BY <1>1, <2>1 DEF Pushed
  <2>2. CASE j = place + 1
    BY <1>1, <2>2 DEF Pushed
  <2>3. CASE j > place + 1
    <3>1. j - 1 \in 1..m /\ j - 1 > place /\ ~(j <= place) /\ j # place + 1
      BY <1>1, <2>3
    <3>2. q[j] = pos[j - 1] + 1
      BY <3>1 DEF Pushed
    <3>3. QED
      BY <2>3, <3>1, <3>2
  <2>4. QED
    BY <1>1, <2>1, <2>2, <2>3
<1>3. q = [j \in 1..(m + 1) |-> q[j]]
  BY DEF Pushed
<1> HIDE DEF q
<1>4. ASSUME NEW j \in 1..(m + 1) PROVE q[j] \in R
  <2>1. CASE j <= place /\ j \in 1..m /\ q[j] = pos[j] /\ pos[j] <= at
    BY <1>1, <2>1
  <2>2. CASE j = place + 1 /\ q[j] = at + 1
    BY <2>2
  <2>3. CASE j > place + 1 /\ j - 1 \in 1..m /\ q[j] = pos[j - 1] + 1 /\ pos[j - 1] > at
    <3>1. pos[j - 1] \in Nat /\ pos[j - 1] \in S
      BY <1>1, <2>3
    <3>2. QED
      BY <2>3, <3>1
  <2>4. QED
    BY <1>2, <2>1, <2>2, <2>3
<1>5. ASSUME NEW j \in 1..(m + 1), NEW k \in 1..(m + 1), j < k PROVE q[j] < q[k]
  <2>1. CASE k <= place
    <3>1. j \in 1..m /\ k \in 1..m /\ q[j] = pos[j] /\ q[k] = pos[k]
      BY <1>1, <1>2, <1>5, <2>1
    <3>2. QED
      BY <1>1, <1>5, <3>1
  <2>2. CASE j <= place /\ k > place
    <3>1. q[j] <= at
      BY <1>1, <1>2, <2>2
    <3>2. q[k] > at
      BY <1>1, <1>2, <2>2
    <3>3. q[j] \in Nat /\ q[k] \in Nat
      BY <1>4
    <3>4. QED
      BY <3>1, <3>2, <3>3
  <2>3. CASE j = place + 1
    <3>1. k > place + 1 /\ q[j] = at + 1
      BY <1>1, <1>2, <1>5, <2>3
    <3>2. k - 1 \in 1..m /\ q[k] = pos[k - 1] + 1 /\ pos[k - 1] > at
      BY <1>1, <1>2, <3>1
    <3>3. pos[k - 1] \in Nat
      BY <1>1, <3>2
    <3>4. QED
      BY <3>1, <3>2, <3>3
  <2>4. CASE j > place + 1
    <3>1. j - 1 \in 1..m /\ q[j] = pos[j - 1] + 1
      BY <1>1, <1>2, <2>4
    <3>2. k - 1 \in 1..m /\ q[k] = pos[k - 1] + 1
      BY <1>1, <1>2, <1>5, <2>4
    <3>3. j - 1 < k - 1
      BY <1>5
    <3>4. pos[j - 1] < pos[k - 1] /\ pos[j - 1] \in Nat /\ pos[k - 1] \in Nat
      BY <1>1, <3>1, <3>2, <3>3
    <3>5. QED
      BY <3>1, <3>2, <3>4
  <2>5. QED
    BY <1>1, <2>1, <2>2, <2>3, <2>4
<1>6. ASSUME NEW i \in R PROVE \E j \in 1..(m + 1) : q[j] = i
  <2>1. CASE i <= at
    <3>1. PICK j \in 1..m : pos[j] = i
      BY <1>1, <2>1
    <3>2. j <= place /\ j \in 1..(m + 1)
      BY <1>1, <2>1, <3>1
    <3>3. QED
      BY <1>1, <1>2, <3>1, <3>2
  <2>2. CASE i = at + 1
    <3>1. place + 1 \in 1..(m + 1)
      BY <1>1
    <3>2. q[place + 1] = at + 1
      BY <1>1, <1>2, <3>1
    <3>3. QED
      BY <2>2, <3>1, <3>2
  <2>3. CASE i > at + 1
    <3>1. i - 1 \in Nat /\ i - 1 > at /\ (i - 1) + 1 = i
      BY <2>3
    <3>2. i - 1 \in S
      BY <3>1
    <3>3. PICK j \in 1..m : pos[j] = i - 1
      BY <1>1, <3>2
    <3>4. j > place
      BY <1>1, <3>1, <3>3
    <3>5. j + 1 \in 1..(m + 1) /\ j + 1 > place + 1 /\ (j + 1) - 1 = j
      BY <1>1, <3>4
    <3>6. q[j + 1] = pos[j] + 1
      <4>1. ~(j + 1 <= place) /\ j + 1 # place + 1
        BY <1>1, <3>4
      <4>2. q[j + 1] = pos[(j + 1) - 1] + 1
        BY <1>2, <3>5, <4>1
      <4>3. QED
        BY <3>5, <4>2
    <3>7. QED
      BY <3>1, <3>3, <3>5, <3>6
  <2>4. QED
    BY <2>1, <2>2, <2>3
<1>7. q \in [1..(m + 1) -> R]
  BY <1>3, <1>4
<1>8. QED
  BY <1>1, <1>5, <1>6, <1>7 DEF Enumerates, q

\* The least of some naturals, as Min of FiniteSetsExt chooses it.
LEMMA MinIsLeast ==
  ASSUME NEW S \in SUBSET Nat, S # {}
  PROVE  Min(S) \in S /\ \A k \in S : Min(S) <= k
<1>1. \E n \in S : \A m \in S : n <= m
  BY LeastNatural
<1>2. QED
  BY <1>1 DEF Min

\* Max of a bounded set, when it is not empty.
LEMMA MaxIsGreatest ==
  ASSUME NEW S, Bounded(S), S # {}
  PROVE  /\ Max(S) \in Nat /\ Max(S) \in S
         /\ \A k \in S : k \in Nat /\ k <= Max(S)
<1>1. PICK n \in Nat : S \subseteq 0..n
  BY DEF Bounded
<1>2. S \in SUBSET (0..n)
  BY <1>1
<1>3. Max(S) = Top(S)
  BY DEF Max, Top
<1>4. Top(S) \in S /\ \A i \in S : i <= Top(S)
  BY <1>2, TopIsGreatest
<1>5. \A k \in S : k \in Nat
  BY <1>1
<1>6. QED
  BY <1>3, <1>4, <1>5, Zenon

\* What a sequence holds is bounded.
LEMMA ValuesAreBounded ==
  ASSUME NEW n \in Nat, NEW f \in [1..n -> Nat], NEW S, \A x \in S : \E i \in 1..n : x = f[i]
  PROVE  Bounded(S)
<1>1. f \in Seq(Nat) /\ DOMAIN f = 1..n
  BY FunctionIsSeq
<1>2. PICK m \in Nat : \A i \in 1..n : f[i] <= m
  BY <1>1, SequencesAreBounded
<1>3. \A x \in S : x \in 0..m
  <2> TAKE x \in S
  <2>1. PICK i \in 1..n : x = f[i]
    OBVIOUS
  <2>2. f[i] \in Nat /\ f[i] <= m
    BY <1>2
  <2>3. QED
    BY <2>1, <2>2
<1>4. QED
  BY <1>3 DEF Bounded

=============================================================================
