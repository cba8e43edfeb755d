--------------------------- MODULE FoldInduction ---------------------------
(* Induction over the folds of SequencesExt.  The step of a fold and what it
   keeps are constants of this module: a module that proves something of a
   fold instantiates it with both.  The first argument of each is what else
   they depend on. *)
EXTENDS SequenceLemmas, WellFoundedInduction, FiniteSetTheorems

CONSTANTS Op(_,_,_),   \* the step: context, accumulator, element
          Good(_,_)    \* what it keeps: context, accumulator

-----------------------------------------------------------------------------
(* FoldLeft, by the definition of MapThenFoldSet. *)

IsFold(c, base, seq, f) ==
  f = [s \in SUBSET (DOMAIN seq) |->
         IF s = {} THEN base ELSE Op(c, f[s \ {Top(s)}], seq[Top(s)])]

Folded(c, base, seq) == (CHOOSE f : IsFold(c, base, seq, f))[DOMAIN seq]

\* The recursive function by which a fold is defined exists.
LEMMA FoldExists ==
  ASSUME NEW c, NEW base, NEW D, NEW seq \in Seq(D)
  PROVE  \E f : IsFold(c, base, seq, f)
<1> DEFINE S == DOMAIN seq
           Small(m) == {s \in SUBSET S : Cardinality(s) <= m}
           Step(f, s) == IF s = {} THEN base ELSE Op(c, f[s \ {Top(s)}], seq[Top(s)])
           T == {m \in Nat : \E f : f = [s \in Small(m) |-> Step(f, s)]}
<1>1. S = 1..Len(seq) /\ Len(seq) \in Nat
  OBVIOUS
<1>2. IsFiniteSet(S) /\ Cardinality(S) = Len(seq)
  BY <1>1, FS_Interval
<1>3. \A s \in SUBSET S : IsFiniteSet(s) /\ Cardinality(s) \in Nat /\ Cardinality(s) <= Len(seq)
  BY <1>2, FS_Subset, FS_CardinalityType
<1>4. \A s \in SUBSET S : s # {} =>
        /\ Top(s) \in s
        /\ s \ {Top(s)} \in SUBSET S
        /\ Cardinality(s \ {Top(s)}) = Cardinality(s) - 1
  <2> SUFFICES ASSUME NEW s \in SUBSET S, s # {}
               PROVE  /\ Top(s) \in s
                      /\ s \ {Top(s)} \in SUBSET S
                      /\ Cardinality(s \ {Top(s)}) = Cardinality(s) - 1
    OBVIOUS
  <2>1. s \in SUBSET (0..Len(seq))
    BY <1>1
  <2>2. Top(s) \in s
    BY <1>1, <2>1, TopIsGreatest
  <2>3. QED
    BY <2>2, <1>3, FS_RemoveElement
<1>5. 0 \in T
  <2>1. \A s \in Small(0) : s = {}
    BY <1>3, FS_EmptySet
  <2>2. [s \in Small(0) |-> base] = [s \in Small(0) |-> Step([t \in Small(0) |-> base], s)]
    BY <2>1
  <2>3. QED
    BY <2>2
<1>6. \A m \in T : m + 1 \in T
  <2> SUFFICES ASSUME NEW m \in T PROVE m + 1 \in T
    OBVIOUS
  <2>1. m \in Nat
    OBVIOUS
  <2>2. PICK f : f = [s \in Small(m) |-> Step(f, s)]
    OBVIOUS
  <2> DEFINE g == [s \in Small(m + 1) |-> Step(f, s)]
  <2>3. \A s \in Small(m) : s \in Small(m + 1)
    BY <1>3, <2>1
  <2>4. \A s \in Small(m + 1) : s # {} => s \ {Top(s)} \in Small(m)
    BY <1>3, <1>4, <2>1, SMTT(30)
  <2> HIDE DEF Small
  <2>5. \A s \in Small(m) : g[s] = f[s]
    BY <2>2, <2>3
  <2>6. \A s \in Small(m + 1) : Step(f, s) = Step(g, s)
    BY <2>4, <2>5
  <2>7. g = [s \in Small(m + 1) |-> Step(g, s)]
    BY <2>6
  <2> HIDE DEF g, Step
  <2>8. \E h : h = [s \in Small(m + 1) |-> Step(h, s)]
    BY <2>7
  <2>9. QED
    BY <2>1, <2>8
<1>7. Len(seq) \in T
  <2>1. T \in SUBSET Nat
    OBVIOUS
  <2> HIDE DEF T
  <2>2. T = Nat
    BY <1>5, <1>6, <2>1, AllNaturals
  <2>3. QED
    BY <1>1, <2>2
<1>8. Small(Len(seq)) = SUBSET S
  BY <1>3
<1>9. QED
  BY <1>7, <1>8 DEF IsFold

\* The fold of the empty sequence is its base.
LEMMA FoldOfNothing ==
  ASSUME NEW c, NEW base
  PROVE  Folded(c, base, <<>>) = base
<1>0. <<>> \in Seq({})
  OBVIOUS
<1>1. \E f : IsFold(c, base, <<>>, f)
  BY <1>0, FoldExists
<1>2. IsFold(c, base, <<>>, CHOOSE f : IsFold(c, base, <<>>, f))
  BY <1>1
<1> DEFINE g == CHOOSE f : IsFold(c, base, <<>>, f)
<1> HIDE DEF g
<1>3. g[{}] = base
  BY <1>2 DEF IsFold, g
<1>4. QED
  BY <1>3 DEF Folded, g

\* The fold of a prefix is that of the prefix before it and one more step.
PrefixFolds(c, base, seq, f) ==
  /\ f[1..0] = base
  /\ \A k \in 0..(Len(seq) - 1) : f[1..(k + 1)] = Op(c, f[1..k], seq[k + 1])
  /\ Folded(c, base, seq) = f[1..Len(seq)]

LEMMA PrefixesFold ==
  ASSUME NEW c, NEW base, NEW D, NEW seq \in Seq(D)
  PROVE  \E f : PrefixFolds(c, base, seq, f)
<1> DEFINE n == Len(seq)
           f == CHOOSE f : IsFold(c, base, seq, f)
<1>0. IsFold(c, base, seq, f)
  BY FoldExists
<1>5. Folded(c, base, seq) = f[1..n]
  BY DEF Folded
<1> HIDE DEF f
<1>1. n \in Nat /\ DOMAIN seq = 1..n
  OBVIOUS
<1>2. f[1..0] = base
  <2>1. 1..0 = {}
    OBVIOUS
  <2>2. QED
    BY <1>0, <2>1 DEF IsFold
<1>3. ASSUME NEW k \in 0..(n - 1) PROVE f[1..(k + 1)] = Op(c, f[1..k], seq[k + 1])
  <2>1. 1..(k + 1) \in SUBSET (0..n) /\ 1..(k + 1) # {} /\ k + 1 \in 1..(k + 1)
    <3>1. k \in Nat /\ k + 1 <= n
      BY <1>1
    <3> HIDE DEF n
    <3>2. \A i \in 1..(k + 1) : i \in 0..n
      BY <1>1, <3>1
    <3>3. k + 1 \in 1..(k + 1)
      BY <3>1
    <3>4. QED
      BY <3>2, <3>3
  <2>2. Top(1..(k + 1)) = k + 1
    <3>1. /\ Top(1..(k + 1)) \in 1..(k + 1)
          /\ \A i \in 1..(k + 1) : i <= Top(1..(k + 1))
      BY <1>1, <2>1, TopIsGreatest
    <3>2. QED
      BY <2>1, <3>1
  <2>3. (1..(k + 1)) \ {k + 1} = 1..k
    OBVIOUS
  <2>4. 1..(k + 1) \in SUBSET (DOMAIN seq)
    BY <1>1
  <2>5. QED
    BY <1>0, <2>1, <2>2, <2>3, <2>4 DEF IsFold
<1>4. QED
  BY <1>2, <1>3, <1>5 DEF PrefixFolds

\* What the step keeps, the fold keeps.
LEMMA FoldKeeps ==
  ASSUME NEW c, NEW base, NEW D, NEW seq \in Seq(D),
         Good(c, base),
         \A a : \A i \in DOMAIN seq : Good(c, a) => Good(c, Op(c, a, seq[i]))
  PROVE  Good(c, Folded(c, base, seq))
<1>0. PICK f : PrefixFolds(c, base, seq, f)
  BY PrefixesFold
<1> DEFINE n == Len(seq)
           T == {k \in Nat : k <= n => Good(c, f[1..k])}
<1>1. n \in Nat /\ DOMAIN seq = 1..n
  OBVIOUS
<1>3. /\ f[1..0] = base
      /\ \A k \in 0..(n - 1) : f[1..(k + 1)] = Op(c, f[1..k], seq[k + 1])
      /\ Folded(c, base, seq) = f[1..n]
  BY <1>0 DEF PrefixFolds
<1>4. 0 \in T
  BY <1>3
<1>5. \A k \in T : k + 1 \in T
  <2> SUFFICES ASSUME NEW k \in T, k + 1 <= n
               PROVE  Good(c, f[1..(k + 1)])
    OBVIOUS
  <2>1. k \in 0..(n - 1) /\ k + 1 \in DOMAIN seq /\ Good(c, f[1..k])
    BY <1>1
  <2>2. QED
    BY <1>3, <2>1
<1>6. T = Nat
  <2>1. T \in SUBSET Nat
    OBVIOUS
  <2> HIDE DEF T
  <2>2. QED
    BY <1>4, <1>5, <2>1, AllNaturals
<1>7. Good(c, f[1..n])
  <2>1. n \in T
    BY <1>1, <1>6
  <2>2. QED
    BY <1>1, <2>1
<1>8. QED
  BY <1>3, <1>7

\* What holds of every prefix, of the longer one by a step, holds of the fold:
\* C[k] is what is to be kept when k elements are done.
LEMMA FoldGrows ==
  ASSUME NEW c, NEW base, NEW D, NEW seq \in Seq(D), NEW C,
         Good(C[0], base),
         \A a : \A k \in 0..(Len(seq) - 1) :
           Good(C[k], a) => Good(C[k + 1], Op(c, a, seq[k + 1]))
  PROVE  Good(C[Len(seq)], Folded(c, base, seq))
<1>0. PICK f : PrefixFolds(c, base, seq, f)
  BY PrefixesFold
<1> DEFINE n == Len(seq)
           T == {k \in Nat : k <= n => Good(C[k], f[1..k])}
<1>1. n \in Nat
  OBVIOUS
<1>2. /\ f[1..0] = base
      /\ \A k \in 0..(n - 1) : f[1..(k + 1)] = Op(c, f[1..k], seq[k + 1])
      /\ Folded(c, base, seq) = f[1..n]
  BY <1>0 DEF PrefixFolds
<1>3. 0 \in T
  BY <1>2
<1>4. \A k \in T : k + 1 \in T
  <2> SUFFICES ASSUME NEW k \in T, k + 1 <= n
               PROVE  Good(C[k + 1], f[1..(k + 1)])
    OBVIOUS
  <2>1. k \in 0..(n - 1) /\ Good(C[k], f[1..k])
    BY <1>1
  <2>2. QED
    BY <1>2, <2>1
<1>5. T = Nat
  <2>1. T \in SUBSET Nat
    OBVIOUS
  <2> HIDE DEF T
  <2>2. QED
    BY <1>3, <1>4, <2>1, AllNaturals
<1>6. Good(C[n], f[1..n])
  <2>1. n \in T
    BY <1>1, <1>5
  <2>2. QED
    BY <1>1, <2>1
<1>7. QED
  BY <1>2, <1>6

\* One element more is one step more.
LEMMA FoldOfAppend ==
  ASSUME NEW c, NEW base, NEW D, NEW seq \in Seq(D), NEW e \in D
  PROVE  Folded(c, base, Append(seq, e)) = Op(c, Folded(c, base, seq), e)
<1> DEFINE n == Len(seq)
           longer == Append(seq, e)
<1>1. /\ n \in Nat /\ longer \in Seq(D)
      /\ Len(longer) = n + 1 /\ (n + 1) - 1 = n /\ longer[n + 1] = e
      /\ \A i \in 1..n : longer[i] = seq[i]
  OBVIOUS
<1> HIDE DEF longer
<1>2. PICK f : PrefixFolds(c, base, seq, f)
  BY PrefixesFold
<1>3. PICK g : PrefixFolds(c, base, longer, g)
  BY <1>1, PrefixesFold
<1>4. /\ f[1..0] = base
      /\ \A k \in 0..(n - 1) : f[1..(k + 1)] = Op(c, f[1..k], seq[k + 1])
      /\ Folded(c, base, seq) = f[1..n]
  BY <1>2 DEF PrefixFolds
<1>9. /\ g[1..0] = base
      /\ \A k \in 0..n : g[1..(k + 1)] = Op(c, g[1..k], longer[k + 1])
      /\ Folded(c, base, longer) = g[1..(n + 1)]
  BY <1>1, <1>3 DEF PrefixFolds
<1> DEFINE T == {k \in Nat : k <= n => f[1..k] = g[1..k]}
<1> HIDE DEF n
<1>5. \A k \in T : k + 1 \in T
  <2> SUFFICES ASSUME NEW k \in T, k + 1 <= n
               PROVE  f[1..(k + 1)] = g[1..(k + 1)]
    OBVIOUS
  <2>1. k \in 0..(n - 1) /\ k \in 0..n /\ k + 1 \in 1..n /\ f[1..k] = g[1..k]
    BY <1>1
  <2>2. QED
    BY <1>1, <1>4, <1>9, <2>1
<1>6. 0 \in T
  BY <1>4, <1>9
<1>7. T = Nat
  <2>1. T \in SUBSET Nat
    OBVIOUS
  <2> HIDE DEF T
  <2>2. QED
    BY <1>5, <1>6, <2>1, AllNaturals
<1>8. f[1..n] = g[1..n]
  <2>1. n \in T /\ n <= n
    BY <1>1, <1>7
  <2>2. QED
    BY <2>1
<1>10. g[1..(n + 1)] = Op(c, g[1..n], longer[n + 1])
  BY <1>1, <1>9
<1>11. QED
  BY <1>1, <1>4, <1>8, <1>9, <1>10 DEF longer
=============================================================================
