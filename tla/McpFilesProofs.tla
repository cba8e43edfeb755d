--------------------------- MODULE McpFilesProofs ---------------------------
(* Proofs about McpFiles, for every set of servers, contents and limits. *)
EXTENDS McpFiles, SequenceLemmas

-----------------------------------------------------------------------------
(* Trim. *)

\* What is left of an undo stack without its oldest snapshots, or its newest.
LEMMA DropProperties ==
  ASSUME NEW u \in Seq(Content), NEW n \in 0..Len(u)
  PROVE  /\ Drop(u, n) \in Seq(Content)
         /\ Len(Drop(u, n)) = Len(u) - n
         /\ \A i \in 1..(Len(u) - n) : Drop(u, n)[i] = u[n + i]
BY DEF Drop

LEMMA PopProperties ==
  ASSUME NEW u \in Seq(Content), u # <<>>
  PROVE  /\ Pop(u) \in Seq(Content)
         /\ Len(Pop(u)) = Len(u) - 1
         /\ \A i \in 1..(Len(u) - 1) : Pop(u)[i] = u[i]
<1>1. Len(u) \in Nat /\ Len(u) >= 1
  BY EmptySeq
<1> DEFINE n == Len(u) - 1
<1>2. /\ n \in Int
      /\ 0 <= n
      /\ \A i \in 1..n : u[i] \in Content
  <2>1. n \in Int
    BY <1>1
  <2>2. 0 <= n
    BY <1>1
  <2>3. \A i \in 1..n : i \in 1..Len(u)
    BY <1>1
  <2>4. QED
    BY <2>1, <2>2, <2>3, ElementOfSeq
<1> HIDE DEF n
<1>3. /\ SubSeq(u, 1, n) \in Seq(Content)
      /\ Len(SubSeq(u, 1, n)) = IF 1 <= n THEN n - 1 + 1 ELSE 0
      /\ \A i \in 1..(n - 1 + 1) : SubSeq(u, 1, n)[i] = u[1 + i - 1]
  BY <1>2, SubSeqProperties
<1>4. Len(SubSeq(u, 1, n)) = n
  BY <1>2, <1>3
<1>5. \A i \in 1..n : SubSeq(u, 1, n)[i] = u[i]
  BY <1>2, <1>3
<1>6. Pop(u) = SubSeq(u, 1, n)
  BY DEF Pop, n
<1>7. QED
  BY <1>3, <1>4, <1>5, <1>6 DEF n

LEMMA LastInSeq ==
  ASSUME NEW u \in Seq(Content), u # <<>>
  PROVE  Last(u) \in Content
<1>1. Len(u) \in 1..Len(u)
  BY EmptySeq
<1>2. QED
  BY <1>1, ElementOfSeq DEF Last

\* trim() keeps at least the newest snapshot, drops from the old end only, and
\* leaves a stack within budget.
LEMMA TrimDrops ==
  ASSUME NEW u \in Seq(Content), u # <<>>
  PROVE  /\ \E n \in 0..(Len(u) - 1) : Trim(u) = Drop(u, n)
         /\ WithinBudget(Trim(u))
<1> DEFINE T == {n \in 0..Len(u) : WithinBudget(Drop(u, n))}
           First(n) == /\ WithinBudget(Drop(u, n))
                       /\ \A m \in 0..(n - 1) : ~WithinBudget(Drop(u, m))
<1>1. Len(u) \in Nat /\ Len(u) >= 1
  BY EmptySeq
<1>2. Len(u) - 1 \in T
  <2> DEFINE k == Len(u) - 1
  <2>1. k \in 0..Len(u) /\ Len(u) - k = 1
    BY <1>1
  <2> HIDE DEF k
  <2>2. Len(Drop(u, k)) = 1
    BY <2>1, DropProperties
  <2>3. WithinBudget(Drop(u, k))
    BY <2>2 DEF WithinBudget
  <2>4. k \in T
    BY <2>1, <2>3
  <2>5. QED
    BY <2>4 DEF k
<1>3. PICK n \in T : \A m \in T : n <= m
  <2>1. T \subseteq Nat /\ T # {}
    BY <1>2
  <2>2. QED
    BY <2>1, LeastNatural, Zenon
<1>4. n \in 0..Len(u) /\ First(n)
  BY <1>1, <1>3
<1> DEFINE c == CHOOSE k \in 0..Len(u) : First(k)
<1>5. c \in 0..Len(u) /\ First(c)
  BY <1>4
<1>6. Trim(u) = Drop(u, c)
  BY DEF Trim
<1> HIDE DEF c
<1>7. c # Len(u)
  BY <1>1, <1>2, <1>5
<1>8. QED
  BY <1>1, <1>5, <1>6, <1>7

LEMMA TrimType ==
  ASSUME NEW u \in Seq(Content), u # <<>>
  PROVE  /\ Trim(u) \in Seq(Content)
         /\ Trim(u) # <<>>
         /\ Len(Trim(u)) <= HISTORY_ENTRIES
<1>1. PICK n \in 0..(Len(u) - 1) : Trim(u) = Drop(u, n)
  BY TrimDrops
<1>2. Len(u) \in Nat /\ n \in 0..Len(u)
  <2>1. Len(u) \in Nat
    OBVIOUS
  <2>2. QED
    BY <2>1
<1>3. /\ Trim(u) \in Seq(Content)
      /\ Len(Trim(u)) = Len(u) - n
  BY <1>1, <1>2, DropProperties
<1>4. Len(Trim(u)) <= 1 \/ Len(Trim(u)) <= HISTORY_ENTRIES
  BY TrimDrops DEF WithinBudget
<1>5. QED
  BY <1>2, <1>3, <1>4, BudgetAssumption

-----------------------------------------------------------------------------
(* The inductive invariant. *)

\* A request that writes has a job from its first read to its reply, and only
\* then; a dry run never gets past the preparation.
Busy ==
  \A s \in Servers :
    /\ pc[s] \in {"idle", "reading"} <=> job[s] = NoJob
    /\ Exposed(s) \/ pc[s] = "renamed" => ~job[s].dry

\* A guard that let a request through is what the request was computed from.
GuardIsBase ==
  \A s \in Servers : job[s].guard # None => job[s].guard = job[s].before

IInv == /\ TypeOK
        /\ Busy
        /\ RestoreIsOfTheHistory
        /\ HistoryBounded
        /\ ReplacesWhatItRead
        /\ GuardIsBase

Histories == [undo : Seq(Content), redo : Seq(Content),
              revision : Content \cup {None}]

LEMMA CommitType ==
  ASSUME NEW h \in Histories, NEW j \in Jobs, j # NoJob,
         j.op = "undo" => h.undo # <<>>,
         j.op = "redo" => h.redo # <<>>,
         Len(h.undo) + Len(h.redo) <= HISTORY_ENTRIES
  PROVE  /\ AfterCommit(h, j) \in Histories
         /\ Len(AfterCommit(h, j).undo) + Len(AfterCommit(h, j).redo)
              <= HISTORY_ENTRIES
<1> USE DEF Histories
<1>1. j.op \in Ops /\ j.before \in Content /\ j.after \in Content
  BY DEF Jobs
<1>2. CASE j.op = "edit"
  <2> DEFINE base == IF h.revision = j.before THEN h.undo ELSE <<>>
             u == Append(base, j.before)
  <2>1. base \in Seq(Content)
    OBVIOUS
  <2>2. u \in Seq(Content) /\ u # <<>>
    BY <1>1, <2>1
  <2>3. AfterCommit(h, j) = [undo |-> Trim(u), redo |-> <<>>, revision |-> j.after]
    BY <1>2 DEF AfterCommit, AfterEdit
  <2> HIDE DEF u
  <2>4. Trim(u) \in Seq(Content) /\ Len(Trim(u)) <= HISTORY_ENTRIES
    BY <2>2, TrimType
  <2>5. QED
    BY <1>1, <2>3, <2>4
<1>3. CASE j.op = "undo"
  <2>1. AfterCommit(h, j) = AfterUndo(h, j.before, j.after)
    BY <1>3 DEF AfterCommit
  <2>2. /\ Pop(h.undo) \in Seq(Content)
        /\ Len(Pop(h.undo)) = Len(h.undo) - 1
    BY <1>3, PopProperties
  <2>3. /\ Append(h.redo, j.before) \in Seq(Content)
        /\ Len(Append(h.redo, j.before)) = Len(h.redo) + 1
    BY <1>1
  <2>4. QED
    BY <1>1, <2>1, <2>2, <2>3, BudgetAssumption DEF AfterUndo
<1>4. CASE j.op = "redo"
  <2>1. AfterCommit(h, j) = AfterRedo(h, j.before, j.after)
    BY <1>4 DEF AfterCommit
  <2>2. /\ Pop(h.redo) \in Seq(Content)
        /\ Len(Pop(h.redo)) = Len(h.redo) - 1
    BY <1>4, PopProperties
  <2>3. /\ Append(h.undo, j.before) \in Seq(Content)
        /\ Len(Append(h.undo, j.before)) = Len(h.undo) + 1
    BY <1>1
  <2>4. QED
    BY <1>1, <2>1, <2>2, <2>3, BudgetAssumption DEF AfterRedo
<1>5. QED
  BY <1>1, <1>2, <1>3, <1>4 DEF Ops

-----------------------------------------------------------------------------
(* Every step preserves the invariant.  Most steps change one entry of pc,
   job and raced; the actions that only look at the file are one lemma. *)

LEMMA InitIInv == Init => IInv
BY ContentAssumption, BudgetAssumption
   DEF Init, IInv, TypeOK, Busy, RestoreIsOfTheHistory, HistoryBounded,
       ReplacesWhatItRead, GuardIsBase, EmptyHistory, NoJob, Jobs, Phases,
       Exposed

LEMMA JobFields ==
  ASSUME NEW j \in Jobs, j # NoJob
  PROVE  /\ j.op \in Ops
         /\ j.dry \in BOOLEAN
         /\ j.guard \in Content \cup {None}
         /\ j.before \in Content
         /\ j.after \in Content
BY DEF Jobs

\* A step after which server s is idle without having touched its history.
LEMMA ReplyStep ==
  ASSUME IInv, NEW s \in Servers, Reply(s),
         UNCHANGED <<file, initialized, history>>,
         known' = known \/ \E v \in Content \cup {None} : known' = [known EXCEPT ![s] = v]
  PROVE  IInv'
BY ContentAssumption, ZenonT(40)
   DEF IInv, TypeOK, Busy, RestoreIsOfTheHistory, HistoryBounded,
       ReplacesWhatItRead, GuardIsBase, Reply, NoJob, Jobs, Phases, Exposed

\* The conjuncts of the invariant that speak of a job still hold of a step
\* that only moves pc[s] from one phase to another with the same job.
LEMMA ReadStep ==
  ASSUME IInv, NEW s \in Servers,
         Initialize(s) \/ ReadRevision(s) \/ ReadContent(s)
  PROVE  IInv'
<1> USE DEF IInv, TypeOK, Busy, RestoreIsOfTheHistory, HistoryBounded,
            ReplacesWhatItRead, GuardIsBase, Phases, Exposed
<1>1. CASE Initialize(s)
  BY <1>1 DEF Initialize
<1>2. CASE ReadRevision(s)
  BY <1>2 DEF ReadRevision, MayCall
<1>3. CASE ReadContent(s)
  BY <1>3 DEF ReadContent
<1>4. QED
  BY <1>1, <1>2, <1>3

LEMMA PrepareStep ==
  ASSUME IInv, NEW s \in Servers, pc[s] = "idle", file \in Content,
         NEW op \in Ops, NEW dry \in BOOLEAN,
         NEW guard \in Content \cup {None}, NEW after \in Content,
         RevisionMatches(guard, file),
         Prepare(s, op, dry, guard, after),
         op = "undo" => history[s].undo # <<>> /\ after = Last(history[s].undo),
         op = "redo" => history[s].redo # <<>> /\ after = Last(history[s].redo),
         op \in {"undo", "redo"} => history[s].revision = file
  PROVE  IInv'
<1> DEFINE j == [op |-> op, dry |-> dry, guard |-> guard,
                 before |-> file, after |-> after]
<1>1. j \in Jobs /\ j # NoJob
  BY ContentAssumption DEF Jobs, NoJob, Ops
<1>2. /\ pc' = [pc EXCEPT ![s] = "prepared"]
      /\ job' = [job EXCEPT ![s] = j]
      /\ UNCHANGED <<file, initialized, history, known, raced>>
  BY DEF Prepare
<1>3. /\ TypeOK' /\ Busy' /\ HistoryBounded'
  BY <1>1, <1>2 DEF IInv, TypeOK, Busy, HistoryBounded, Phases, Exposed
<1>4. RestoreIsOfTheHistory'
  BY <1>2 DEF IInv, TypeOK, RestoreIsOfTheHistory
<1>5. ReplacesWhatItRead'
  BY <1>2 DEF IInv, TypeOK, ReplacesWhatItRead, Exposed
<1>6. GuardIsBase'
  BY <1>2 DEF IInv, TypeOK, GuardIsBase, RevisionMatches
<1>7. QED
  BY <1>3, <1>4, <1>5, <1>6 DEF IInv

LEMMA BeginStep ==
  ASSUME IInv, NEW s \in Servers, BeginEdit(s) \/ BeginRestore(s)
  PROVE  IInv'
<1>1. ASSUME MayMutate(s)
      PROVE  /\ pc[s] = "idle"
             /\ file \in Content
             /\ {None, known[s]} \subseteq Content \cup {None}
  BY <1>1 DEF MayMutate, MayCall, IInv, TypeOK
<1>2. CASE BeginEdit(s)
  <2>1. PICK dry \in BOOLEAN, guard \in {None, known[s]}, after \in Content :
          RevisionMatches(guard, file) /\ Prepare(s, "edit", dry, guard, after)
    BY <1>2 DEF BeginEdit
  <2>2. QED
    BY <1>1, <1>2, <2>1, PrepareStep DEF BeginEdit, Ops
<1>3. CASE BeginRestore(s)
  <2>1. PICK dry \in BOOLEAN, guard \in {None, known[s]} :
          /\ RevisionMatches(guard, file)
          /\ \/ /\ history[s].undo # <<>>
                /\ Prepare(s, "undo", dry, guard, Last(history[s].undo))
             \/ /\ history[s].redo # <<>>
                /\ Prepare(s, "redo", dry, guard, Last(history[s].redo))
    BY <1>3 DEF BeginRestore
  <2>2. /\ history[s].undo \in Seq(Content)
        /\ history[s].redo \in Seq(Content)
    BY DEF IInv, TypeOK
  <2>3. /\ history[s].undo # <<>> => Last(history[s].undo) \in Content
        /\ history[s].redo # <<>> => Last(history[s].redo) \in Content
    BY <2>2, LastInSeq
  <2>4. QED
    BY <1>1, <1>3, <2>1, <2>3, PrepareStep DEF BeginRestore, Ops
<1>4. QED
  BY <1>2, <1>3

LEMMA WorkStep ==
  ASSUME IInv, NEW s \in Servers,
         Recheck(s) \/ Stage(s) \/ Rename(s)
  PROVE  IInv'
<1>1. CASE Recheck(s)
  <2>1. CASE file = job[s].before
    <3>1. /\ pc[s] = "prepared"
          /\ ~job[s].dry
          /\ pc' = [pc EXCEPT ![s] = "checked"]
          /\ UNCHANGED <<file, initialized, history, known, job, raced>>
      BY <1>1, <2>1 DEF Recheck
    <3>2. TypeOK' /\ Busy'
      BY <3>1 DEF IInv, TypeOK, Busy, Phases, Exposed
    <3>3. RestoreIsOfTheHistory' /\ HistoryBounded' /\ GuardIsBase'
      BY <3>1 DEF IInv, RestoreIsOfTheHistory, HistoryBounded, GuardIsBase
    <3>4. ReplacesWhatItRead'
      BY <2>1, <3>1 DEF IInv, TypeOK, ReplacesWhatItRead, Exposed
    <3>5. QED
      BY <3>2, <3>3, <3>4 DEF IInv
  <2>2. CASE file # job[s].before
    <3>1. Reply(s) /\ UNCHANGED <<file, initialized, history, known>>
      BY <1>1, <2>2 DEF Recheck
    <3>2. UNCHANGED <<file, initialized, history>> /\ known' = known
      BY <3>1
    <3>3. QED
      BY <3>1, <3>2, ReplyStep, Zenon
  <2>3. QED
    BY <2>1, <2>2
<1>2. CASE Stage(s)
  BY <1>2
  DEF Stage, IInv, TypeOK, Busy, RestoreIsOfTheHistory, HistoryBounded,
      ReplacesWhatItRead, GuardIsBase, Phases, Exposed
<1>3. CASE Rename(s)
  <2>1. job[s] \in Jobs /\ job[s] # NoJob
    BY <1>3 DEF Rename, IInv, TypeOK, Busy
  <2>2. job[s].after \in Content
    BY <2>1, JobFields
  <2>3. QED
    BY <1>3, <2>1, <2>2
    DEF Rename, Race, IInv, TypeOK, Busy, RestoreIsOfTheHistory, HistoryBounded,
        ReplacesWhatItRead, GuardIsBase, Phases, Exposed
<1>4. QED
  BY <1>1, <1>2, <1>3

LEMMA RecordStep ==
  ASSUME IInv, NEW s \in Servers, Record(s)
  PROVE  IInv'
<1>1. job[s] \in Jobs /\ job[s] # NoJob
  BY DEF IInv, TypeOK, Busy, Record
<1>2. /\ history[s] \in Histories
      /\ Len(history[s].undo) + Len(history[s].redo) <= HISTORY_ENTRIES
      /\ job[s].op = "undo" => history[s].undo # <<>>
      /\ job[s].op = "redo" => history[s].redo # <<>>
  BY DEF IInv, TypeOK, HistoryBounded, RestoreIsOfTheHistory, Histories
<1> DEFINE h == AfterCommit(history[s], job[s])
<1>3. /\ h \in Histories
      /\ Len(h.undo) + Len(h.redo) <= HISTORY_ENTRIES
  BY <1>1, <1>2, CommitType
<1>4. /\ history' = [history EXCEPT ![s] = h]
      /\ Reply(s)
      /\ UNCHANGED <<file, initialized, known>>
  BY DEF Record
<1> HIDE DEF h
<1>5. TypeOK' /\ HistoryBounded'
  BY <1>3, <1>4
  DEF IInv, TypeOK, HistoryBounded, Histories, Reply, Jobs, Phases
<1>6. Busy' /\ ReplacesWhatItRead' /\ GuardIsBase'
  BY <1>4 DEF IInv, TypeOK, Busy, ReplacesWhatItRead, GuardIsBase, Reply,
              Exposed, NoJob
<1>7. RestoreIsOfTheHistory'
  BY <1>4, ContentAssumption DEF IInv, TypeOK, RestoreIsOfTheHistory, Reply, NoJob
<1>8. QED
  BY <1>5, <1>6, <1>7 DEF IInv

LEMMA RestartStep ==
  ASSUME IInv, NEW s \in Servers, Restart(s)
  PROVE  IInv'
<1>1. EmptyHistory \in Histories /\ Len(EmptyHistory.undo) + Len(EmptyHistory.redo) = 0
  BY DEF EmptyHistory, Histories
<1>2. /\ history' = [history EXCEPT ![s] = EmptyHistory]
      /\ known' = [known EXCEPT ![s] = None]
      /\ Reply(s)
      /\ initialized' = initialized \ {s}
      /\ UNCHANGED file
  BY DEF Restart
<1>3. TypeOK'
  BY <1>1, <1>2 DEF IInv, TypeOK, Histories, Reply, Jobs, Phases
<1>4. HistoryBounded'
  <2> SUFFICES ASSUME NEW t \in Servers
               PROVE  Len(history'[t].undo) + Len(history'[t].redo) <= HISTORY_ENTRIES
    BY DEF HistoryBounded
  <2>1. CASE t = s
    <3>1. history'[t] = EmptyHistory
      BY <2>1, <1>2 DEF IInv, TypeOK
    <3>2. 0 <= HISTORY_ENTRIES
      BY BudgetAssumption
    <3>3. QED
      BY <1>1, <3>1, <3>2
  <2>2. CASE t # s
    BY <2>2, <1>2 DEF IInv, TypeOK, HistoryBounded
  <2>3. QED
    BY <2>1, <2>2
<1>5. Busy'
  BY <1>2 DEF IInv, TypeOK, Busy, Reply, Exposed, NoJob
<1>6. ReplacesWhatItRead'
  BY <1>2 DEF IInv, TypeOK, ReplacesWhatItRead, Reply, Exposed, NoJob
<1>7. GuardIsBase'
  BY <1>2 DEF IInv, TypeOK, GuardIsBase, Reply, NoJob
<1>8. RestoreIsOfTheHistory'
  BY <1>2, ContentAssumption DEF IInv, TypeOK, RestoreIsOfTheHistory, Reply, NoJob
<1>9. QED
  BY <1>3, <1>4, <1>5, <1>6, <1>7, <1>8 DEF IInv

LEMMA OutsideStep ==
  ASSUME IInv, Outside
  PROVE  IInv'
BY ServersAssumption
   DEF IInv, TypeOK, Busy, RestoreIsOfTheHistory, HistoryBounded, Outside,
       ReplacesWhatItRead, GuardIsBase, Phases, Exposed, Race

LEMMA IInvStep == IInv /\ [Next]_vars => IInv'
<1> SUFFICES ASSUME IInv, [Next]_vars PROVE IInv'
  OBVIOUS
<1>1. ASSUME NEW s \in Servers,
             Initialize(s) \/ ReadRevision(s) \/ ReadContent(s)
      PROVE  IInv'
  BY <1>1, ReadStep
<1>2. ASSUME NEW s \in Servers, BeginEdit(s) \/ BeginRestore(s)
      PROVE  IInv'
  BY <1>2, BeginStep
<1>3. ASSUME NEW s \in Servers, DryRun(s) \/ WriteFails(s)
      PROVE  IInv'
  BY <1>3, ReplyStep DEF DryRun, WriteFails
<1>4. ASSUME NEW s \in Servers, Recheck(s) \/ Stage(s) \/ Rename(s)
      PROVE  IInv'
  BY <1>4, WorkStep
<1>5. ASSUME NEW s \in Servers, Record(s)
      PROVE  IInv'
  BY <1>5, RecordStep
<1>6. ASSUME NEW s \in Servers, Restart(s)
      PROVE  IInv'
  BY <1>6, RestartStep
<1>7. CASE Outside
  BY <1>7, OutsideStep
<1>8. CASE UNCHANGED vars
  BY <1>8 DEF vars, IInv, TypeOK, Busy, RestoreIsOfTheHistory,
              HistoryBounded, ReplacesWhatItRead, GuardIsBase, Exposed
<1>9. QED
  BY <1>1, <1>2, <1>3, <1>4, <1>5, <1>6, <1>7, <1>8 DEF Next, Work

LEMMA InvariantHolds == Spec => []IInv
BY InitIInv, IInvStep, PTL DEF Spec

-----------------------------------------------------------------------------
\* The state of every server stays well formed, whoever writes the file.
THEOREM TypeCorrect == Spec => []TypeOK
BY InvariantHolds, PTL DEF IInv

\* Undo and redo together never keep more than HISTORY_ENTRIES snapshots.
THEOREM HistoryStaysBounded == Spec => []HistoryBounded
BY InvariantHolds, PTL DEF IInv

\* Unless another writer hits the window between the last comparison and the
\* rename, an edit replaces exactly the bytes it was made from: no update of
\* anybody is lost.
THEOREM NoUnracedLostUpdate == Spec => []ReplacesWhatItRead
BY InvariantHolds, PTL DEF IInv

\* And those are the bytes the client named in expected_revision.
THEOREM GuardsAreHonoured == Spec => []GuardHonoured
<1>1. IInv => GuardHonoured
  BY DEF IInv, ReplacesWhatItRead, GuardIsBase, GuardHonoured
<1>2. QED
  BY <1>1, InvariantHolds, PTL

\* The snapshot being restored is the top of its stack and the file it was
\* prepared for is the history's own revision until the history is updated.
THEOREM RestoresComeFromHistory == Spec => []RestoreIsOfTheHistory
BY InvariantHolds, PTL DEF IInv

-----------------------------------------------------------------------------
(* The log of a history, by its entries. *)

LEMMA ReverseProperties ==
  ASSUME NEW u \in Seq(Content)
  PROVE  /\ Reverse(u) \in Seq(Content)
         /\ Len(Reverse(u)) = Len(u)
         /\ \A i \in 1..Len(u) : Reverse(u)[i] = u[Len(u) - i + 1]
<1> DEFINE n == Len(u)
<1>1. n \in Nat
  OBVIOUS
<1>2. \A i \in 1..n : (n - i) + 1 \in 1..n
  BY <1>1
<1>3. \A i \in 1..n : u[(n - i) + 1] \in Content
  BY <1>2, ElementOfSeq
<1>4. Reverse(u) = [i \in 1..n |-> u[(n - i) + 1]]
  BY DEF Reverse
<1> HIDE DEF n
<1>5. QED
  BY <1>1, <1>3, <1>4, IsASeq DEF n

Well(h) == h \in Histories /\ (h.revision = None => h = EmptyHistory)

LEMMA LogProperties ==
  ASSUME NEW h \in Histories, h.revision \in Content
  PROVE  /\ LogOf(h) \in Seq(Content)
         /\ Len(LogOf(h)) = Len(h.undo) + 1 + Len(h.redo)
         /\ AtOf(h) = Len(h.undo) + 1
         /\ \A i \in 1..Len(h.undo) : LogOf(h)[i] = h.undo[i]
         /\ LogOf(h)[Len(h.undo) + 1] = h.revision
         /\ \A i \in 1..Len(h.redo) :
              LogOf(h)[Len(h.undo) + 1 + i] = h.redo[Len(h.redo) - i + 1]
<1>1. h.undo \in Seq(Content) /\ h.redo \in Seq(Content)
  BY DEF Histories
<1>2. h.revision # None
  BY ContentAssumption
<1> DEFINE front == Append(h.undo, h.revision)
           back == Reverse(h.redo)
<1>3. /\ front \in Seq(Content)
      /\ Len(front) = Len(h.undo) + 1
      /\ \A i \in 1..Len(h.undo) : front[i] = h.undo[i]
      /\ front[Len(h.undo) + 1] = h.revision
  BY <1>1, AppendProperties
<1>4. /\ back \in Seq(Content)
      /\ Len(back) = Len(h.redo)
      /\ \A i \in 1..Len(h.redo) : back[i] = h.redo[Len(h.redo) - i + 1]
  BY <1>1, ReverseProperties
<1>5. LogOf(h) = front \o back /\ AtOf(h) = Len(h.undo) + 1
  BY <1>2 DEF LogOf, AtOf
<1> HIDE DEF front, back
<1> DEFINE m == Len(h.undo)
           n == Len(h.redo)
<1>6. m \in Nat /\ n \in Nat /\ Len(front) = m + 1 /\ Len(back) = n
  BY <1>1, <1>3, <1>4
<1> HIDE DEF m, n
<1>7. /\ front \o back \in Seq(Content)
      /\ Len(front \o back) = m + 1 + n
      /\ \A i \in 1..(m + 1 + n) :
           (front \o back)[i] = IF i <= m + 1 THEN front[i]
                                ELSE back[i - (m + 1)]
  <2>1. front \in Seq(Content)
    BY <1>3
  <2>2. back \in Seq(Content)
    BY <1>4
  <2>3. /\ front \o back \in Seq(Content)
        /\ Len(front \o back) = Len(front) + Len(back)
        /\ \A i \in 1..(Len(front) + Len(back)) :
             (front \o back)[i] = IF i <= Len(front) THEN front[i]
                                  ELSE back[i - Len(front)]
    BY <2>1, <2>2, ConcatProperties, Zenon
  <2>4. QED
    BY <1>6, <2>3
<1>8. \A i \in 1..m : (front \o back)[i] = h.undo[i]
  BY <1>3, <1>6, <1>7 DEF m
<1>9. (front \o back)[m + 1] = h.revision
  BY <1>3, <1>6, <1>7 DEF m
<1>10. \A i \in 1..n : (front \o back)[m + 1 + i] = h.redo[n - i + 1]
  <2> TAKE i \in 1..n
  <2>1. /\ m + 1 + i \in 1..(m + 1 + n)
        /\ ~(m + 1 + i <= m + 1)
        /\ (m + 1 + i) - (m + 1) = i
    BY <1>6
  <2>2. (front \o back)[m + 1 + i] = back[i]
    BY <2>1, <1>7
  <2>3. QED
    BY <2>2, <1>4 DEF n
<1>11. QED
  BY <1>5, <1>7, <1>8, <1>9, <1>10 DEF m, n

-----------------------------------------------------------------------------
(* One lemma per kind of commit. *)

\* undo moves the cursor back over an unchanged log.
LEMMA UndoKeepsLog ==
  ASSUME NEW h \in Histories, h.revision \in Content, h.undo # <<>>,
         NEW k, k = AfterUndo(h, h.revision, Last(h.undo))
  PROVE  /\ k \in Histories
         /\ LogOf(k) = LogOf(h)
         /\ AtOf(k) = AtOf(h) - 1
         /\ AtOf(k) \in 1..Len(LogOf(h))
         /\ LogOf(h)[AtOf(k)] = Last(h.undo)
<1> DEFINE m == Len(h.undo)
           n == Len(h.redo)
<1>1. /\ h.undo \in Seq(Content) /\ h.redo \in Seq(Content)
      /\ m \in Nat /\ m >= 1 /\ n \in Nat
  BY EmptySeq DEF Histories
<1>2. /\ Pop(h.undo) \in Seq(Content)
      /\ Len(Pop(h.undo)) = m - 1
      /\ \A i \in 1..(m - 1) : Pop(h.undo)[i] = h.undo[i]
  BY <1>1, PopProperties
<1>3. /\ Append(h.redo, h.revision) \in Seq(Content)
      /\ Len(Append(h.redo, h.revision)) = n + 1
      /\ \A i \in 1..n : Append(h.redo, h.revision)[i] = h.redo[i]
      /\ Append(h.redo, h.revision)[n + 1] = h.revision
  BY <1>1, AppendProperties
<1>4. Last(h.undo) = h.undo[m] /\ Last(h.undo) \in Content
  BY <1>1, LastInSeq DEF Last
<1>5. /\ k \in Histories
      /\ k.undo = Pop(h.undo)
      /\ k.redo = Append(h.redo, h.revision)
      /\ k.revision = h.undo[m]
      /\ k.revision \in Content
  BY <1>2, <1>3, <1>4 DEF AfterUndo, Histories
<1> HIDE DEF m, n
<1>6. /\ LogOf(h) \in Seq(Content)
      /\ Len(LogOf(h)) = m + 1 + n
      /\ AtOf(h) = m + 1
      /\ \A i \in 1..m : LogOf(h)[i] = h.undo[i]
      /\ LogOf(h)[m + 1] = h.revision
      /\ \A i \in 1..n : LogOf(h)[m + 1 + i] = h.redo[n - i + 1]
  BY LogProperties DEF m, n
<1>7. /\ LogOf(k) \in Seq(Content)
      /\ Len(LogOf(k)) = (m - 1) + 1 + (n + 1)
      /\ AtOf(k) = (m - 1) + 1
      /\ \A i \in 1..(m - 1) : LogOf(k)[i] = k.undo[i]
      /\ LogOf(k)[(m - 1) + 1] = k.revision
      /\ \A i \in 1..(n + 1) : LogOf(k)[(m - 1) + 1 + i] = k.redo[(n + 1) - i + 1]
  <2>1. Len(k.undo) = m - 1 /\ Len(k.redo) = n + 1
    BY <1>2, <1>3, <1>5
  <2>2. QED
    BY <2>1, <1>5, LogProperties, ZenonT(40)
<1>8. \A i \in 1..(m + 1 + n) : LogOf(k)[i] = LogOf(h)[i]
  <2> TAKE i \in 1..(m + 1 + n)
  <2>1. CASE i \in 1..(m - 1)
    BY <2>1, <1>1, <1>2, <1>5, <1>6, <1>7
  <2>2. CASE i = m
    <3>1. LogOf(h)[m] = h.undo[m]
      BY <1>1, <1>6
    <3>2. (m - 1) + 1 = m
      BY <1>1
    <3>3. QED
      BY <2>2, <3>1, <3>2, <1>5, <1>7
  <2>3. CASE i = m + 1
    <3>1. LogOf(k)[m + 1] = k.redo[n + 1]
      BY <1>1, <1>7
    <3>2. QED
      BY <2>3, <3>1, <1>3, <1>5, <1>6
  <2>4. CASE i \in (m + 2)..(m + 1 + n)
    <3> DEFINE j == i - m - 1
    <3>1. j \in 1..n /\ i = m + 1 + j /\ j + 1 \in 1..(n + 1)
          /\ i = (m - 1) + 1 + (j + 1) /\ (n + 1) - (j + 1) + 1 = n - j + 1
          /\ n - j + 1 \in 1..n
      BY <2>4, <1>1
    <3> HIDE DEF j
    <3>2. LogOf(h)[i] = h.redo[n - j + 1]
      BY <3>1, <1>6
    <3>3. LogOf(k)[i] = k.redo[n - j + 1]
      BY <3>1, <1>7
    <3>4. QED
      BY <3>1, <3>2, <3>3, <1>3, <1>5
  <2>5. QED
    BY <2>1, <2>2, <2>3, <2>4, <1>1
<1>9. LogOf(k) = LogOf(h)
  <2>1. Len(LogOf(k)) = Len(LogOf(h))
    BY <1>1, <1>6, <1>7
  <2>2. QED
    BY <2>1, <1>6, <1>7, <1>8, SeqEqual
<1>10. AtOf(k) = m /\ m \in 1..(m + 1 + n)
  BY <1>1, <1>7
<1>11. QED
  BY <1>1, <1>4, <1>5, <1>6, <1>9, <1>10

\* redo is undo run backwards.
LEMMA RedoKeepsLog ==
  ASSUME NEW h \in Histories, h.revision \in Content, h.redo # <<>>,
         NEW k, k = AfterRedo(h, h.revision, Last(h.redo))
  PROVE  /\ k \in Histories
         /\ LogOf(k) = LogOf(h)
         /\ AtOf(k) = AtOf(h) + 1
         /\ AtOf(k) \in 1..Len(LogOf(h))
         /\ LogOf(h)[AtOf(k)] = Last(h.redo)
<1>1. h.undo \in Seq(Content) /\ h.redo \in Seq(Content)
  BY DEF Histories
<1>2. /\ Pop(h.redo) \in Seq(Content)
      /\ Last(h.redo) \in Content
      /\ Append(h.undo, h.revision) \in Seq(Content)
      /\ Append(h.undo, h.revision) # <<>>
  <2>1. Pop(h.redo) \in Seq(Content)
    BY <1>1, PopProperties
  <2>2. Last(h.redo) \in Content
    BY <1>1, LastInSeq
  <2>3. /\ Append(h.undo, h.revision) \in Seq(Content)
        /\ Append(h.undo, h.revision) # <<>>
    BY <1>1, AppendProperties
  <2>4. QED
    BY <2>1, <2>2, <2>3
<1>3. /\ k \in Histories
      /\ k.undo = Append(h.undo, h.revision)
      /\ k.redo = Pop(h.redo)
      /\ k.revision = Last(h.redo)
      /\ k.revision \in Content
  BY <1>2 DEF AfterRedo, Histories
<1>4. Pop(k.undo) = h.undo /\ Last(k.undo) = h.revision
  <2>1. Len(k.undo) = Len(h.undo) + 1 /\ Len(h.undo) \in Nat
    BY <1>1, <1>3
  <2>2. Last(k.undo) = h.revision
    BY <1>1, <1>3, <2>1, AppendProperties DEF Last
  <2>3. /\ k.undo \in Seq(Content) /\ k.undo # <<>>
        /\ Pop(k.undo) \in Seq(Content)
        /\ Len(Pop(k.undo)) = Len(h.undo)
    <3>1. k.undo \in Seq(Content) /\ k.undo # <<>>
      BY <1>2, <1>3
    <3>2. /\ Pop(k.undo) \in Seq(Content)
          /\ Len(Pop(k.undo)) = Len(k.undo) - 1
      BY <3>1, PopProperties
    <3>3. QED
      BY <2>1, <3>1, <3>2
  <2>4. \A i \in 1..Len(Pop(k.undo)) : Pop(k.undo)[i] = h.undo[i]
    <3> TAKE i \in 1..Len(Pop(k.undo))
    <3>1. Pop(k.undo)[i] = k.undo[i]
      BY <2>1, <2>3, PopProperties
    <3>2. k.undo[i] = h.undo[i]
      BY <1>1, <1>3, <2>1, <2>3, AppendProperties
    <3>3. QED
      BY <3>1, <3>2
  <2>5. QED
    BY <1>1, <2>2, <2>3, <2>4, SeqEqual
<1>5. Append(k.redo, k.revision) = h.redo
  <2>1. Len(h.redo) \in Nat /\ Len(h.redo) >= 1
    BY <1>1, EmptySeq
  <2>2. /\ Append(k.redo, k.revision) \in Seq(Content)
        /\ Len(Append(k.redo, k.revision)) = Len(h.redo)
    BY <1>1, <1>2, <1>3, <2>1, PopProperties
  <2>3. \A i \in 1..Len(h.redo) : Append(k.redo, k.revision)[i] = h.redo[i]
    <3> TAKE i \in 1..Len(h.redo)
    <3>1. Len(k.redo) = Len(h.redo) - 1 /\ k.redo \in Seq(Content)
      BY <1>1, <1>2, <1>3, PopProperties
    <3>2. CASE i = Len(h.redo)
      BY <3>1, <3>2, <1>3, <2>1, AppendProperties DEF Last
    <3>3. CASE i \in 1..(Len(h.redo) - 1)
      <4>1. i \in 1..Len(k.redo)
        BY <3>1, <3>3
      <4>2. Append(k.redo, k.revision)[i] = k.redo[i]
        BY <3>1, <4>1, <1>3, AppendProperties
      <4>3. Pop(h.redo)[i] = h.redo[i]
        BY <3>3, <1>1, PopProperties
      <4>4. QED
        BY <4>2, <4>3, <1>3
    <3>4. i = Len(h.redo) \/ i \in 1..(Len(h.redo) - 1)
      BY <2>1
    <3>5. QED
      BY <3>2, <3>3, <3>4
  <2>4. QED
    BY <1>1, <2>2, <2>3, SeqEqual
<1>6. h = AfterUndo(k, k.revision, Last(k.undo))
  BY <1>4, <1>5 DEF AfterUndo, Histories
<1>7. /\ LogOf(h) = LogOf(k)
      /\ AtOf(h) = AtOf(k) - 1
  BY <1>2, <1>3, <1>6, UndoKeepsLog
<1> DEFINE m == Len(k.undo)
           n == Len(k.redo)
<1>8. /\ Len(LogOf(k)) = m + 1 + n
      /\ AtOf(k) = m + 1
      /\ LogOf(k)[m + 1] = k.revision
      /\ m \in Nat /\ n \in Nat
  <2>1. m \in Nat /\ n \in Nat
    <3>1. k.undo \in Seq(Content) /\ k.redo \in Seq(Content)
      BY <1>3 DEF Histories
    <3>2. QED
      BY <3>1, LenProperties
  <2>2. /\ Len(LogOf(k)) = m + 1 + n
        /\ AtOf(k) = m + 1
        /\ LogOf(k)[m + 1] = k.revision
    BY <1>3, LogProperties, Zenon
  <2>3. QED
    BY <2>1, <2>2
<1> HIDE DEF m, n
<1>9. AtOf(k) \in 1..Len(LogOf(k)) /\ AtOf(k) = AtOf(h) + 1
  <2>1. AtOf(k) \in 1..Len(LogOf(k))
    BY <1>8
  <2>2. AtOf(k) \in Nat
    BY <1>8
  <2>3. AtOf(h) = AtOf(k) - 1
    BY <1>7
  <2>4. QED
    BY <2>1, <2>2, <2>3
<1>10. QED
  BY <1>3, <1>7, <1>8, <1>9

\* What UndoFile's Known is for a log l with the cursor at a and file f.
KnownOf(l, a, f) == IF a > 0 /\ l[a] = f THEN SubSeq(l, 1, a) ELSE <<f>>

\* An edit appends to what is known, less the snapshots trim() dropped.
LEMMA EditAppends ==
  ASSUME NEW h \in Histories, Well(h),
         NEW before \in Content, NEW after \in Content
  PROVE  LET k == AfterEdit(h, before, after)
             known0 == KnownOf(LogOf(h), AtOf(h), before)
         IN  /\ \E d \in 0..(Len(known0) - 1) :
                  LogOf(k) = SubSeq(known0, d + 1, Len(known0)) \o <<after>>
             /\ AtOf(k) = Len(LogOf(k))
<1> DEFINE k == AfterEdit(h, before, after)
           known0 == KnownOf(LogOf(h), AtOf(h), before)
<1> DEFINE u == Append(IF h.revision = before THEN h.undo ELSE <<>>, before)
<1>1. /\ h \in Histories
      /\ h.undo \in Seq(Content)
      /\ h.revision \in Content \cup {None}
  BY DEF Well, Histories
<1>2. u \in Seq(Content) /\ u # <<>>
  BY <1>1
<1>3. known0 = u
  <2>1. CASE h.revision = before
    <3> DEFINE m == Len(h.undo)
               l == LogOf(h)
    <3>1. /\ l \in Seq(Content) /\ m \in Nat
          /\ Len(l) >= m + 1
          /\ AtOf(h) = m + 1
          /\ \A i \in 1..m : l[i] = h.undo[i]
          /\ l[m + 1] = before
      <4>1. /\ LogOf(h) \in Seq(Content)
            /\ Len(LogOf(h)) = Len(h.undo) + 1 + Len(h.redo)
            /\ AtOf(h) = Len(h.undo) + 1
            /\ \A i \in 1..Len(h.undo) : LogOf(h)[i] = h.undo[i]
            /\ LogOf(h)[Len(h.undo) + 1] = h.revision
        BY <2>1, <1>1, LogProperties, Zenon
      <4>2. Len(h.undo) \in Nat /\ Len(h.redo) \in Nat
        BY <1>1 DEF Histories
      <4>3. \A x, y \in Nat : x + 1 + y >= x + 1
        OBVIOUS
      <4>4. QED
        BY <2>1, <4>1, <4>2, <4>3
    <3>2. u = Append(h.undo, before)
      BY <2>1
    <3>3. /\ Len(u) = m + 1
          /\ \A i \in 1..m : u[i] = h.undo[i]
          /\ u[m + 1] = before
      BY <1>1, <3>2, AppendProperties
    <3> HIDE DEF m, l, u
    <3>4. /\ SubSeq(l, 1, m + 1) \in Seq(Content)
          /\ Len(SubSeq(l, 1, m + 1)) = m + 1
          /\ \A i \in 1..(m + 1) : SubSeq(l, 1, m + 1)[i] = l[i]
      <4>1. \A i \in 1..(m + 1) : l[i] \in Content
        BY <3>1, ElementOfSeq
      <4>2. QED
        BY <3>1, <4>1, SubSeqProperties
    <3>5. \A i \in 1..(m + 1) : SubSeq(l, 1, m + 1)[i] = u[i]
      BY <3>1, <3>3, <3>4
    <3>6. SubSeq(l, 1, m + 1) = u
      BY <1>2, <3>3, <3>4, <3>5, SeqEqual
    <3>7. known0 = SubSeq(l, 1, m + 1)
      BY <3>1 DEF KnownOf, l
    <3>8. QED
      BY <3>6, <3>7
  <2>2. CASE h.revision # before
    <3>1. u = <<before>>
      BY <2>2
    <3>2. CASE h.revision = None
      BY <3>1, <3>2 DEF KnownOf, AtOf
    <3>3. CASE h.revision \in Content
      <4>1. LogOf(h)[AtOf(h)] = h.revision
        BY <3>3, <1>1, LogProperties
      <4>2. QED
        BY <2>2, <3>1, <4>1 DEF KnownOf
    <3>4. QED
      BY <1>1, <3>2, <3>3
  <2>3. QED
    BY <2>1, <2>2
<1>4. k = [undo |-> Trim(u), redo |-> <<>>, revision |-> after]
  BY DEF AfterEdit
<1> HIDE DEF u
<1>5. PICK d \in 0..(Len(u) - 1) : Trim(u) = Drop(u, d)
  BY <1>2, TrimDrops
<1>6. Trim(u) \in Seq(Content)
  BY <1>2, TrimType
<1>7. LogOf(k) = Append(Trim(u), after) /\ AtOf(k) = Len(Trim(u)) + 1
  <2>1. Reverse(<<>>) = <<>>
    BY DEF Reverse
  <2>2. after # None
    BY ContentAssumption
  <2>3. /\ LogOf(k) = Append(Trim(u), after) \o <<>>
        /\ AtOf(k) = Len(Trim(u)) + 1
    BY <1>4, <2>1, <2>2 DEF LogOf, AtOf
  <2>4. Append(Trim(u), after) \in Seq(Content)
    BY <1>6
  <2>5. QED
    BY <2>3, <2>4, ConcatEmptySeq
<1>8. Append(Trim(u), after) = SubSeq(u, d + 1, Len(u)) \o <<after>>
  BY <1>5, <1>6, AppendIsConcat DEF Drop
<1>9. AtOf(k) = Len(LogOf(k))
  BY <1>6, <1>7
<1>10. QED
  BY <1>3, <1>5, <1>7, <1>8, <1>9

-----------------------------------------------------------------------------
(* The invariant of the refinement: a server that never wrote has an empty
   history. *)

LInv == /\ IInv
        /\ \A s \in Servers : Well(history[s])

LEMMA InitLInv == Init => LInv
<1> SUFFICES ASSUME Init PROVE LInv
  OBVIOUS
<1>1. EmptyHistory \in Histories
  BY DEF EmptyHistory, Histories
<1>2. QED
  BY <1>1, InitIInv DEF Init, LInv, Well

\* What a commit leaves is a history with a revision.
LEMMA CommitWell ==
  ASSUME IInv, NEW s \in Servers, pc[s] = "renamed"
  PROVE  /\ AfterCommit(history[s], job[s]) \in Histories
         /\ AfterCommit(history[s], job[s]).revision = job[s].after
         /\ job[s] \in Jobs /\ job[s] # NoJob
         /\ job[s].after \in Content
<1>1. job[s] \in Jobs /\ job[s] # NoJob
  BY DEF IInv, TypeOK, Busy
<1>2. /\ history[s] \in Histories
      /\ Len(history[s].undo) + Len(history[s].redo) <= HISTORY_ENTRIES
      /\ job[s].op = "undo" => history[s].undo # <<>>
      /\ job[s].op = "redo" => history[s].redo # <<>>
  BY DEF IInv, TypeOK, HistoryBounded, RestoreIsOfTheHistory, Histories
<1>3. AfterCommit(history[s], job[s]) \in Histories
  BY <1>1, <1>2, CommitType
<1>4. job[s].op \in Ops /\ job[s].after \in Content
  BY <1>1, JobFields
<1>5. AfterCommit(history[s], job[s]).revision = job[s].after
  BY <1>4 DEF AfterCommit, AfterEdit, AfterUndo, AfterRedo, Ops
<1>6. QED
  BY <1>1, <1>3, <1>4, <1>5

LEMMA HistoriesStayWell ==
  ASSUME LInv, [Next]_vars
  PROVE  \A t \in Servers : Well(history'[t])
<1>1. /\ \A t \in Servers : Well(history[t])
      /\ history \in [Servers -> Histories]
  BY DEF LInv, IInv, TypeOK, Histories
<1>2. CASE UNCHANGED history
  BY <1>1, <1>2
<1>3. ASSUME NEW s \in Servers, Record(s)
      PROVE  \A t \in Servers : Well(history'[t])
  <2>1. Well(AfterCommit(history[s], job[s]))
    BY <1>3, CommitWell, ContentAssumption DEF Record, Well, LInv
  <2>2. history' = [history EXCEPT ![s] = AfterCommit(history[s], job[s])]
    BY <1>3 DEF Record
  <2>3. QED
    BY <1>1, <2>1, <2>2
<1>4. ASSUME NEW s \in Servers, Restart(s)
      PROVE  \A t \in Servers : Well(history'[t])
  <2>1. Well(EmptyHistory)
    BY DEF Well, EmptyHistory, Histories
  <2>2. QED
    BY <1>1, <1>4, <2>1 DEF Restart
<1>5. ASSUME NEW s \in Servers, BeginEdit(s) \/ BeginRestore(s)
      PROVE  UNCHANGED history
  BY <1>5 DEF BeginEdit, BeginRestore, Prepare
<1>6. QED
  BY <1>2, <1>3, <1>4, <1>5
  DEF Next, vars, Work, Initialize, ReadRevision, ReadContent, DryRun, Recheck,
      Stage, WriteFails, Rename, Outside

LEMMA LInvStep == LInv /\ [Next]_vars => LInv'
BY IInvStep, HistoriesStayWell DEF LInv

-----------------------------------------------------------------------------
(* The steps. *)

\* A commit of server t that nobody raced is a move or an edit of its UndoFile.
LEMMA RenameRefines ==
  ASSUME LInv, NEW t \in Servers, Rename(t), ~raced[t]
  PROVE  Abstract(t)!Next
<1> DEFINE h == history[t]
           j == job[t]
           k == AfterCommit(h, j)
<1>1. /\ pc[t] = "staged" /\ pc'[t] = "renamed"
      /\ file' = j.after
      /\ UNCHANGED <<history, job>>
      /\ Effective(t) = h
      /\ Effective(t)' = k
  BY DEF Rename, Effective, LInv, IInv, TypeOK
<1>2. /\ j \in Jobs /\ j # NoJob
      /\ file = j.before
      /\ j.op = "undo" => h.undo # <<>> /\ j.after = Last(h.undo)
      /\ j.op = "redo" => h.redo # <<>> /\ j.after = Last(h.redo)
      /\ j.op \in {"undo", "redo"} => j.before = h.revision
      /\ Well(h)
  BY <1>1 DEF LInv, IInv, TypeOK, Busy, RestoreIsOfTheHistory,
              ReplacesWhatItRead, Exposed
<1>3. j.op \in Ops /\ j.before \in Content /\ j.after \in Content
  BY <1>2, JobFields
<1> HIDE DEF h, j
<1>4. /\ LogOf(Effective(t))' = LogOf(k)
      /\ AtOf(Effective(t))' = AtOf(k)
      /\ LogOf(Effective(t)) = LogOf(h)
      /\ AtOf(Effective(t)) = AtOf(h)
  BY <1>1 DEF LogOf, AtOf
<1> HIDE DEF k
<1>5. CASE j.op = "edit"
  <2>1. k = AfterEdit(h, j.before, j.after)
    BY <1>5 DEF k, AfterCommit
  <2> DEFINE kn == KnownOf(LogOf(h), AtOf(h), j.before)
  <2>2. /\ \E d \in 0..(Len(kn) - 1) :
             LogOf(k) = SubSeq(kn, d + 1, Len(kn)) \o <<j.after>>
        /\ AtOf(k) = Len(LogOf(k))
    <3>1. Well(h) /\ h \in Histories
      BY <1>2 DEF Well
    <3>2. QED
      BY <3>1, <1>3, <2>1, EditAppends, Zenon
  <2>3. Abstract(t)!Known = kn
    BY <1>2, <1>4 DEF Abstract!Known, KnownOf
  <2> HIDE DEF kn
  <2>4. Abstract(t)!Edit(j.after)
    BY <1>1, <1>2, <1>3, <1>4, <2>2, <2>3 DEF Abstract!Edit
  <2>5. QED
    BY <1>3, <2>4 DEF Abstract!Next
<1>6. CASE j.op = "undo"
  <2>1. k = AfterUndo(h, h.revision, Last(h.undo))
    BY <1>2, <1>6 DEF k, AfterCommit
  <2>2. h \in Histories /\ h.revision \in Content /\ h.undo # <<>>
    BY <1>2, <1>3, <1>6 DEF Well
  <2>3. /\ LogOf(k) = LogOf(h)
        /\ AtOf(k) = AtOf(h) - 1
        /\ AtOf(k) \in 1..Len(LogOf(h))
        /\ LogOf(h)[AtOf(k)] = Last(h.undo)
    BY <2>1, <2>2, UndoKeepsLog
  <2>4. LogOf(h)[AtOf(h)] = h.revision /\ AtOf(h) > 0
    <3>1. Len(h.undo) \in Nat
      BY <2>2 DEF Histories
    <3>2. /\ AtOf(h) = Len(h.undo) + 1
          /\ LogOf(h)[Len(h.undo) + 1] = h.revision
      BY <2>2, LogProperties, Zenon
    <3>3. QED
      BY <3>1, <3>2
  <2>5. Abstract(t)!Undo
    BY <1>1, <1>2, <1>4, <1>6, <2>3, <2>4 DEF Abstract!Undo, Abstract!Move
  <2>6. QED
    BY <2>5 DEF Abstract!Next
<1>7. CASE j.op = "redo"
  <2>1. k = AfterRedo(h, h.revision, Last(h.redo))
    BY <1>2, <1>7 DEF k, AfterCommit
  <2>2. h \in Histories /\ h.revision \in Content /\ h.redo # <<>>
    BY <1>2, <1>3, <1>7 DEF Well
  <2>3. /\ LogOf(k) = LogOf(h)
        /\ AtOf(k) = AtOf(h) + 1
        /\ AtOf(k) \in 1..Len(LogOf(h))
        /\ LogOf(h)[AtOf(k)] = Last(h.redo)
    BY <2>1, <2>2, RedoKeepsLog
  <2>4. LogOf(h)[AtOf(h)] = h.revision /\ AtOf(h) > 0
    <3>1. Len(h.undo) \in Nat
      BY <2>2 DEF Histories
    <3>2. /\ AtOf(h) = Len(h.undo) + 1
          /\ LogOf(h)[Len(h.undo) + 1] = h.revision
      BY <2>2, LogProperties, Zenon
    <3>3. QED
      BY <3>1, <3>2
  <2>5. Abstract(t)!Redo
    BY <1>1, <1>2, <1>4, <1>7, <2>3, <2>4 DEF Abstract!Redo, Abstract!Move
  <2>6. QED
    BY <2>5 DEF Abstract!Next
<1>8. QED
  BY <1>3, <1>5, <1>6, <1>7 DEF Ops

\* What a step of t that neither writes the file nor restarts t changes of
\* its UndoFile: nothing.
LEMMA EffectiveUnchanged ==
  ASSUME NEW t \in Servers, file' = file, Effective(t)' = Effective(t)
  PROVE  UNCHANGED Abstract(t)!vars
BY DEF Abstract!vars, LogOf, AtOf

LEMMA StepRefines ==
  ASSUME LInv, [Next]_vars, NEW t \in Servers
  PROVE  \/ [Abstract(t)!Next]_(Abstract(t)!vars)
         \/ Rename(t) /\ raced[t]
<1>1. /\ pc \in [Servers -> Phases]
      /\ history \in [Servers -> Histories]
      /\ file' \in Content \cup {NoFile}
  BY IInvStep DEF LInv, IInv, TypeOK, Histories
<1>2. ASSUME Effective(t)' = Effective(t)
      PROVE  [Abstract(t)!Next]_(Abstract(t)!vars)
  <2>1. Abstract(t)!Outside
    BY <1>1, <1>2 DEF Abstract!Outside, LogOf, AtOf
  <2>2. QED
    BY <2>1 DEF Abstract!Next
<1>3. ASSUME pc'[t] = pc[t], history'[t] = history[t], job'[t] = job[t]
      PROVE  Effective(t)' = Effective(t)
  BY <1>3 DEF Effective
<1>4. ASSUME history' = history, pc[t] # "renamed", pc'[t] # "renamed"
      PROVE  Effective(t)' = Effective(t)
  BY <1>4 DEF Effective
<1>5. CASE UNCHANGED vars \/ Outside
  BY <1>2, <1>3, <1>5 DEF vars, Outside
<1>6. ASSUME NEW s \in Servers, s # t,
             \/ Initialize(s) \/ ReadRevision(s) \/ BeginEdit(s)
             \/ BeginRestore(s) \/ Work(s) \/ Restart(s)
      PROVE  [Abstract(t)!Next]_(Abstract(t)!vars)
  <2>1. pc'[t] = pc[t] /\ history'[t] = history[t] /\ job'[t] = job[t]
    BY <1>6
    DEF Initialize, ReadRevision, BeginEdit, BeginRestore, Prepare, Work,
        ReadContent, DryRun, Recheck, Stage, Rename, WriteFails, Record,
        Restart, Reply, LInv, IInv, TypeOK
  <2>2. QED
    BY <1>2, <1>3, <2>1
<1>7. ASSUME \/ Initialize(t) \/ ReadRevision(t) \/ ReadContent(t)
             \/ BeginEdit(t) \/ BeginRestore(t)
             \/ DryRun(t) \/ Recheck(t) \/ Stage(t) \/ WriteFails(t)
      PROVE  [Abstract(t)!Next]_(Abstract(t)!vars)
  <2>1. history' = history /\ pc[t] # "renamed" /\ pc'[t] # "renamed"
    BY <1>1, <1>7
    DEF Initialize, ReadRevision, BeginEdit, BeginRestore, Prepare, MayMutate,
        MayCall, ReadContent, DryRun, Recheck, Stage, WriteFails, Exposed,
        Reply
  <2>2. QED
    BY <1>2, <1>4, <2>1
<1>8. CASE Rename(t) /\ ~raced[t]
  BY <1>8, RenameRefines
<1>9. CASE Record(t)
  <2>1. Effective(t)' = Effective(t)
    BY <1>1, <1>9 DEF Record, Reply, Effective
  <2>2. QED
    BY <1>2, <2>1
<1>10. CASE Restart(t)
  <2>1. Effective(t)' = EmptyHistory /\ file' = file
    BY <1>1, <1>10 DEF Restart, Reply, Effective
  <2>2. LogOf(Effective(t))' = <<>> /\ AtOf(Effective(t))' = 0
    BY <2>1 DEF LogOf, AtOf, EmptyHistory
  <2>3. Abstract(t)!Forget
    BY <2>1, <2>2 DEF Abstract!Forget
  <2>4. QED
    BY <2>3 DEF Abstract!Next
<1>11. QED
  BY <1>5, <1>6, <1>7, <1>8, <1>9, <1>10 DEF Next, Work

\* Undo and redo are a linear history of exact contents: every step of any server
\* or other program, but a rename that was raced, is a step of every server's
\* UndoFile, whatever the number of servers, contents and snapshots kept.
THEOREM UndoRedoRefines == Spec => UndoRedoIsLinear
<1>1. Init => \A s \in Servers : Abstract(s)!Init
  BY DEF Init, Abstract!Init, Effective, LogOf, AtOf, EmptyHistory
<1>2. LInv /\ [Next]_vars =>
        [\A s \in Servers : \/ [Abstract(s)!Next]_(Abstract(s)!vars)
                            \/ Rename(s) /\ raced[s]]_vars
  BY StepRefines
<1>3. LInv /\ [Next]_vars => LInv'
  BY LInvStep
<1>4. QED
  BY <1>1, <1>2, <1>3, InitLInv, PTL DEF Spec, UndoRedoIsLinear

-----------------------------------------------------------------------------
(* The bytes of snapshots. *)

AddSize(c, total, content) == total + Size[content]

Bytes == INSTANCE FoldInduction WITH Op <- AddSize, Good <- LAMBDA c, total : total \in Nat

LEMMA BytesFold ==
  ASSUME NEW u \in Seq(Content)
  PROVE  /\ SnapshotBytes(u) = Bytes!Folded(0, 0, u)
         /\ SnapshotBytes(u) \in Nat
<1>1. SnapshotBytes(u) = Bytes!Folded(0, 0, u)
  BY DEF SnapshotBytes, FoldLeft, MapThenFoldSet, Max, AddSize,
         Bytes!Folded, Bytes!IsFold, Bytes!Top
<1>2. \A total : \A i \in DOMAIN u : total \in Nat => AddSize(0, total, u[i]) \in Nat
  BY ContentAssumption DEF AddSize
<1>3. Bytes!Folded(0, 0, u) \in Nat
  BY <1>2, Bytes!FoldKeeps
<1>4. QED
  BY <1>1, <1>3

\* A prefix has no more bytes than the whole.
LEMMA BytesOfPrefix ==
  ASSUME NEW u \in Seq(Content), NEW k \in 0..Len(u)
  PROVE  SnapshotBytes(SubSeq(u, 1, k)) <= SnapshotBytes(u)
<1> DEFINE n == Len(u)
           first(m) == SubSeq(u, 1, m)
           T == {m \in Nat : k + m <= n => SnapshotBytes(first(k)) <= SnapshotBytes(first(k + m))}
<1>1. n \in Nat /\ k \in Nat /\ k <= n
  OBVIOUS
<1>2. ASSUME NEW m \in 0..n PROVE first(m) \in Seq(Content) /\ Len(first(m)) = m
  OBVIOUS
<1>3. ASSUME NEW m \in 0..(n - 1)
      PROVE  SnapshotBytes(first(m)) <= SnapshotBytes(first(m + 1))
  <2>1. m \in 0..n /\ m + 1 \in 0..n /\ u[m + 1] \in Content
    BY <1>1
  <2>2. first(m + 1) = Append(first(m), u[m + 1])
    BY <1>1, <2>1
  <2>3. SnapshotBytes(first(m + 1)) = SnapshotBytes(first(m)) + Size[u[m + 1]]
    <3>1. first(m) \in Seq(Content) /\ first(m + 1) \in Seq(Content)
      BY <1>2, <2>1
    <3> HIDE DEF first, n
    <3>2. Bytes!Folded(0, 0, Append(first(m), u[m + 1]))
            = AddSize(0, Bytes!Folded(0, 0, first(m)), u[m + 1])
      BY <2>1, <3>1, Bytes!FoldOfAppend
    <3>3. QED
      BY <2>2, <3>1, <3>2, BytesFold DEF AddSize
  <2>4. SnapshotBytes(first(m)) \in Nat /\ Size[u[m + 1]] \in Nat
    BY <1>2, <2>1, BytesFold, ContentAssumption
  <2>5. QED
    BY <2>3, <2>4
<1>4. \A m \in 0..n : SnapshotBytes(first(m)) \in Nat
  BY <1>2, BytesFold
<1>5. first(n) = u
  OBVIOUS
<1> HIDE DEF first, n
<1>6. 0 \in T
  BY <1>1, <1>4
<1>7. \A m \in T : m + 1 \in T
  <2> SUFFICES ASSUME NEW m \in T, k + (m + 1) <= n
               PROVE  SnapshotBytes(first(k)) <= SnapshotBytes(first(k + (m + 1)))
    OBVIOUS
  <2>1. m \in Nat /\ k + m \in 0..(n - 1) /\ k + m \in 0..n /\ k + (m + 1) \in 0..n
        /\ k \in 0..n /\ k + (m + 1) = (k + m) + 1 /\ k + m <= n
    BY <1>1
  <2>2. SnapshotBytes(first(k)) <= SnapshotBytes(first(k + m))
    BY <2>1
  <2>3. SnapshotBytes(first(k + m)) <= SnapshotBytes(first(k + (m + 1)))
    BY <1>3, <2>1
  <2>4. QED
    BY <1>4, <2>1, <2>2, <2>3
<1>8. T = Nat
  <2>1. T \in SUBSET Nat
    OBVIOUS
  <2> HIDE DEF T
  <2>2. QED
    BY <1>6, <1>7, <2>1, AllNaturals
<1>9. PICK d \in Nat : k + d = n
  <2>1. n - k \in Nat /\ k + (n - k) = n
    BY <1>1
  <2>2. QED
    BY <2>1
<1>10. d \in T
  BY <1>8
<1>11. SnapshotBytes(first(k)) <= SnapshotBytes(first(n))
  BY <1>1, <1>9, <1>10
<1>12. QED
  BY <1>5, <1>11 DEF first

LEMMA PrefixWithinBudget ==
  ASSUME NEW u \in Seq(Content), NEW k \in 0..Len(u), WithinBudget(u)
  PROVE  WithinBudget(SubSeq(u, 1, k))
<1>1. /\ SubSeq(u, 1, k) \in Seq(Content) /\ Len(SubSeq(u, 1, k)) = k
      /\ Len(u) \in Nat /\ k \in Nat /\ k <= Len(u)
  OBVIOUS
<1>2. /\ SnapshotBytes(SubSeq(u, 1, k)) <= SnapshotBytes(u)
      /\ SnapshotBytes(SubSeq(u, 1, k)) \in Nat /\ SnapshotBytes(u) \in Nat
  BY <1>1, BytesOfPrefix, BytesFold
<1>3. QED
  BY <1>1, <1>2, BudgetAssumption DEF WithinBudget

-----------------------------------------------------------------------------
(* Undo after any redo. *)

\* All but the newest content of the log of h, which redoing would make the undo stack.
Fits(h) == h.revision # None => WithinBudget(Pop(LogOf(h)))

LEMMA UndoOfFitting ==
  ASSUME NEW h \in Histories, Well(h), Fits(h)
  PROVE  WithinBudget(h.undo)
<1>1. CASE h.revision = None
  <2>1. h.undo = <<>> /\ Len(<<>>) = 0
    BY <1>1 DEF Well, EmptyHistory
  <2>2. QED
    BY <2>1 DEF WithinBudget
<1>2. CASE h.revision # None
  <2>1. h.revision \in Content /\ h.undo \in Seq(Content) /\ h.redo \in Seq(Content)
    BY <1>2 DEF Histories
  <2> DEFINE l == LogOf(h)
             m == Len(h.undo)
             r == Len(h.redo)
  <2>2. /\ l \in Seq(Content) /\ Len(l) = m + 1 + r
        /\ \A i \in 1..m : l[i] = h.undo[i]
    BY <2>1, LogProperties
  <2>3. m \in Nat /\ r \in Nat
    BY <2>1
  <2>4. h.undo \in Seq(Content) /\ Len(h.undo) = m
    BY <2>1
  <2> HIDE DEF l, m, r
  <2>5. l # <<>>
    <3>1. m + 1 + r # 0
      BY <2>3
    <3>2. Len(l) # 0
      BY <2>2, <3>1
    <3>3. QED
      BY <3>2
  <2>6. /\ Pop(l) \in Seq(Content) /\ Len(Pop(l)) = m + r
        /\ \A i \in 1..m : Pop(l)[i] = h.undo[i]
    <3>1. /\ Pop(l) \in Seq(Content) /\ Len(Pop(l)) = Len(l) - 1
          /\ \A i \in 1..(Len(l) - 1) : Pop(l)[i] = l[i]
      BY <2>2, <2>5, PopProperties
    <3>2. Len(l) - 1 = m + r /\ \A i \in 1..m : i \in 1..(m + r)
      BY <2>2, <2>3
    <3>3. QED
      BY <2>2, <3>1, <3>2
  <2>7. SubSeq(Pop(l), 1, m) = h.undo
    <3> DEFINE p == Pop(l)
    <3>1. p \in Seq(Content) /\ Len(p) >= m /\ \A i \in 1..m : p[i] = h.undo[i]
      BY <2>3, <2>6
    <3> HIDE DEF p
    <3>2. SubSeq(p, 1, m) \in Seq(Content) /\ Len(SubSeq(p, 1, m)) = m
          /\ \A i \in 1..m : SubSeq(p, 1, m)[i] = p[i]
      BY <2>3, <3>1
    <3>3. SubSeq(p, 1, m) = h.undo
      BY <2>3, <2>4, <3>1, <3>2, SeqEqual
    <3>4. QED
      BY <3>3 DEF p
  <2>8. WithinBudget(SubSeq(Pop(l), 1, m))
    <3>1. m \in 0..Len(Pop(l)) /\ WithinBudget(Pop(l))
      BY <1>2, <2>3, <2>6 DEF Fits, l
    <3>2. QED
      BY <2>6, <3>1, PrefixWithinBudget
  <2>9. QED
    BY <2>7, <2>8
<1>3. QED
  BY <1>1, <1>2

LEMMA PopOfAppend ==
  ASSUME NEW u \in Seq(Content), NEW e \in Content
  PROVE  Pop(Append(u, e)) = u
BY DEF Pop

\* A commit keeps the log within budget: an edit trims it, undo and redo move along it.
LEMMA CommitFits ==
  ASSUME IInv, NEW s \in Servers, pc[s] = "renamed", Well(history[s]), Fits(history[s])
  PROVE  Fits(AfterCommit(history[s], job[s]))
<1> DEFINE h == history[s]
           j == job[s]
<1>1. /\ h \in Histories /\ j \in Jobs /\ j # NoJob
      /\ j.op = "undo" => h.undo # <<>> /\ j.after = Last(h.undo)
      /\ j.op = "redo" => h.redo # <<>> /\ j.after = Last(h.redo)
      /\ j.op \in {"undo", "redo"} => j.before = h.revision
  BY DEF IInv, TypeOK, Busy, RestoreIsOfTheHistory, Histories
<1>2. j.op \in Ops /\ j.before \in Content /\ j.after \in Content
  BY <1>1, JobFields
<1> HIDE DEF h, j
<1>3. CASE j.op = "edit"
  <2> DEFINE u == Append(IF h.revision = j.before THEN h.undo ELSE <<>>, j.before)
  <2>1. u \in Seq(Content) /\ u # <<>>
    <3>1. h.undo \in Seq(Content)
      BY <1>1 DEF Histories
    <3>2. QED
      BY <1>2, <3>1
  <2>2. AfterCommit(h, j) = [undo |-> Trim(u), redo |-> <<>>, revision |-> j.after]
    BY <1>3 DEF AfterCommit, AfterEdit
  <2> HIDE DEF u
  <2>3. Trim(u) \in Seq(Content) /\ WithinBudget(Trim(u))
    BY <2>1, TrimType, TrimDrops
  <2>4. LogOf(AfterCommit(h, j)) = Append(Trim(u), j.after)
    <3>1. LogOf(AfterCommit(h, j)) = Append(Trim(u), j.after) \o Reverse(<<>>)
      BY <1>2, <2>2, ContentAssumption DEF LogOf
    <3>2. Reverse(<<>>) = <<>>
      BY DEF Reverse
    <3>3. Append(Trim(u), j.after) \in Seq(Content)
      BY <1>2, <2>3
    <3>4. QED
      BY <3>1, <3>2, <3>3, ConcatEmptySeq
  <2>5. QED
    BY <1>2, <2>3, <2>4, PopOfAppend DEF Fits, h, j
<1>4. CASE j.op = "undo"
  <2>1. AfterCommit(h, j) = AfterUndo(h, h.revision, Last(h.undo)) /\ h.revision \in Content
    BY <1>1, <1>2, <1>4 DEF AfterCommit
  <2>2. LogOf(AfterCommit(h, j)) = LogOf(h)
    BY <1>1, <1>4, <2>1, UndoKeepsLog
  <2>3. QED
    BY <2>1, <2>2, ContentAssumption DEF Fits, h, j
<1>5. CASE j.op = "redo"
  <2>1. AfterCommit(h, j) = AfterRedo(h, h.revision, Last(h.redo)) /\ h.revision \in Content
    BY <1>1, <1>2, <1>5 DEF AfterCommit
  <2>2. LogOf(AfterCommit(h, j)) = LogOf(h)
    BY <1>1, <1>5, <2>1, RedoKeepsLog
  <2>3. QED
    BY <2>1, <2>2, ContentAssumption DEF Fits, h, j
<1>6. QED
  BY <1>2, <1>3, <1>4, <1>5 DEF Ops

AllFit == \A s \in Servers : Well(history[s]) /\ Fits(history[s])

LEMMA AllFitStep == IInv /\ AllFit /\ [Next]_vars => AllFit'
<1> SUFFICES ASSUME IInv, AllFit, [Next]_vars PROVE AllFit'
  OBVIOUS
<1>1. history \in [Servers -> Histories]
  BY DEF IInv, TypeOK, Histories
<1>2. CASE UNCHANGED history
  BY <1>2 DEF AllFit
<1>3. ASSUME NEW s \in Servers, Record(s) PROVE AllFit'
  <2>1. Well(AfterCommit(history[s], job[s])) /\ Fits(AfterCommit(history[s], job[s]))
    BY <1>3, CommitWell, CommitFits, ContentAssumption DEF Record, Well, AllFit
  <2>2. history' = [history EXCEPT ![s] = AfterCommit(history[s], job[s])]
    BY <1>3 DEF Record
  <2>3. QED
    BY <1>1, <2>1, <2>2 DEF AllFit
<1>4. ASSUME NEW s \in Servers, Restart(s) PROVE AllFit'
  <2>1. Well(EmptyHistory) /\ Fits(EmptyHistory)
    BY DEF Well, Fits, EmptyHistory, Histories
  <2>2. history' = [history EXCEPT ![s] = EmptyHistory]
    BY <1>4 DEF Restart
  <2>3. QED
    BY <1>1, <2>1, <2>2 DEF AllFit
<1>5. ASSUME NEW s \in Servers, BeginEdit(s) \/ BeginRestore(s)
      PROVE  UNCHANGED history
  BY <1>5 DEF BeginEdit, BeginRestore, Prepare
<1>6. QED
  BY <1>2, <1>3, <1>4, <1>5
  DEF Next, vars, Work, Initialize, ReadRevision, ReadContent, DryRun, Recheck,
      Stage, WriteFails, Rename, Outside

\* The undo stack is within the entry and the byte budget at every instant, whoever else
\* writes the file: a redo, which does not trim, only brings back what an undo took from a
\* stack that was within both (files.rs:142).
THEOREM UndoStaysWithinBudget == Spec => []UndoWithinBudget
<1>1. Init => AllFit
  <2> SUFFICES ASSUME Init, NEW s \in Servers PROVE Well(history[s]) /\ Fits(history[s])
    BY DEF AllFit
  <2>1. history[s] = EmptyHistory
    BY DEF Init
  <2>2. QED
    BY <2>1 DEF Well, Fits, EmptyHistory, Histories
<1>2. IInv /\ AllFit => UndoWithinBudget
  BY UndoOfFitting DEF UndoWithinBudget, AllFit, IInv, TypeOK, Histories
<1>3. QED
  BY <1>1, <1>2, AllFitStep, InvariantHolds, PTL DEF Spec

=============================================================================
