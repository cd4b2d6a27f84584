-------------------------- MODULE PrintQueueProofs --------------------------
(***************************************************************************)
(* Proofs, for every number of users and printers and every size of the    *)
(* ring, of the invariants of PrintQueue.                                  *)
(***************************************************************************)
EXTENDS PrintQueue, FiniteSetTheorems, TLAPS

PcOK == /\ pc \in [Processes -> UserPc \cup PrinterPc]
        /\ \A u \in Users : pc[u] \in UserPc
        /\ \A p \in Printers : pc[p] \in PrinterPc

\* Every process has a statement, of whichever program.
PcFun == pc = [q \in Processes |-> pc[q]]

\* The members of P whose label under f is one of L.
Having(P, f, L) == {v \in P : f[v] \in L}

\* 1 for a statement of L and 0 for another.
One(l, L) == IF l \in L THEN 1 ELSE 0
-----------------------------------------------------------------------------
(***************************************************************************)
(* Counting the processes at a set of statements.                          *)
(***************************************************************************)

\* When one member at most of a finite set changes its label, the number of members
\* with a label of L changes by that member alone.
LEMMA HeadCount ==
    ASSUME NEW P, IsFiniteSet(P), NEW f, NEW g, NEW u \in P,
           NEW L, Having(P \ {u}, g, L) = Having(P \ {u}, f, L)
    PROVE  Cardinality(Having(P, g, L))
             = Cardinality(Having(P, f, L)) + One(g[u], L) - One(f[u], L)
<1> DEFINE F == Having(P, f, L)
           G == Having(P, g, L)
<1>0. \A v \in P : v # u => (v \in G <=> v \in F)
  BY DEF Having
<1>1. IsFiniteSet(F) /\ Cardinality(F) \in Nat
  <2>1. F \in SUBSET P
    BY DEF Having
  <2> QED
    BY <2>1, FS_Subset, FS_CardinalityType
<1>2. CASE (g[u] \in L) <=> (f[u] \in L)
  <2>1. G = F
    BY <1>0, <1>2 DEF Having
  <2>2. One(g[u], L) = One(f[u], L) /\ One(f[u], L) \in Nat
    BY <1>2 DEF One
  <2> QED
    BY <1>1, <2>1, <2>2
<1>3. CASE g[u] \in L /\ f[u] \notin L
  <2>1. G = F \cup {u} /\ u \notin F
    BY <1>0, <1>3 DEF Having
  <2>2. Cardinality(G) = Cardinality(F) + 1
    BY <1>1, <2>1, FS_AddElement
  <2> QED
    BY <1>1, <1>3, <2>2 DEF One
<1>4. CASE g[u] \notin L /\ f[u] \in L
  <2>1. G = F \ {u} /\ u \in F
    BY <1>0, <1>4 DEF Having
  <2>2. Cardinality(G) = Cardinality(F) - 1
    BY <1>1, <2>1, FS_RemoveElement
  <2> QED
    BY <1>1, <1>4, <2>2 DEF One
<1> QED
  BY <1>2, <1>3, <1>4

\* A larger set of labels has a head count at least as large, and larger by
\* one at least when a member's label is in the difference.
LEMMA HeadCountMono ==
    ASSUME NEW P, IsFiniteSet(P), NEW f, NEW L, NEW K, L \subseteq K
    PROVE  /\ Cardinality(Having(P, f, K)) \in Nat
           /\ Cardinality(Having(P, f, L)) \in Nat
           /\ Cardinality(Having(P, f, L)) <= Cardinality(Having(P, f, K))
           /\ \A u \in P : f[u] \in K \ L =>
                 Cardinality(Having(P, f, L)) + 1 <= Cardinality(Having(P, f, K))
<1> DEFINE S == Having(P, f, L)
           T == Having(P, f, K)
<1>1. T \in SUBSET P /\ S \in SUBSET T
  BY DEF Having
<1>2. IsFiniteSet(T)
  BY <1>1, FS_Subset
<1>3. IsFiniteSet(S) /\ Cardinality(S) <= Cardinality(T)
      /\ (Cardinality(S) = Cardinality(T) => S = T)
  BY <1>1, <1>2, FS_Subset
<1>4. Cardinality(S) \in Nat /\ Cardinality(T) \in Nat
  BY <1>2, <1>3, FS_CardinalityType
<1>5. \A u \in P : f[u] \in K \ L => S # T
  BY DEF Having
<1> HIDE DEF S, T
<1>6. \A u \in P : f[u] \in K \ L => Cardinality(S) + 1 <= Cardinality(T)
  BY <1>3, <1>4, <1>5
<1> QED
  BY <1>3, <1>4, <1>6 DEF S, T

\* The two lemmas, for the users and for the printers of a state.
LEMMA AtHaving ==
    ASSUME NEW L
    PROVE  /\ UsersAt(L) = Cardinality(Having(Users, pc, L))
           /\ UsersAt(L)' = Cardinality(Having(Users, pc', L))
           /\ PrintersAt(L) = Cardinality(Having(Printers, pc, L))
           /\ PrintersAt(L)' = Cardinality(Having(Printers, pc', L))
  BY DEF UsersAt, PrintersAt, Having

\* The head count grows with the set of labels.
LEMMA AtMono ==
    ASSUME NEW L, NEW K, L \subseteq K
    PROVE  /\ UsersAt(L) \in Nat /\ UsersAt(K) \in Nat
           /\ UsersAt(L) <= UsersAt(K)
           /\ \A u \in Users : pc[u] \in K \ L => UsersAt(L) + 1 <= UsersAt(K)
           /\ PrintersAt(L) \in Nat /\ PrintersAt(K) \in Nat
           /\ PrintersAt(L) <= PrintersAt(K)
           /\ \A p \in Printers : pc[p] \in K \ L => PrintersAt(L) + 1 <= PrintersAt(K)
<1>1. IsFiniteSet(Users) /\ IsFiniteSet(Printers)
  BY PrintQueueAssumption
<1> QED
  BY <1>1, HeadCountMono, AtHaving

\* A step of a user moves that user between two statements in the head
\* counts of the users and leaves those of the printers alone.
LEMMA UserMoves ==
    ASSUME PcFun, NEW u \in Users, NEW from, NEW to, Goto(u, from, to), NEW L
    PROVE  /\ UsersAt(L)' = UsersAt(L) + One(to, L) - One(from, L)
           /\ PrintersAt(L)' = PrintersAt(L)
<1>1. /\ pc[u] = from /\ pc'[u] = to
      /\ \A v \in Users : v # u => pc'[v] = pc[v]
      /\ \A p \in Printers : pc'[p] = pc[p]
  BY PrintQueueAssumption DEF Goto, PcFun, Processes
<1>2. Having(Printers, pc', L) = Having(Printers, pc, L)
  BY <1>1 DEF Having
<1>3. IsFiniteSet(Users)
  BY PrintQueueAssumption
<1>4. Cardinality(Having(Users, pc', L))
        = Cardinality(Having(Users, pc, L)) + One(pc'[u], L) - One(pc[u], L)
  <2>1. Having(Users \ {u}, pc', L) = Having(Users \ {u}, pc, L)
    BY <1>1 DEF Having
  <2> QED
    BY <1>3, <2>1, HeadCount
<1>5. UsersAt(L)' = UsersAt(L) + One(to, L) - One(from, L)
  BY <1>1, <1>4, AtHaving
<1>6. PrintersAt(L)' = PrintersAt(L)
  BY <1>2, AtHaving
<1> QED
  BY <1>5, <1>6

\* The same for a step of a printer.
LEMMA PrinterMoves ==
    ASSUME PcFun, NEW p \in Printers, NEW from, NEW to, Goto(p, from, to), NEW L
    PROVE  /\ PrintersAt(L)' = PrintersAt(L) + One(to, L) - One(from, L)
           /\ UsersAt(L)' = UsersAt(L)
<1>1. /\ pc[p] = from /\ pc'[p] = to
      /\ \A v \in Printers : v # p => pc'[v] = pc[v]
      /\ \A u \in Users : pc'[u] = pc[u]
  BY PrintQueueAssumption DEF Goto, PcFun, Processes
<1>2. Having(Users, pc', L) = Having(Users, pc, L)
  BY <1>1 DEF Having
<1>3. IsFiniteSet(Printers)
  BY PrintQueueAssumption
<1>4. Cardinality(Having(Printers, pc', L))
        = Cardinality(Having(Printers, pc, L)) + One(pc'[p], L) - One(pc[p], L)
  <2>1. Having(Printers \ {p}, pc', L) = Having(Printers \ {p}, pc, L)
    BY <1>1 DEF Having
  <2> QED
    BY <1>3, <2>1, HeadCount
<1>5. PrintersAt(L)' = PrintersAt(L) + One(to, L) - One(from, L)
  BY <1>1, <1>4, AtHaving
<1>6. UsersAt(L)' = UsersAt(L)
  BY <1>2, AtHaving
<1> QED
  BY <1>5, <1>6

-----------------------------------------------------------------------------
(***************************************************************************)
(* The inductive invariant: the three run invariants together.  The bounds *)
(* of TypeOK follow from the equations of RingConsistent, the equations    *)
(* need the indices and labels of TypeOK, and an index is only ever moved  *)
(* by a process that MutualExclusion knows to be alone.                    *)
(***************************************************************************)
IInv == TypeOK /\ MutualExclusion /\ RingConsistent

\* The six head counts of the equations.
Uh == UsersAt(UserHolds)
Up == UsersAt({"postQueue", "postFull"})
Uc == UsersAt({"count"})
Ph == PrintersAt(PrinterHolds)
Pw == PrintersAt({"waitQueue", "copy", "head", "count"})
Pc == PrintersAt({"count"})

\* The labels, a part of the type invariant.
LEMMA TypePc == TypeOK => PcOK /\ PcFun
  BY DEF TypeOK, PcOK, PcFun

\* How the head counts bound one another, and what a single process adds.
LEMMA CountsOrdered ==
    /\ Uh \in Nat /\ Up \in Nat /\ Uc \in Nat /\ Ph \in Nat /\ Pw \in Nat /\ Pc \in Nat
    /\ Up <= Uh /\ Pw <= Ph /\ Pc <= Pw
    /\ \A u \in Users : pc[u] \in {"waitQueue", "copy", "tail", "count"} => Up + 1 <= Uh
    /\ \A p \in Printers : pc[p] \in {"postQueue", "postEmpty"} => Pw + 1 <= Ph
    /\ \A p \in Printers : pc[p] \in {"waitQueue", "copy", "head"} => Pc + 1 <= Pw
<1>1. /\ {"postQueue", "postFull"} \subseteq UserHolds
      /\ {"waitQueue", "copy", "tail", "count"} \subseteq UserHolds \ {"postQueue", "postFull"}
  BY DEF UserHolds
<1>2. /\ {"waitQueue", "copy", "head", "count"} \subseteq PrinterHolds
      /\ {"postQueue", "postEmpty"} \subseteq
           PrinterHolds \ {"waitQueue", "copy", "head", "count"}
  BY DEF PrinterHolds
<1>3. /\ {"count"} \subseteq {"waitQueue", "copy", "head", "count"}
      /\ {"waitQueue", "copy", "head"} \subseteq {"waitQueue", "copy", "head", "count"} \ {"count"}
  OBVIOUS
<1>4. Uh \in Nat /\ Up \in Nat /\ Up <= Uh
      /\ \A u \in Users : pc[u] \in UserHolds \ {"postQueue", "postFull"} => Up + 1 <= Uh
  BY <1>1, AtMono DEF Uh, Up
<1>5. Ph \in Nat /\ Pw \in Nat /\ Pw <= Ph
      /\ \A p \in Printers :
            pc[p] \in PrinterHolds \ {"waitQueue", "copy", "head", "count"} => Pw + 1 <= Ph
  BY <1>2, AtMono DEF Ph, Pw
<1>6. Uc \in Nat /\ Pc \in Nat /\ Pc <= Pw
      /\ \A p \in Printers :
            pc[p] \in {"waitQueue", "copy", "head", "count"} \ {"count"} => Pc + 1 <= Pw
  BY <1>3, AtMono DEF Uc, Pc, Pw
<1> QED
  BY <1>1, <1>2, <1>3, <1>4, <1>5, <1>6

\* A process at a critical statement other than "count" leaves nobody there.
LEMMA NobodyCounts ==
    ASSUME MutualExclusion, NEW p \in Processes,
           InCritical(p), pc[p] # "count"
    PROVE  Uc = 0 /\ Pc = 0
<1>1. \A q \in Processes : pc[q] # "count"
  BY DEF MutualExclusion, InCritical
<1>2. Having(Users, pc, {"count"}) = {} /\ Having(Printers, pc, {"count"}) = {}
  BY <1>1 DEF Having, Processes
<1> QED
  BY <1>2, AtHaving, FS_EmptySet DEF Uc, Pc

\* The slot after a slot.
LEMMA NextSlotValue ==
    ASSUME NEW i \in Slots
    PROVE  NextSlot(i) = IF i = QUEUE_SIZE - 1 THEN 0 ELSE i + 1
  BY PrintQueueAssumption DEF Slots, NextSlot

\* The initial states satisfy the inductive invariant.
LEMMA InitInv == Init => IInv
<1> SUFFICES ASSUME Init PROVE IInv
  OBVIOUS
<1> USE DEF Init, ShmInit, SemInit, FirstPc, Processes
<1>1. \A u \in Users : pc[u] = "make"
  OBVIOUS
<1>2. \A p \in Printers : pc[p] = "waitFull"
  BY PrintQueueAssumption
<1>3. TypeOK
  BY <1>1, <1>2, PrintQueueAssumption DEF TypeOK, Slots, UserPc, PrinterPc
<1>4. MutualExclusion
  BY <1>1, <1>2 DEF MutualExclusion, InCritical
<1>5. Uh = 0 /\ Up = 0 /\ Uc = 0 /\ Ph = 0 /\ Pw = 0 /\ Pc = 0
  <2>1. /\ Having(Users, pc, UserHolds) = {}
        /\ Having(Users, pc, {"postQueue", "postFull"}) = {}
        /\ Having(Users, pc, {"count"}) = {}
    BY <1>1 DEF Having, UserHolds
  <2>2. /\ Having(Printers, pc, PrinterHolds) = {}
        /\ Having(Printers, pc, {"waitQueue", "copy", "head", "count"}) = {}
        /\ Having(Printers, pc, {"count"}) = {}
    BY <1>2 DEF Having, PrinterHolds
  <2>3. Uh = 0 /\ Up = 0 /\ Uc = 0
    BY <2>1, AtHaving, FS_EmptySet DEF Uh, Up, Uc
  <2>4. Ph = 0 /\ Pw = 0 /\ Pc = 0
    BY <2>2, AtHaving, FS_EmptySet DEF Ph, Pw, Pc
  <2> QED
    BY <2>3, <2>4
<1>6. RingConsistent
  BY <1>5, PrintQueueAssumption
     DEF RingConsistent, PlacesConserved, CountAgrees, RingAgrees, Uh, Up, Uc, Ph, Pw, Pc
<1> QED
  BY <1>3, <1>4, <1>6 DEF IInv

-----------------------------------------------------------------------------
CriticalPc == {"copy", "head", "tail", "count", "postQueue"}

\* A step between two statements both critical, or both not, that leaves the
\* lock alone keeps MutualExclusion.
LEMMA MutexKept ==
    ASSUME PcOK, MutualExclusion, NEW p \in Processes, NEW from, NEW to,
           Goto(p, from, to), semQueue' = semQueue,
           from \in CriticalPc <=> to \in CriticalPc
    PROVE  MutualExclusion'
<1>1. \A q \in Processes : InCritical(q)' <=> InCritical(q)
  BY DEF Goto, PcOK, InCritical, CriticalPc
<1> QED
  BY <1>1 DEF MutualExclusion

\* Taking sem_queue keeps mutual exclusion.
LEMMA LockMutex ==
    ASSUME TypeOK, MutualExclusion, NEW p \in Processes, LockQueue(p)
    PROVE  MutualExclusion' /\ semQueue' \in 0 .. 1
<1>1. semQueue = 1 /\ semQueue' = 0
  BY DEF LockQueue, TypeOK
<1>2. \A q \in Processes : ~InCritical(q)
  BY <1>1 DEF MutualExclusion
<1>3. \A q \in Processes : InCritical(q)' <=> q = p
  BY <1>2 DEF LockQueue, Goto, TypeOK, InCritical
<1> QED
  BY <1>1, <1>3 DEF MutualExclusion

\* Posting sem_queue keeps mutual exclusion.
LEMMA UnlockMutex ==
    ASSUME TypeOK, MutualExclusion, NEW p \in Processes, UnlockQueue(p)
    PROVE  MutualExclusion' /\ semQueue' \in 0 .. 1
<1>1. InCritical(p)
  BY DEF UnlockQueue, Goto, InCritical
<1>2. semQueue = 0 /\ semQueue' = 1
  BY <1>1 DEF MutualExclusion, UnlockQueue, TypeOK
<1>3. \A q \in Processes : ~InCritical(q)'
  BY <1>1 DEF MutualExclusion, UnlockQueue, Goto, TypeOK, InCritical
<1> QED
  BY <1>2, <1>3 DEF MutualExclusion

\* The labels stay of their type when a process goes to one of its labels.
LEMMA PcTyped ==
    ASSUME PcOK, NEW p \in Processes, NEW from, NEW to, Goto(p, from, to),
           p \in Users => to \in UserPc, p \in Printers => to \in PrinterPc
    PROVE  PcOK'
  BY PrintQueueAssumption DEF PcOK, Goto, Processes

\* The equations in terms of the six head counts.
LEMMA RingEquations ==
    /\ RingConsistent <=>
         /\ semEmpty + semFull + Uh + Ph = QUEUE_SIZE
         /\ count = semFull + Up + Pw
         /\ \/ tail = head + (count + Uc - Pc)
            \/ tail = head + (count + Uc - Pc) - QUEUE_SIZE
    /\ RingConsistent' <=>
         /\ semEmpty' + semFull' + Uh' + Ph' = QUEUE_SIZE
         /\ count' = semFull' + Up' + Pw'
         /\ \/ tail' = head' + (count' + Uc' - Pc')
            \/ tail' = head' + (count' + Uc' - Pc') - QUEUE_SIZE
  BY DEF RingConsistent, PlacesConserved, CountAgrees, RingAgrees, Uh, Up, Uc, Ph, Pw, Pc

\* What each step of a user does to the head counts.
LEMMA UserCounts ==
    ASSUME PcFun, NEW u \in Users
    PROVE  /\ MakeTask(u) => Uh' = Uh /\ Up' = Up /\ Uc' = Uc
           /\ WaitEmpty(u) => Uh' = Uh + 1 /\ Up' = Up /\ Uc' = Uc
           /\ LockQueue(u) => Uh' = Uh /\ Up' = Up /\ Uc' = Uc
           /\ PutTask(u) => Uh' = Uh /\ Up' = Up /\ Uc' = Uc
           /\ AdvanceTail(u) => Uh' = Uh /\ Up' = Up /\ Uc' = Uc + 1
           /\ IncCount(u) => Uh' = Uh /\ Up' = Up + 1 /\ Uc' = Uc - 1
           /\ UnlockQueue(u) => Uh' = Uh /\ Up' = Up /\ Uc' = Uc
           /\ PostFull(u) => Uh' = Uh - 1 /\ Up' = Up - 1 /\ Uc' = Uc
           /\ User(u) => Ph' = Ph /\ Pw' = Pw /\ Pc' = Pc
<1>1. ASSUME MakeTask(u)
     PROVE  Uh' = Uh /\ Up' = Up /\ Uc' = Uc /\ Ph' = Ph /\ Pw' = Pw /\ Pc' = Pc
  <2>1. Goto(u, "make", "waitEmpty")
    BY <1>1, PrintQueueAssumption DEF MakeTask
  <2> QED
    BY <2>1, UserMoves, CountsOrdered DEF One, UserHolds, PrinterHolds, Uh, Up, Uc, Ph, Pw, Pc
<1>2. ASSUME WaitEmpty(u)
     PROVE  Uh' = Uh + 1 /\ Up' = Up /\ Uc' = Uc /\ Ph' = Ph /\ Pw' = Pw /\ Pc' = Pc
  <2>1. Goto(u, "waitEmpty", "waitQueue")
    BY <1>2, PrintQueueAssumption DEF WaitEmpty
  <2> QED
    BY <2>1, UserMoves, CountsOrdered DEF One, UserHolds, PrinterHolds, Uh, Up, Uc, Ph, Pw, Pc
<1>3. ASSUME LockQueue(u)
     PROVE  Uh' = Uh /\ Up' = Up /\ Uc' = Uc /\ Ph' = Ph /\ Pw' = Pw /\ Pc' = Pc
  <2>1. Goto(u, "waitQueue", "copy")
    BY <1>3, PrintQueueAssumption DEF LockQueue
  <2> QED
    BY <2>1, UserMoves, CountsOrdered DEF One, UserHolds, PrinterHolds, Uh, Up, Uc, Ph, Pw, Pc
<1>4. ASSUME PutTask(u)
     PROVE  Uh' = Uh /\ Up' = Up /\ Uc' = Uc /\ Ph' = Ph /\ Pw' = Pw /\ Pc' = Pc
  <2>1. Goto(u, "copy", "tail")
    BY <1>4, PrintQueueAssumption DEF PutTask
  <2> QED
    BY <2>1, UserMoves, CountsOrdered DEF One, UserHolds, PrinterHolds, Uh, Up, Uc, Ph, Pw, Pc
<1>5. ASSUME AdvanceTail(u)
     PROVE  Uh' = Uh /\ Up' = Up /\ Uc' = Uc + 1 /\ Ph' = Ph /\ Pw' = Pw /\ Pc' = Pc
  <2>1. Goto(u, "tail", "count")
    BY <1>5, PrintQueueAssumption DEF AdvanceTail
  <2> QED
    BY <2>1, UserMoves, CountsOrdered DEF One, UserHolds, PrinterHolds, Uh, Up, Uc, Ph, Pw, Pc
<1>6. ASSUME IncCount(u)
     PROVE  Uh' = Uh /\ Up' = Up + 1 /\ Uc' = Uc - 1 /\ Ph' = Ph /\ Pw' = Pw /\ Pc' = Pc
  <2>1. Goto(u, "count", "postQueue")
    BY <1>6, PrintQueueAssumption DEF IncCount
  <2> QED
    BY <2>1, UserMoves, CountsOrdered DEF One, UserHolds, PrinterHolds, Uh, Up, Uc, Ph, Pw, Pc
<1>7. ASSUME UnlockQueue(u)
     PROVE  Uh' = Uh /\ Up' = Up /\ Uc' = Uc /\ Ph' = Ph /\ Pw' = Pw /\ Pc' = Pc
  <2>1. Goto(u, "postQueue", "postFull")
    BY <1>7, PrintQueueAssumption DEF UnlockQueue
  <2> QED
    BY <2>1, UserMoves, CountsOrdered DEF One, UserHolds, PrinterHolds, Uh, Up, Uc, Ph, Pw, Pc
<1>8. ASSUME PostFull(u)
     PROVE  Uh' = Uh - 1 /\ Up' = Up - 1 /\ Uc' = Uc /\ Ph' = Ph /\ Pw' = Pw /\ Pc' = Pc
  <2>1. Goto(u, "postFull", "make")
    BY <1>8, PrintQueueAssumption DEF PostFull
  <2> QED
    BY <2>1, UserMoves, CountsOrdered DEF One, UserHolds, PrinterHolds, Uh, Up, Uc, Ph, Pw, Pc
<1> QED
  BY <1>1, <1>2, <1>3, <1>4, <1>5, <1>6, <1>7, <1>8 DEF User

\* What each step of a printer does to the head counts.
LEMMA PrinterCounts ==
    ASSUME PcFun, NEW p \in Printers
    PROVE  /\ WaitFull(p) => Ph' = Ph + 1 /\ Pw' = Pw + 1 /\ Pc' = Pc
           /\ LockQueue(p) => Ph' = Ph /\ Pw' = Pw /\ Pc' = Pc
           /\ TakeTask(p) => Ph' = Ph /\ Pw' = Pw /\ Pc' = Pc
           /\ AdvanceHead(p) => Ph' = Ph /\ Pw' = Pw /\ Pc' = Pc + 1
           /\ DecCount(p) => Ph' = Ph /\ Pw' = Pw - 1 /\ Pc' = Pc - 1
           /\ UnlockQueue(p) => Ph' = Ph /\ Pw' = Pw /\ Pc' = Pc
           /\ PostEmpty(p) => Ph' = Ph - 1 /\ Pw' = Pw /\ Pc' = Pc
           /\ PrintTask(p) => Ph' = Ph /\ Pw' = Pw /\ Pc' = Pc
           /\ Printer(p) => Uh' = Uh /\ Up' = Up /\ Uc' = Uc
<1>1. ASSUME WaitFull(p)
     PROVE  Ph' = Ph + 1 /\ Pw' = Pw + 1 /\ Pc' = Pc /\ Uh' = Uh /\ Up' = Up /\ Uc' = Uc
  <2>1. Goto(p, "waitFull", "waitQueue")
    BY <1>1, PrintQueueAssumption DEF WaitFull
  <2> QED
    BY <2>1, PrinterMoves, CountsOrdered DEF One, UserHolds, PrinterHolds, Uh, Up, Uc, Ph, Pw, Pc
<1>2. ASSUME LockQueue(p)
     PROVE  Ph' = Ph /\ Pw' = Pw /\ Pc' = Pc /\ Uh' = Uh /\ Up' = Up /\ Uc' = Uc
  <2>1. Goto(p, "waitQueue", "copy")
    BY <1>2, PrintQueueAssumption DEF LockQueue
  <2> QED
    BY <2>1, PrinterMoves, CountsOrdered DEF One, UserHolds, PrinterHolds, Uh, Up, Uc, Ph, Pw, Pc
<1>3. ASSUME TakeTask(p)
     PROVE  Ph' = Ph /\ Pw' = Pw /\ Pc' = Pc /\ Uh' = Uh /\ Up' = Up /\ Uc' = Uc
  <2>1. Goto(p, "copy", "head")
    BY <1>3, PrintQueueAssumption DEF TakeTask
  <2> QED
    BY <2>1, PrinterMoves, CountsOrdered DEF One, UserHolds, PrinterHolds, Uh, Up, Uc, Ph, Pw, Pc
<1>4. ASSUME AdvanceHead(p)
     PROVE  Ph' = Ph /\ Pw' = Pw /\ Pc' = Pc + 1 /\ Uh' = Uh /\ Up' = Up /\ Uc' = Uc
  <2>1. Goto(p, "head", "count")
    BY <1>4, PrintQueueAssumption DEF AdvanceHead
  <2> QED
    BY <2>1, PrinterMoves, CountsOrdered DEF One, UserHolds, PrinterHolds, Uh, Up, Uc, Ph, Pw, Pc
<1>5. ASSUME DecCount(p)
     PROVE  Ph' = Ph /\ Pw' = Pw - 1 /\ Pc' = Pc - 1 /\ Uh' = Uh /\ Up' = Up /\ Uc' = Uc
  <2>1. Goto(p, "count", "postQueue")
    BY <1>5, PrintQueueAssumption DEF DecCount
  <2> QED
    BY <2>1, PrinterMoves, CountsOrdered DEF One, UserHolds, PrinterHolds, Uh, Up, Uc, Ph, Pw, Pc
<1>6. ASSUME UnlockQueue(p)
     PROVE  Ph' = Ph /\ Pw' = Pw /\ Pc' = Pc /\ Uh' = Uh /\ Up' = Up /\ Uc' = Uc
  <2>1. Goto(p, "postQueue", "postEmpty")
    BY <1>6, PrintQueueAssumption DEF UnlockQueue
  <2> QED
    BY <2>1, PrinterMoves, CountsOrdered DEF One, UserHolds, PrinterHolds, Uh, Up, Uc, Ph, Pw, Pc
<1>7. ASSUME PostEmpty(p)
     PROVE  Ph' = Ph - 1 /\ Pw' = Pw /\ Pc' = Pc /\ Uh' = Uh /\ Up' = Up /\ Uc' = Uc
  <2>1. Goto(p, "postEmpty", "print")
    BY <1>7, PrintQueueAssumption DEF PostEmpty
  <2> QED
    BY <2>1, PrinterMoves, CountsOrdered DEF One, UserHolds, PrinterHolds, Uh, Up, Uc, Ph, Pw, Pc
<1>8. ASSUME PrintTask(p)
     PROVE  Ph' = Ph /\ Pw' = Pw /\ Pc' = Pc /\ Uh' = Uh /\ Up' = Up /\ Uc' = Uc
  <2>1. Goto(p, "print", "waitFull")
    BY <1>8, PrintQueueAssumption DEF PrintTask
  <2> QED
    BY <2>1, PrinterMoves, CountsOrdered DEF One, UserHolds, PrinterHolds, Uh, Up, Uc, Ph, Pw, Pc
<1> QED
  BY <1>1, <1>2, <1>3, <1>4, <1>5, <1>6, <1>7, <1>8 DEF Printer

\* The bounds of the head counts, in the next state.
LEMMA CountsOrderedNext ==
    /\ Uh' \in Nat /\ Up' \in Nat /\ Ph' \in Nat /\ Pw' \in Nat
    /\ Up' <= Uh' /\ Pw' <= Ph'
<1>1. /\ {"postQueue", "postFull"} \subseteq UserHolds
      /\ {"waitQueue", "copy", "head", "count"} \subseteq PrinterHolds
  BY DEF UserHolds, PrinterHolds
<1>2. IsFiniteSet(Users) /\ IsFiniteSet(Printers)
  BY PrintQueueAssumption
<1>3. Uh' \in Nat /\ Up' \in Nat /\ Up' <= Uh'
  BY <1>1, <1>2, HeadCountMono, AtHaving DEF Uh, Up
<1>4. Ph' \in Nat /\ Pw' \in Nat /\ Pw' <= Ph'
  BY <1>1, <1>2, HeadCountMono, AtHaving DEF Ph, Pw
<1> QED
  BY <1>3, <1>4

\* The arithmetic of the bounds.
LEMMA SumBounds ==
    ASSUME NEW size \in Nat, NEW empty \in Nat, NEW full \in Nat,
           NEW uh \in Nat, NEW up \in Nat, NEW ph \in Nat, NEW pw \in Nat,
           empty + full + uh + ph = size, up <= uh, pw <= ph
    PROVE  empty <= size /\ full <= size /\ full + up + pw \in 0 .. size
  OBVIOUS

\* What is left to show of a step once the equations hold after it: the
\* equations bound the semaphores and count by the size of the ring.
LEMMA StepInv ==
    ASSUME PcOK', MutualExclusion', semQueue' \in 0 .. 1,
           semEmpty' \in Nat, semFull' \in Nat, head' \in Slots, tail' \in Slots,
           semEmpty' + semFull' + Uh' + Ph' = QUEUE_SIZE,
           count' = semFull' + Up' + Pw',
           \/ tail' = head' + (count' + Uc' - Pc')
           \/ tail' = head' + (count' + Uc' - Pc') - QUEUE_SIZE,
           queue' \in [Slots -> Tasks \cup {Blank}],
           task' \in [Processes -> Tasks \cup {Blank}]
    PROVE  IInv'
<1>1. RingConsistent'
  BY RingEquations
<1>2. QUEUE_SIZE \in Nat
  BY PrintQueueAssumption
<1>3. /\ Uh' \in Nat /\ Up' \in Nat /\ Ph' \in Nat /\ Pw' \in Nat
      /\ Up' <= Uh' /\ Pw' <= Ph'
  BY CountsOrderedNext
<1>4. semEmpty' <= QUEUE_SIZE /\ semFull' <= QUEUE_SIZE /\ count' \in 0 .. QUEUE_SIZE
  BY <1>2, <1>3, SumBounds
<1> QED
  BY <1>1, <1>2, <1>4 DEF IInv, TypeOK, PcOK

-----------------------------------------------------------------------------
(***************************************************************************)
(* The induction step, one action at a time.                               *)
(***************************************************************************)
\* A step of a user keeps the inductive invariant.
LEMMA UserStep ==
    ASSUME IInv, NEW u \in Users, User(u)
    PROVE  IInv'
<1>a. TypeOK /\ MutualExclusion /\ PcOK /\ PcFun /\ u \in Processes /\ QUEUE_SIZE \in Nat \ {0}
  BY TypePc, PrintQueueAssumption DEF IInv, Processes
<1>b. /\ semEmpty + semFull + Uh + Ph = QUEUE_SIZE
      /\ count = semFull + Up + Pw
      /\ \/ tail = head + (count + Uc - Pc)
         \/ tail = head + (count + Uc - Pc) - QUEUE_SIZE
  BY RingEquations DEF IInv
<1>c. /\ semQueue \in 0 .. 1 /\ semEmpty \in Nat /\ semFull \in Nat /\ count \in Nat
      /\ head \in 0 .. QUEUE_SIZE - 1 /\ tail \in 0 .. QUEUE_SIZE - 1
  BY <1>a DEF TypeOK, Slots
<1>d. /\ Uh \in Nat /\ Up \in Nat /\ Uc \in Nat /\ Ph \in Nat /\ Pw \in Nat /\ Pc \in Nat
      /\ Up <= Uh /\ Pw <= Ph /\ Pc <= Pw
  BY CountsOrdered
<1>1. CASE MakeTask(u)
  <2>1. Goto(u, "make", "waitEmpty") /\ pc[u] = "make"
    BY <1>1 DEF MakeTask, Goto
  <2>2. PcOK'
    BY <1>a, <2>1, PcTyped, PrintQueueAssumption DEF UserPc, PrinterPc
  <2>3. Uh' = Uh /\ Up' = Up /\ Uc' = Uc /\ Ph' = Ph /\ Pw' = Pw /\ Pc' = Pc
    BY <1>a, <1>1, UserCounts DEF User
  <2>4. MutualExclusion' /\ semQueue' \in 0 .. 1
    <3>1. semQueue' = semQueue
      BY <1>1 DEF MakeTask, sems
    <3> QED
      BY <1>a, <1>c, <2>1, <3>1, MutexKept DEF CriticalPc
  <2>5. /\ semEmpty' = semEmpty /\ semFull' = semFull /\ count' = count
        /\ head' = head /\ tail' = tail
    BY <1>1 DEF MakeTask, shm, sems
  <2>7. /\ semEmpty' \in Nat /\ semFull' \in Nat
        /\ head' \in 0 .. QUEUE_SIZE - 1 /\ tail' \in 0 .. QUEUE_SIZE - 1
        /\ semEmpty' + semFull' + Uh' + Ph' = QUEUE_SIZE
        /\ count' = semFull' + Up' + Pw'
        /\ \/ tail' = head' + (count' + Uc' - Pc')
           \/ tail' = head' + (count' + Uc' - Pc') - QUEUE_SIZE
    BY <1>a, <1>b, <1>c, <1>d, <2>3, <2>5
  <2>8. queue' \in [Slots -> Tasks \cup {Blank}] /\ task' \in [Processes -> Tasks \cup {Blank}]
    BY <1>a, <1>1 DEF MakeTask, TypeOK, shm, sems
  <2> QED
    BY <2>2, <2>4, <2>7, <2>8, StepInv DEF Slots
<1>2. CASE WaitEmpty(u)
  <2>1. Goto(u, "waitEmpty", "waitQueue") /\ pc[u] = "waitEmpty"
    BY <1>2 DEF WaitEmpty, Goto
  <2>2. PcOK'
    BY <1>a, <2>1, PcTyped, PrintQueueAssumption DEF UserPc, PrinterPc
  <2>3. Uh' = Uh + 1 /\ Up' = Up /\ Uc' = Uc /\ Ph' = Ph /\ Pw' = Pw /\ Pc' = Pc
    BY <1>a, <1>2, UserCounts DEF User
  <2>4. MutualExclusion' /\ semQueue' \in 0 .. 1
    <3>1. semQueue' = semQueue
      BY <1>2 DEF WaitEmpty, sems
    <3> QED
      BY <1>a, <1>c, <2>1, <3>1, MutexKept DEF CriticalPc
  <2>5. /\ semEmpty' = semEmpty - 1 /\ semFull' = semFull /\ count' = count
        /\ head' = head /\ tail' = tail /\ semEmpty > 0
    BY <1>2 DEF WaitEmpty, shm, sems
  <2>7. /\ semEmpty' \in Nat /\ semFull' \in Nat
        /\ head' \in 0 .. QUEUE_SIZE - 1 /\ tail' \in 0 .. QUEUE_SIZE - 1
        /\ semEmpty' + semFull' + Uh' + Ph' = QUEUE_SIZE
        /\ count' = semFull' + Up' + Pw'
        /\ \/ tail' = head' + (count' + Uc' - Pc')
           \/ tail' = head' + (count' + Uc' - Pc') - QUEUE_SIZE
    BY <1>a, <1>b, <1>c, <1>d, <2>3, <2>5
  <2>8. queue' \in [Slots -> Tasks \cup {Blank}] /\ task' \in [Processes -> Tasks \cup {Blank}]
    BY <1>a, <1>2 DEF WaitEmpty, TypeOK, shm, sems
  <2> QED
    BY <2>2, <2>4, <2>7, <2>8, StepInv DEF Slots
<1>3. CASE LockQueue(u)
  <2>1. Goto(u, "waitQueue", "copy") /\ pc[u] = "waitQueue"
    BY <1>3 DEF LockQueue, Goto
  <2>2. PcOK'
    BY <1>a, <2>1, PcTyped, PrintQueueAssumption DEF UserPc, PrinterPc
  <2>3. Uh' = Uh /\ Up' = Up /\ Uc' = Uc /\ Ph' = Ph /\ Pw' = Pw /\ Pc' = Pc
    BY <1>a, <1>3, UserCounts DEF User
  <2>4. MutualExclusion' /\ semQueue' \in 0 .. 1
    BY <1>a, <1>3, LockMutex
  <2>5. /\ semEmpty' = semEmpty /\ semFull' = semFull /\ count' = count
        /\ head' = head /\ tail' = tail
    BY <1>3 DEF LockQueue, shm, sems
  <2>7. /\ semEmpty' \in Nat /\ semFull' \in Nat
        /\ head' \in 0 .. QUEUE_SIZE - 1 /\ tail' \in 0 .. QUEUE_SIZE - 1
        /\ semEmpty' + semFull' + Uh' + Ph' = QUEUE_SIZE
        /\ count' = semFull' + Up' + Pw'
        /\ \/ tail' = head' + (count' + Uc' - Pc')
           \/ tail' = head' + (count' + Uc' - Pc') - QUEUE_SIZE
    BY <1>a, <1>b, <1>c, <1>d, <2>3, <2>5
  <2>8. queue' \in [Slots -> Tasks \cup {Blank}] /\ task' \in [Processes -> Tasks \cup {Blank}]
    BY <1>a, <1>3 DEF LockQueue, TypeOK, shm, sems
  <2> QED
    BY <2>2, <2>4, <2>7, <2>8, StepInv DEF Slots
<1>4. CASE PutTask(u)
  <2>1. Goto(u, "copy", "tail") /\ pc[u] = "copy"
    BY <1>4 DEF PutTask, Goto
  <2>2. PcOK'
    BY <1>a, <2>1, PcTyped, PrintQueueAssumption DEF UserPc, PrinterPc
  <2>3. Uh' = Uh /\ Up' = Up /\ Uc' = Uc /\ Ph' = Ph /\ Pw' = Pw /\ Pc' = Pc
    BY <1>a, <1>4, UserCounts DEF User
  <2>4. MutualExclusion' /\ semQueue' \in 0 .. 1
    <3>1. semQueue' = semQueue
      BY <1>4 DEF PutTask, sems
    <3> QED
      BY <1>a, <1>c, <2>1, <3>1, MutexKept DEF CriticalPc
  <2>5. /\ semEmpty' = semEmpty /\ semFull' = semFull /\ count' = count
        /\ head' = head /\ tail' = tail
    BY <1>4 DEF PutTask, shm, sems
  <2>7. /\ semEmpty' \in Nat /\ semFull' \in Nat
        /\ head' \in 0 .. QUEUE_SIZE - 1 /\ tail' \in 0 .. QUEUE_SIZE - 1
        /\ semEmpty' + semFull' + Uh' + Ph' = QUEUE_SIZE
        /\ count' = semFull' + Up' + Pw'
        /\ \/ tail' = head' + (count' + Uc' - Pc')
           \/ tail' = head' + (count' + Uc' - Pc') - QUEUE_SIZE
    BY <1>a, <1>b, <1>c, <1>d, <2>3, <2>5
  <2>8. queue' \in [Slots -> Tasks \cup {Blank}] /\ task' \in [Processes -> Tasks \cup {Blank}]
    BY <1>a, <1>4 DEF PutTask, TypeOK, shm, sems
  <2> QED
    BY <2>2, <2>4, <2>7, <2>8, StepInv DEF Slots
<1>5. CASE AdvanceTail(u)
  <2>1. Goto(u, "tail", "count") /\ pc[u] = "tail"
    BY <1>5 DEF AdvanceTail, Goto
  <2>2. PcOK'
    BY <1>a, <2>1, PcTyped, PrintQueueAssumption DEF UserPc, PrinterPc
  <2>3. Uh' = Uh /\ Up' = Up /\ Uc' = Uc + 1 /\ Ph' = Ph /\ Pw' = Pw /\ Pc' = Pc
    BY <1>a, <1>5, UserCounts DEF User
  <2>4. MutualExclusion' /\ semQueue' \in 0 .. 1
    <3>1. semQueue' = semQueue
      BY <1>5 DEF AdvanceTail, sems
    <3> QED
      BY <1>a, <1>c, <2>1, <3>1, MutexKept DEF CriticalPc
  <2>5. /\ semEmpty' = semEmpty /\ semFull' = semFull /\ count' = count /\ head' = head
        /\ tail' = IF tail = QUEUE_SIZE - 1 THEN 0 ELSE tail + 1
    BY <1>c, <1>5, NextSlotValue DEF AdvanceTail, Slots, sems
  <2>6. Uc = 0 /\ Pc = 0 /\ Up + 1 <= Uh
    BY <1>a, <2>1, NobodyCounts, CountsOrdered DEF InCritical
  <2>7. /\ semEmpty' \in Nat /\ semFull' \in Nat
        /\ head' \in 0 .. QUEUE_SIZE - 1 /\ tail' \in 0 .. QUEUE_SIZE - 1
        /\ semEmpty' + semFull' + Uh' + Ph' = QUEUE_SIZE
        /\ count' = semFull' + Up' + Pw'
        /\ \/ tail' = head' + (count' + Uc' - Pc')
           \/ tail' = head' + (count' + Uc' - Pc') - QUEUE_SIZE
    BY <1>a, <1>b, <1>c, <1>d, <2>3, <2>5, <2>6
  <2>8. queue' \in [Slots -> Tasks \cup {Blank}] /\ task' \in [Processes -> Tasks \cup {Blank}]
    BY <1>a, <1>5 DEF AdvanceTail, TypeOK, shm, sems
  <2> QED
    BY <2>2, <2>4, <2>7, <2>8, StepInv DEF Slots
<1>6. CASE IncCount(u)
  <2>1. Goto(u, "count", "postQueue") /\ pc[u] = "count"
    BY <1>6 DEF IncCount, Goto
  <2>2. PcOK'
    BY <1>a, <2>1, PcTyped, PrintQueueAssumption DEF UserPc, PrinterPc
  <2>3. Uh' = Uh /\ Up' = Up + 1 /\ Uc' = Uc - 1 /\ Ph' = Ph /\ Pw' = Pw /\ Pc' = Pc
    BY <1>a, <1>6, UserCounts DEF User
  <2>4. MutualExclusion' /\ semQueue' \in 0 .. 1
    <3>1. semQueue' = semQueue
      BY <1>6 DEF IncCount, sems
    <3> QED
      BY <1>a, <1>c, <2>1, <3>1, MutexKept DEF CriticalPc
  <2>5. /\ semEmpty' = semEmpty /\ semFull' = semFull /\ count' = count + 1
        /\ head' = head /\ tail' = tail
    BY <1>6 DEF IncCount, shm, sems
  <2>7. /\ semEmpty' \in Nat /\ semFull' \in Nat
        /\ head' \in 0 .. QUEUE_SIZE - 1 /\ tail' \in 0 .. QUEUE_SIZE - 1
        /\ semEmpty' + semFull' + Uh' + Ph' = QUEUE_SIZE
        /\ count' = semFull' + Up' + Pw'
        /\ \/ tail' = head' + (count' + Uc' - Pc')
           \/ tail' = head' + (count' + Uc' - Pc') - QUEUE_SIZE
    BY <1>a, <1>b, <1>c, <1>d, <2>3, <2>5
  <2>8. queue' \in [Slots -> Tasks \cup {Blank}] /\ task' \in [Processes -> Tasks \cup {Blank}]
    BY <1>a, <1>6 DEF IncCount, TypeOK, shm, sems
  <2> QED
    BY <2>2, <2>4, <2>7, <2>8, StepInv DEF Slots
<1>7. CASE UnlockQueue(u)
  <2>1. Goto(u, "postQueue", "postFull") /\ pc[u] = "postQueue"
    BY <1>7, PrintQueueAssumption DEF UnlockQueue, Goto
  <2>2. PcOK'
    BY <1>a, <2>1, PcTyped, PrintQueueAssumption DEF UserPc, PrinterPc
  <2>3. Uh' = Uh /\ Up' = Up /\ Uc' = Uc /\ Ph' = Ph /\ Pw' = Pw /\ Pc' = Pc
    BY <1>a, <1>7, UserCounts DEF User
  <2>4. MutualExclusion' /\ semQueue' \in 0 .. 1
    BY <1>a, <1>7, UnlockMutex
  <2>5. /\ semEmpty' = semEmpty /\ semFull' = semFull /\ count' = count
        /\ head' = head /\ tail' = tail
    BY <1>7 DEF UnlockQueue, shm, sems
  <2>7. /\ semEmpty' \in Nat /\ semFull' \in Nat
        /\ head' \in 0 .. QUEUE_SIZE - 1 /\ tail' \in 0 .. QUEUE_SIZE - 1
        /\ semEmpty' + semFull' + Uh' + Ph' = QUEUE_SIZE
        /\ count' = semFull' + Up' + Pw'
        /\ \/ tail' = head' + (count' + Uc' - Pc')
           \/ tail' = head' + (count' + Uc' - Pc') - QUEUE_SIZE
    BY <1>a, <1>b, <1>c, <1>d, <2>3, <2>5
  <2>8. queue' \in [Slots -> Tasks \cup {Blank}] /\ task' \in [Processes -> Tasks \cup {Blank}]
    BY <1>a, <1>7 DEF UnlockQueue, TypeOK, shm, sems
  <2> QED
    BY <2>2, <2>4, <2>7, <2>8, StepInv DEF Slots
<1>8. CASE PostFull(u)
  <2>1. Goto(u, "postFull", "make") /\ pc[u] = "postFull"
    BY <1>8 DEF PostFull, Goto
  <2>2. PcOK'
    BY <1>a, <2>1, PcTyped, PrintQueueAssumption DEF UserPc, PrinterPc
  <2>3. Uh' = Uh - 1 /\ Up' = Up - 1 /\ Uc' = Uc /\ Ph' = Ph /\ Pw' = Pw /\ Pc' = Pc
    BY <1>a, <1>8, UserCounts DEF User
  <2>4. MutualExclusion' /\ semQueue' \in 0 .. 1
    <3>1. semQueue' = semQueue
      BY <1>8 DEF PostFull, sems
    <3> QED
      BY <1>a, <1>c, <2>1, <3>1, MutexKept DEF CriticalPc
  <2>5. /\ semEmpty' = semEmpty /\ semFull' = semFull + 1 /\ count' = count
        /\ head' = head /\ tail' = tail
    BY <1>8 DEF PostFull, shm, sems
  <2>7. /\ semEmpty' \in Nat /\ semFull' \in Nat
        /\ head' \in 0 .. QUEUE_SIZE - 1 /\ tail' \in 0 .. QUEUE_SIZE - 1
        /\ semEmpty' + semFull' + Uh' + Ph' = QUEUE_SIZE
        /\ count' = semFull' + Up' + Pw'
        /\ \/ tail' = head' + (count' + Uc' - Pc')
           \/ tail' = head' + (count' + Uc' - Pc') - QUEUE_SIZE
    BY <1>a, <1>b, <1>c, <1>d, <2>3, <2>5
  <2>8. queue' \in [Slots -> Tasks \cup {Blank}] /\ task' \in [Processes -> Tasks \cup {Blank}]
    BY <1>a, <1>8 DEF PostFull, TypeOK, shm, sems
  <2> QED
    BY <2>2, <2>4, <2>7, <2>8, StepInv DEF Slots
<1> QED
  BY <1>1, <1>2, <1>3, <1>4, <1>5, <1>6, <1>7, <1>8 DEF User

\* A step of a printer keeps the inductive invariant.
LEMMA PrinterStep ==
    ASSUME IInv, NEW p \in Printers, Printer(p)
    PROVE  IInv'
<1>a. TypeOK /\ MutualExclusion /\ PcOK /\ PcFun /\ p \in Processes /\ QUEUE_SIZE \in Nat \ {0}
  BY TypePc, PrintQueueAssumption DEF IInv, Processes
<1>b. /\ semEmpty + semFull + Uh + Ph = QUEUE_SIZE
      /\ count = semFull + Up + Pw
      /\ \/ tail = head + (count + Uc - Pc)
         \/ tail = head + (count + Uc - Pc) - QUEUE_SIZE
  BY RingEquations DEF IInv
<1>c. /\ semQueue \in 0 .. 1 /\ semEmpty \in Nat /\ semFull \in Nat /\ count \in Nat
      /\ head \in 0 .. QUEUE_SIZE - 1 /\ tail \in 0 .. QUEUE_SIZE - 1
  BY <1>a DEF TypeOK, Slots
<1>d. /\ Uh \in Nat /\ Up \in Nat /\ Uc \in Nat /\ Ph \in Nat /\ Pw \in Nat /\ Pc \in Nat
      /\ Up <= Uh /\ Pw <= Ph /\ Pc <= Pw
  BY CountsOrdered
<1>1. CASE WaitFull(p)
  <2>1. Goto(p, "waitFull", "waitQueue") /\ pc[p] = "waitFull"
    BY <1>1 DEF WaitFull, Goto
  <2>2. PcOK'
    BY <1>a, <2>1, PcTyped, PrintQueueAssumption DEF UserPc, PrinterPc
  <2>3. Ph' = Ph + 1 /\ Pw' = Pw + 1 /\ Pc' = Pc /\ Uh' = Uh /\ Up' = Up /\ Uc' = Uc
    BY <1>a, <1>1, PrinterCounts DEF Printer
  <2>4. MutualExclusion' /\ semQueue' \in 0 .. 1
    <3>1. semQueue' = semQueue
      BY <1>1 DEF WaitFull, sems
    <3> QED
      BY <1>a, <1>c, <2>1, <3>1, MutexKept DEF CriticalPc
  <2>5. /\ semEmpty' = semEmpty /\ semFull' = semFull - 1 /\ count' = count
        /\ head' = head /\ tail' = tail /\ semFull > 0
    BY <1>1 DEF WaitFull, shm, sems
  <2>7. /\ semEmpty' \in Nat /\ semFull' \in Nat
        /\ head' \in 0 .. QUEUE_SIZE - 1 /\ tail' \in 0 .. QUEUE_SIZE - 1
        /\ semEmpty' + semFull' + Uh' + Ph' = QUEUE_SIZE
        /\ count' = semFull' + Up' + Pw'
        /\ \/ tail' = head' + (count' + Uc' - Pc')
           \/ tail' = head' + (count' + Uc' - Pc') - QUEUE_SIZE
    BY <1>a, <1>b, <1>c, <1>d, <2>3, <2>5
  <2>8. queue' \in [Slots -> Tasks \cup {Blank}] /\ task' \in [Processes -> Tasks \cup {Blank}]
    BY <1>a, <1>1 DEF WaitFull, TypeOK, shm, sems
  <2> QED
    BY <2>2, <2>4, <2>7, <2>8, StepInv DEF Slots
<1>2. CASE LockQueue(p)
  <2>1. Goto(p, "waitQueue", "copy") /\ pc[p] = "waitQueue"
    BY <1>2 DEF LockQueue, Goto
  <2>2. PcOK'
    BY <1>a, <2>1, PcTyped, PrintQueueAssumption DEF UserPc, PrinterPc
  <2>3. Ph' = Ph /\ Pw' = Pw /\ Pc' = Pc /\ Uh' = Uh /\ Up' = Up /\ Uc' = Uc
    BY <1>a, <1>2, PrinterCounts DEF Printer
  <2>4. MutualExclusion' /\ semQueue' \in 0 .. 1
    BY <1>a, <1>2, LockMutex
  <2>5. /\ semEmpty' = semEmpty /\ semFull' = semFull /\ count' = count
        /\ head' = head /\ tail' = tail
    BY <1>2 DEF LockQueue, shm, sems
  <2>7. /\ semEmpty' \in Nat /\ semFull' \in Nat
        /\ head' \in 0 .. QUEUE_SIZE - 1 /\ tail' \in 0 .. QUEUE_SIZE - 1
        /\ semEmpty' + semFull' + Uh' + Ph' = QUEUE_SIZE
        /\ count' = semFull' + Up' + Pw'
        /\ \/ tail' = head' + (count' + Uc' - Pc')
           \/ tail' = head' + (count' + Uc' - Pc') - QUEUE_SIZE
    BY <1>a, <1>b, <1>c, <1>d, <2>3, <2>5
  <2>8. queue' \in [Slots -> Tasks \cup {Blank}] /\ task' \in [Processes -> Tasks \cup {Blank}]
    BY <1>a, <1>2 DEF LockQueue, TypeOK, shm, sems
  <2> QED
    BY <2>2, <2>4, <2>7, <2>8, StepInv DEF Slots
<1>3. CASE TakeTask(p)
  <2>1. Goto(p, "copy", "head") /\ pc[p] = "copy"
    BY <1>3 DEF TakeTask, Goto
  <2>2. PcOK'
    BY <1>a, <2>1, PcTyped, PrintQueueAssumption DEF UserPc, PrinterPc
  <2>3. Ph' = Ph /\ Pw' = Pw /\ Pc' = Pc /\ Uh' = Uh /\ Up' = Up /\ Uc' = Uc
    BY <1>a, <1>3, PrinterCounts DEF Printer
  <2>4. MutualExclusion' /\ semQueue' \in 0 .. 1
    <3>1. semQueue' = semQueue
      BY <1>3 DEF TakeTask, sems
    <3> QED
      BY <1>a, <1>c, <2>1, <3>1, MutexKept DEF CriticalPc
  <2>5. /\ semEmpty' = semEmpty /\ semFull' = semFull /\ count' = count
        /\ head' = head /\ tail' = tail
    BY <1>3 DEF TakeTask, shm, sems
  <2>7. /\ semEmpty' \in Nat /\ semFull' \in Nat
        /\ head' \in 0 .. QUEUE_SIZE - 1 /\ tail' \in 0 .. QUEUE_SIZE - 1
        /\ semEmpty' + semFull' + Uh' + Ph' = QUEUE_SIZE
        /\ count' = semFull' + Up' + Pw'
        /\ \/ tail' = head' + (count' + Uc' - Pc')
           \/ tail' = head' + (count' + Uc' - Pc') - QUEUE_SIZE
    BY <1>a, <1>b, <1>c, <1>d, <2>3, <2>5
  <2>8. queue' \in [Slots -> Tasks \cup {Blank}] /\ task' \in [Processes -> Tasks \cup {Blank}]
    BY <1>a, <1>3 DEF TakeTask, TypeOK, shm, sems
  <2> QED
    BY <2>2, <2>4, <2>7, <2>8, StepInv DEF Slots
<1>4. CASE AdvanceHead(p)
  <2>1. Goto(p, "head", "count") /\ pc[p] = "head"
    BY <1>4 DEF AdvanceHead, Goto
  <2>2. PcOK'
    BY <1>a, <2>1, PcTyped, PrintQueueAssumption DEF UserPc, PrinterPc
  <2>3. Ph' = Ph /\ Pw' = Pw /\ Pc' = Pc + 1 /\ Uh' = Uh /\ Up' = Up /\ Uc' = Uc
    BY <1>a, <1>4, PrinterCounts DEF Printer
  <2>4. MutualExclusion' /\ semQueue' \in 0 .. 1
    <3>1. semQueue' = semQueue
      BY <1>4 DEF AdvanceHead, sems
    <3> QED
      BY <1>a, <1>c, <2>1, <3>1, MutexKept DEF CriticalPc
  <2>5. /\ semEmpty' = semEmpty /\ semFull' = semFull /\ count' = count /\ tail' = tail
        /\ head' = IF head = QUEUE_SIZE - 1 THEN 0 ELSE head + 1
    BY <1>c, <1>4, NextSlotValue DEF AdvanceHead, Slots, sems
  <2>6. Uc = 0 /\ Pc = 0 /\ Pc + 1 <= Pw
    BY <1>a, <2>1, NobodyCounts, CountsOrdered DEF InCritical
  <2>7. /\ semEmpty' \in Nat /\ semFull' \in Nat
        /\ head' \in 0 .. QUEUE_SIZE - 1 /\ tail' \in 0 .. QUEUE_SIZE - 1
        /\ semEmpty' + semFull' + Uh' + Ph' = QUEUE_SIZE
        /\ count' = semFull' + Up' + Pw'
        /\ \/ tail' = head' + (count' + Uc' - Pc')
           \/ tail' = head' + (count' + Uc' - Pc') - QUEUE_SIZE
    BY <1>a, <1>b, <1>c, <1>d, <2>3, <2>5, <2>6
  <2>8. queue' \in [Slots -> Tasks \cup {Blank}] /\ task' \in [Processes -> Tasks \cup {Blank}]
    BY <1>a, <1>4 DEF AdvanceHead, TypeOK, shm, sems
  <2> QED
    BY <2>2, <2>4, <2>7, <2>8, StepInv DEF Slots
<1>5. CASE DecCount(p)
  <2>1. Goto(p, "count", "postQueue") /\ pc[p] = "count"
    BY <1>5 DEF DecCount, Goto
  <2>2. PcOK'
    BY <1>a, <2>1, PcTyped, PrintQueueAssumption DEF UserPc, PrinterPc
  <2>3. Ph' = Ph /\ Pw' = Pw - 1 /\ Pc' = Pc - 1 /\ Uh' = Uh /\ Up' = Up /\ Uc' = Uc
    BY <1>a, <1>5, PrinterCounts DEF Printer
  <2>4. MutualExclusion' /\ semQueue' \in 0 .. 1
    <3>1. semQueue' = semQueue
      BY <1>5 DEF DecCount, sems
    <3> QED
      BY <1>a, <1>c, <2>1, <3>1, MutexKept DEF CriticalPc
  <2>5. /\ semEmpty' = semEmpty /\ semFull' = semFull /\ count' = count - 1
        /\ head' = head /\ tail' = tail
    BY <1>5 DEF DecCount, shm, sems
  <2>7. /\ semEmpty' \in Nat /\ semFull' \in Nat
        /\ head' \in 0 .. QUEUE_SIZE - 1 /\ tail' \in 0 .. QUEUE_SIZE - 1
        /\ semEmpty' + semFull' + Uh' + Ph' = QUEUE_SIZE
        /\ count' = semFull' + Up' + Pw'
        /\ \/ tail' = head' + (count' + Uc' - Pc')
           \/ tail' = head' + (count' + Uc' - Pc') - QUEUE_SIZE
    BY <1>a, <1>b, <1>c, <1>d, <2>3, <2>5
  <2>8. queue' \in [Slots -> Tasks \cup {Blank}] /\ task' \in [Processes -> Tasks \cup {Blank}]
    BY <1>a, <1>5 DEF DecCount, TypeOK, shm, sems
  <2> QED
    BY <2>2, <2>4, <2>7, <2>8, StepInv DEF Slots
<1>6. CASE UnlockQueue(p)
  <2>1. Goto(p, "postQueue", "postEmpty") /\ pc[p] = "postQueue"
    BY <1>6, PrintQueueAssumption DEF UnlockQueue, Goto
  <2>2. PcOK'
    BY <1>a, <2>1, PcTyped, PrintQueueAssumption DEF UserPc, PrinterPc
  <2>3. Ph' = Ph /\ Pw' = Pw /\ Pc' = Pc /\ Uh' = Uh /\ Up' = Up /\ Uc' = Uc
    BY <1>a, <1>6, PrinterCounts DEF Printer
  <2>4. MutualExclusion' /\ semQueue' \in 0 .. 1
    BY <1>a, <1>6, UnlockMutex
  <2>5. /\ semEmpty' = semEmpty /\ semFull' = semFull /\ count' = count
        /\ head' = head /\ tail' = tail
    BY <1>6 DEF UnlockQueue, shm, sems
  <2>7. /\ semEmpty' \in Nat /\ semFull' \in Nat
        /\ head' \in 0 .. QUEUE_SIZE - 1 /\ tail' \in 0 .. QUEUE_SIZE - 1
        /\ semEmpty' + semFull' + Uh' + Ph' = QUEUE_SIZE
        /\ count' = semFull' + Up' + Pw'
        /\ \/ tail' = head' + (count' + Uc' - Pc')
           \/ tail' = head' + (count' + Uc' - Pc') - QUEUE_SIZE
    BY <1>a, <1>b, <1>c, <1>d, <2>3, <2>5
  <2>8. queue' \in [Slots -> Tasks \cup {Blank}] /\ task' \in [Processes -> Tasks \cup {Blank}]
    BY <1>a, <1>6 DEF UnlockQueue, TypeOK, shm, sems
  <2> QED
    BY <2>2, <2>4, <2>7, <2>8, StepInv DEF Slots
<1>7. CASE PostEmpty(p)
  <2>1. Goto(p, "postEmpty", "print") /\ pc[p] = "postEmpty"
    BY <1>7 DEF PostEmpty, Goto
  <2>2. PcOK'
    BY <1>a, <2>1, PcTyped, PrintQueueAssumption DEF UserPc, PrinterPc
  <2>3. Ph' = Ph - 1 /\ Pw' = Pw /\ Pc' = Pc /\ Uh' = Uh /\ Up' = Up /\ Uc' = Uc
    BY <1>a, <1>7, PrinterCounts DEF Printer
  <2>4. MutualExclusion' /\ semQueue' \in 0 .. 1
    <3>1. semQueue' = semQueue
      BY <1>7 DEF PostEmpty, sems
    <3> QED
      BY <1>a, <1>c, <2>1, <3>1, MutexKept DEF CriticalPc
  <2>5. /\ semEmpty' = semEmpty + 1 /\ semFull' = semFull /\ count' = count
        /\ head' = head /\ tail' = tail
    BY <1>7 DEF PostEmpty, shm, sems
  <2>7. /\ semEmpty' \in Nat /\ semFull' \in Nat
        /\ head' \in 0 .. QUEUE_SIZE - 1 /\ tail' \in 0 .. QUEUE_SIZE - 1
        /\ semEmpty' + semFull' + Uh' + Ph' = QUEUE_SIZE
        /\ count' = semFull' + Up' + Pw'
        /\ \/ tail' = head' + (count' + Uc' - Pc')
           \/ tail' = head' + (count' + Uc' - Pc') - QUEUE_SIZE
    BY <1>a, <1>b, <1>c, <1>d, <2>3, <2>5
  <2>8. queue' \in [Slots -> Tasks \cup {Blank}] /\ task' \in [Processes -> Tasks \cup {Blank}]
    BY <1>a, <1>7 DEF PostEmpty, TypeOK, shm, sems
  <2> QED
    BY <2>2, <2>4, <2>7, <2>8, StepInv DEF Slots
<1>8. CASE PrintTask(p)
  <2>1. Goto(p, "print", "waitFull") /\ pc[p] = "print"
    BY <1>8 DEF PrintTask, Goto
  <2>2. PcOK'
    BY <1>a, <2>1, PcTyped, PrintQueueAssumption DEF UserPc, PrinterPc
  <2>3. Ph' = Ph /\ Pw' = Pw /\ Pc' = Pc /\ Uh' = Uh /\ Up' = Up /\ Uc' = Uc
    BY <1>a, <1>8, PrinterCounts DEF Printer
  <2>4. MutualExclusion' /\ semQueue' \in 0 .. 1
    <3>1. semQueue' = semQueue
      BY <1>8 DEF PrintTask, sems
    <3> QED
      BY <1>a, <1>c, <2>1, <3>1, MutexKept DEF CriticalPc
  <2>5. /\ semEmpty' = semEmpty /\ semFull' = semFull /\ count' = count
        /\ head' = head /\ tail' = tail
    BY <1>8 DEF PrintTask, shm, sems
  <2>7. /\ semEmpty' \in Nat /\ semFull' \in Nat
        /\ head' \in 0 .. QUEUE_SIZE - 1 /\ tail' \in 0 .. QUEUE_SIZE - 1
        /\ semEmpty' + semFull' + Uh' + Ph' = QUEUE_SIZE
        /\ count' = semFull' + Up' + Pw'
        /\ \/ tail' = head' + (count' + Uc' - Pc')
           \/ tail' = head' + (count' + Uc' - Pc') - QUEUE_SIZE
    BY <1>a, <1>b, <1>c, <1>d, <2>3, <2>5
  <2>8. queue' \in [Slots -> Tasks \cup {Blank}] /\ task' \in [Processes -> Tasks \cup {Blank}]
    BY <1>a, <1>8 DEF PrintTask, TypeOK, shm, sems
  <2> QED
    BY <2>2, <2>4, <2>7, <2>8, StepInv DEF Slots
<1> QED
  BY <1>1, <1>2, <1>3, <1>4, <1>5, <1>6, <1>7, <1>8 DEF Printer

\* A stuttering step keeps the inductive invariant.
LEMMA StutterStep == IInv /\ UNCHANGED vars => IInv'
<1> SUFFICES ASSUME IInv, UNCHANGED vars PROVE IInv'
  OBVIOUS
<1>1. TypeOK'
  BY DEF IInv, TypeOK, vars
<1>2. MutualExclusion'
  BY DEF IInv, MutualExclusion, InCritical, vars
<1>3. RingConsistent'
  BY DEF IInv, RingConsistent, PlacesConserved, CountAgrees, RingAgrees, UsersAt, PrintersAt, vars
<1> QED
  BY <1>1, <1>2, <1>3 DEF IInv

\* Every step keeps the inductive invariant.
LEMMA InductiveStep == IInv /\ [Next]_vars => IInv'
  BY UserStep, PrinterStep, StutterStep DEF Next

-----------------------------------------------------------------------------
\* IInv holds in every reachable state.
THEOREM Invariance == Spec => []IInv
<1>1. Init => IInv
  BY InitInv
<1>2. IInv /\ [Next]_vars => IInv'
  BY InductiveStep
<1> QED
  BY <1>1, <1>2, PTL DEF Spec

(***************************************************************************)
(* The indices never leave the ring and no semaphore exceeds its initial   *)
(* supply, for every number of users and printers (lab-8/zad.c).           *)
(***************************************************************************)
THEOREM TypeCorrect == Spec => []TypeOK
<1>1. IInv => TypeOK
  BY DEF IInv
<1> QED
  BY <1>1, Invariance, PTL

(***************************************************************************)
(* sem_queue keeps every two processes apart between sem_wait and sem_post.*)
(***************************************************************************)
THEOREM CriticalAlone == Spec => []MutualExclusion
<1>1. IInv => MutualExclusion
  BY DEF IInv
<1> QED
  BY <1>1, Invariance, PTL

(***************************************************************************)
(* Places are conserved and count, head and tail agree with the semaphores.*)
(***************************************************************************)
THEOREM RingCorrect == Spec => []RingConsistent
<1>1. IInv => RingConsistent
  BY DEF IInv
<1> QED
  BY <1>1, Invariance, PTL

\* The slots from head on, as far as the ring goes, are not tail unless all
\* of count lies between them.
LEMMA SlotsApart ==
    ASSUME NEW h \in Slots, NEW t \in Slots, NEW c \in 0 .. QUEUE_SIZE - 1,
           t = h + c \/ t = h + c - QUEUE_SIZE, NEW i \in 0 .. c - 1
    PROVE  t # (h + i) % QUEUE_SIZE
<1>1. QUEUE_SIZE \in Nat /\ QUEUE_SIZE > 0
  BY PrintQueueAssumption
<1>2. (h + i) % QUEUE_SIZE = IF h + i < QUEUE_SIZE THEN h + i ELSE h + i - QUEUE_SIZE
  <2>1. CASE h + i < QUEUE_SIZE
    BY <1>1, <2>1 DEF Slots
  <2>2. CASE h + i >= QUEUE_SIZE
    BY <1>1, <2>2 DEF Slots
  <2> QED
    BY <1>1, <2>1, <2>2 DEF Slots
<1> QED
  BY <1>1, <1>2 DEF Slots

(***************************************************************************)
(* No user overwrites a task that waits and no printer copies a slot that  *)
(* holds none: the decrements of sem_empty and sem_full made before the    *)
(* lock is taken are enough to keep tail and head apart inside it.         *)
(***************************************************************************)
THEOREM NothingOverwritten == Spec => []IndicesApart
<1>1. ASSUME IInv PROVE IndicesApart
  <2>1. TypeOK /\ MutualExclusion
    BY <1>1 DEF IInv
  <2>2. /\ semEmpty + semFull + Uh + Ph = QUEUE_SIZE
        /\ count = semFull + Up + Pw
        /\ \/ tail = head + (count + Uc - Pc)
           \/ tail = head + (count + Uc - Pc) - QUEUE_SIZE
    BY <1>1, RingEquations DEF IInv
  <2>3. /\ semEmpty \in Nat /\ semFull \in Nat /\ QUEUE_SIZE \in Nat \ {0}
        /\ head \in Slots /\ tail \in Slots /\ count \in Nat
    BY <2>1, PrintQueueAssumption DEF TypeOK
  <2>4. ASSUME NEW u \in Users, pc[u] = "copy", NEW i \in 0 .. count - 1
        PROVE  tail # (head + i) % QUEUE_SIZE
    <3>1. Uc = 0 /\ Pc = 0
      BY <2>1, <2>4, NobodyCounts DEF InCritical, Processes
    <3>2. /\ Up + 1 <= Uh /\ Pw <= Ph
          /\ Uh \in Nat /\ Up \in Nat /\ Ph \in Nat /\ Pw \in Nat
      BY <2>4, CountsOrdered
    <3>3. count \in 0 .. QUEUE_SIZE - 1
      BY <2>2, <2>3, <3>2
    <3>4. tail = head + count \/ tail = head + count - QUEUE_SIZE
      BY <2>2, <2>3, <3>1
    <3> QED
      BY <2>3, <2>4, <3>3, <3>4, SlotsApart
  <2>5. ASSUME NEW p \in Printers, pc[p] = "copy"
        PROVE  count > 0
    <3>1. Pc + 1 <= Pw /\ Pc \in Nat /\ Pw \in Nat /\ Up \in Nat
      BY <2>5, CountsOrdered
    <3> QED
      BY <2>2, <2>3, <3>1
  <2> QED
    BY <2>4, <2>5 DEF IndicesApart
<1> QED
  BY <1>1, Invariance, PTL
=============================================================================
