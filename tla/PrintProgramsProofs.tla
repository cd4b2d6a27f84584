------------------------ MODULE PrintProgramsProofs ------------------------
(***************************************************************************)
(* Proofs, for every number of programs and every size of the ring, of     *)
(* what restarts and kills leave of the print queue: the properties of     *)
(* PrintPrograms.                                                          *)
(***************************************************************************)
EXTENDS PrintPrograms, PrintQueueProofs

\* Every program is at a statement of its own loop, or not in a loop.
LabelsOK ==
    /\ pc \in [Processes -> UserPc \cup PrinterPc \cup Setup \cup {"down"}]
    /\ \A u \in Users : pc[u] \in UserPc \cup Setup \cup {"down"}
    /\ \A p \in Printers : pc[p] \in PrinterPc \cup Setup \cup {"down"}

\* A restart clears count under the others, but cannot take it far: a program
\* about to change count, or that has changed it, holds a place of the ring.
CountBounded ==
    /\ count <= semFull + Up + Pw + lost
    /\ -count <= semEmpty + (Uh - Up) + (Ph - Pw) + lost

(***************************************************************************)
(* The inductive invariant.  What holds of PrintQueue's own does not hold  *)
(* here: the semaphore may be 0 with nobody inside, places get lost, and   *)
(* count and the indices no longer say how many tasks wait.                *)
(***************************************************************************)
ProgramsInv ==
    ProgramsTypeOK /\ LabelsOK /\ RestartsExclude /\ PlacesAccounted /\ CountBounded

\* The head counts in the equation of the places.
LEMMA PlacesEquation ==
    /\ PlacesAccounted <=> semEmpty + semFull + Uh + Ph + lost = QUEUE_SIZE
    /\ PlacesAccounted' <=> semEmpty' + semFull' + Uh' + Ph' + lost' = QUEUE_SIZE
  BY DEF PlacesAccounted, Uh, Ph

\* The initial states satisfy the inductive invariant.
LEMMA ProgramsInitInv == ProgramsInit => ProgramsInv
<1> SUFFICES ASSUME ProgramsInit PROVE ProgramsInv
  OBVIOUS
<1> USE PrintQueueAssumption DEF ProgramsInit, ShmInit, SemInit
<1>1. \A p \in Processes : pc[p] = "down"
  OBVIOUS
<1>2. LabelsOK
  BY <1>1 DEF LabelsOK, Processes
<1>3. ProgramsTypeOK
  BY <1>2 DEF ProgramsTypeOK, LabelsOK, Slots
<1>4. RestartsExclude
  BY <1>1 DEF RestartsExclude, InCritical
<1>5. Uh = 0 /\ Up = 0 /\ Ph = 0 /\ Pw = 0
  <2>1. /\ Having(Users, pc, UserHolds) = {}
        /\ Having(Users, pc, {"postQueue", "postFull"}) = {}
    BY <1>1 DEF Having, UserHolds, Processes
  <2>2. /\ Having(Printers, pc, PrinterHolds) = {}
        /\ Having(Printers, pc, {"waitQueue", "copy", "head", "count"}) = {}
    BY <1>1 DEF Having, PrinterHolds, Processes
  <2>3. Uh = 0 /\ Up = 0
    BY <2>1, AtHaving, FS_EmptySet DEF Uh, Up
  <2>4. Ph = 0 /\ Pw = 0
    BY <2>2, AtHaving, FS_EmptySet DEF Ph, Pw
  <2> QED
    BY <2>3, <2>4
<1>6. PlacesAccounted /\ CountBounded
  BY <1>5, PlacesEquation DEF CountBounded
<1> QED
  BY <1>2, <1>3, <1>4, <1>6 DEF ProgramsInv

\* The arithmetic of the bounds.
LEMMA PlaceBounds ==
    ASSUME NEW size \in Nat, NEW empty \in Nat, NEW full \in Nat, NEW gone \in Nat,
           NEW uh \in Nat, NEW up \in Nat, NEW ph \in Nat, NEW pw \in Nat, NEW n \in Int,
           empty + full + uh + ph + gone = size, up <= uh, pw <= ph,
           n <= full + up + pw + gone, -n <= empty + (uh - up) + (ph - pw) + gone
    PROVE  empty <= size /\ full <= size /\ gone <= size /\ n \in -size .. size
  OBVIOUS

\* What is left to show of a step once the equation and the two bounds hold
\* after it: they keep the semaphores, count and lost within the ring's size.
LEMMA ProgramsStepInv ==
    ASSUME LabelsOK', RestartsExclude', semQueue' \in 0 .. 1,
           semEmpty' \in Nat, semFull' \in Nat, lost' \in Nat, count' \in Int,
           head' \in Slots, tail' \in Slots,
           semEmpty' + semFull' + Uh' + Ph' + lost' = QUEUE_SIZE,
           count' <= semFull' + Up' + Pw' + lost',
           -count' <= semEmpty' + (Uh' - Up') + (Ph' - Pw') + lost',
           queue' \in [Slots -> Tasks \cup {Blank}],
           task' \in [Processes -> Tasks \cup {Blank}]
    PROVE  ProgramsInv'
<1>1. PlacesAccounted' /\ CountBounded'
  BY PlacesEquation DEF CountBounded
<1>2. QUEUE_SIZE \in Nat
  BY PrintQueueAssumption
<1>3. /\ Uh' \in Nat /\ Up' \in Nat /\ Ph' \in Nat /\ Pw' \in Nat
      /\ Up' <= Uh' /\ Pw' <= Ph'
  BY CountsOrderedNext
<1>4. /\ semEmpty' <= QUEUE_SIZE /\ semFull' <= QUEUE_SIZE /\ lost' <= QUEUE_SIZE
      /\ count' \in -QUEUE_SIZE .. QUEUE_SIZE
  BY <1>2, <1>3, PlaceBounds
<1>5. ProgramsTypeOK'
  BY <1>2, <1>4 DEF ProgramsTypeOK, LabelsOK
<1> QED
  BY <1>1, <1>5 DEF ProgramsInv

-----------------------------------------------------------------------------
(***************************************************************************)
(* What the steps have in common.                                          *)
(***************************************************************************)
\* The labels stay of their kind when a program goes to one of its own.
LEMMA LabelsKept ==
    ASSUME LabelsOK, NEW p \in Processes, NEW from, NEW to, Goto(p, from, to),
           p \in Users => to \in UserPc \cup Setup \cup {"down"},
           p \in Printers => to \in PrinterPc \cup Setup \cup {"down"}
    PROVE  LabelsOK' /\ PcFun
  BY PrintQueueAssumption DEF LabelsOK, Goto, Processes, PcFun

\* A step that takes nobody into the critical section and leaves the lock alone.
LEMMA ExclusionKept ==
    ASSUME LabelsOK, RestartsExclude, NEW p \in Processes, NEW from, NEW to,
           Goto(p, from, to), semQueue' = semQueue,
           to \in CriticalPc => from \in CriticalPc
    PROVE  RestartsExclude'
<1>1. \A q \in Processes : InCritical(q)' => InCritical(q)
  BY DEF Goto, LabelsOK, InCritical, CriticalPc
<1> QED
  BY <1>1 DEF RestartsExclude

\* Taking sem_queue: it was 1, so nobody was inside.
LEMMA LockExcludes ==
    ASSUME ProgramsTypeOK, RestartsExclude, NEW p \in Processes, LockQueue(p)
    PROVE  RestartsExclude' /\ semQueue' \in 0 .. 1
<1>1. semQueue = 1 /\ semQueue' = 0
  BY DEF LockQueue, ProgramsTypeOK
<1>2. \A q \in Processes : InCritical(q)' => q = p
  BY <1>1 DEF RestartsExclude, LockQueue, Goto, ProgramsTypeOK, InCritical
<1> QED
  BY <1>1, <1>2 DEF RestartsExclude

\* Posting sem_queue: the one who posts was alone inside, and sem_queue was 0.
LEMMA UnlockExcludes ==
    ASSUME ProgramsTypeOK, RestartsExclude, NEW p \in Processes, UnlockQueue(p)
    PROVE  RestartsExclude' /\ semQueue' \in 0 .. 1
<1>1. InCritical(p)
  BY DEF UnlockQueue, Goto, InCritical
<1>2. semQueue = 0 /\ semQueue' = 1
  BY <1>1 DEF RestartsExclude, UnlockQueue, ProgramsTypeOK
<1>3. \A q \in Processes : ~InCritical(q)'
  BY <1>1 DEF RestartsExclude, UnlockQueue, Goto, ProgramsTypeOK, InCritical
<1> QED
  BY <1>2, <1>3 DEF RestartsExclude

-----------------------------------------------------------------------------
(***************************************************************************)
(* The induction step, one action at a time.                               *)
(***************************************************************************)
\* What the invariant says of a state, in the terms of the proofs below.
LEMMA ProgramsFacts ==
    ASSUME ProgramsInv
    PROVE  /\ ProgramsTypeOK /\ LabelsOK /\ PcFun /\ RestartsExclude
           /\ semQueue \in 0 .. 1 /\ semEmpty \in Nat /\ semFull \in Nat /\ lost \in Nat
           /\ count \in Int /\ head \in Slots /\ tail \in Slots
           /\ queue \in [Slots -> Tasks \cup {Blank}]
           /\ task \in [Processes -> Tasks \cup {Blank}]
           /\ semEmpty + semFull + Uh + Ph + lost = QUEUE_SIZE
           /\ count <= semFull + Up + Pw + lost
           /\ -count <= semEmpty + (Uh - Up) + (Ph - Pw) + lost
           /\ Uh \in Nat /\ Up \in Nat /\ Ph \in Nat /\ Pw \in Nat
           /\ Up <= Uh /\ Pw <= Ph
<1>1. ProgramsTypeOK /\ LabelsOK /\ RestartsExclude /\ PlacesAccounted /\ CountBounded
  BY DEF ProgramsInv
<1>2. PcFun
  BY <1>1 DEF LabelsOK, PcFun
<1>3. /\ semQueue \in 0 .. 1 /\ semEmpty \in Nat /\ semFull \in Nat /\ lost \in Nat
      /\ count \in Int /\ head \in Slots /\ tail \in Slots
      /\ queue \in [Slots -> Tasks \cup {Blank}]
      /\ task \in [Processes -> Tasks \cup {Blank}]
  BY <1>1, PrintQueueAssumption DEF ProgramsTypeOK
<1> QED
  BY <1>1, <1>2, <1>3, PlacesEquation, CountsOrdered DEF CountBounded

\* The slot after a slot is a slot.
LEMMA NextSlotIsSlot == \A i \in Slots : NextSlot(i) \in Slots
  BY NextSlotValue, PrintQueueAssumption DEF Slots

\* A statement of a user's loop.
LEMMA RunUserStep ==
    ASSUME ProgramsInv, NEW u \in Processes, RunUser(u)
    PROVE  ProgramsInv'
<1>a. u \in Users /\ User(u) /\ lost' = lost
  BY DEF RunUser
<1>b. /\ ProgramsTypeOK /\ LabelsOK /\ PcFun /\ RestartsExclude
      /\ Ph' = Ph /\ Pw' = Pw
  BY <1>a, ProgramsFacts, UserCounts
<1>1. /\ LabelsOK'
      /\ head' = head
      /\ tail' \in Slots
      /\ queue' \in [Slots -> Tasks \cup {Blank}]
      /\ task' \in [Processes -> Tasks \cup {Blank}]
  <2>1. LabelsOK'
    <3>1. PICK from, to \in UserPc : Goto(u, from, to)
      BY <1>a DEF User, MakeTask, WaitEmpty, LockQueue, PutTask, AdvanceTail, IncCount,
                  UnlockQueue, PostFull, UserPc
    <3> QED
      BY <1>a, <1>b, <3>1, LabelsKept, PrintQueueAssumption
  <2>2. head' = head /\ tail' \in Slots
    BY <1>a, ProgramsFacts, NextSlotIsSlot
       DEF User, MakeTask, WaitEmpty, LockQueue, PutTask, AdvanceTail, IncCount,
           UnlockQueue, PostFull, shm
  <2>3. queue' \in [Slots -> Tasks \cup {Blank}] /\ task' \in [Processes -> Tasks \cup {Blank}]
    BY <1>a, ProgramsFacts
       DEF User, MakeTask, WaitEmpty, LockQueue, PutTask, AdvanceTail, IncCount,
           UnlockQueue, PostFull, shm
  <2> QED
    BY <2>1, <2>2, <2>3
<1>2. RestartsExclude' /\ semQueue' \in 0 .. 1
  <2>1. CASE LockQueue(u)
    BY <1>b, <2>1, LockExcludes
  <2>2. CASE UnlockQueue(u)
    BY <1>b, <2>2, UnlockExcludes
  <2>3. CASE ~LockQueue(u) /\ ~UnlockQueue(u)
    <3>1. PICK from, to : /\ Goto(u, from, to) /\ semQueue' = semQueue
                          /\ to \in CriticalPc => from \in CriticalPc
      <4>1. CASE MakeTask(u)
        BY <4>1 DEF MakeTask, CriticalPc, sems
      <4>2. CASE WaitEmpty(u)
        BY <4>2 DEF WaitEmpty, CriticalPc
      <4>3. CASE PutTask(u)
        BY <4>3 DEF PutTask, CriticalPc, sems
      <4>4. CASE AdvanceTail(u)
        BY <4>4 DEF AdvanceTail, CriticalPc, sems
      <4>5. CASE IncCount(u)
        BY <4>5 DEF IncCount, CriticalPc, sems
      <4>6. CASE PostFull(u)
        BY <4>6 DEF PostFull, CriticalPc
      <4> QED
        BY <1>a, <2>3, <4>1, <4>2, <4>3, <4>4, <4>5, <4>6 DEF User
    <3> QED
      BY <1>b, <3>1, ExclusionKept, ProgramsFacts
  <2> QED
    BY <2>1, <2>2, <2>3
<1>3. /\ semEmpty' \in Nat /\ semFull' \in Nat /\ count' \in Int
      /\ semEmpty' + semFull' + Uh' + Ph' + lost' = QUEUE_SIZE
      /\ count' <= semFull' + Up' + Pw' + lost'
      /\ -count' <= semEmpty' + (Uh' - Up') + (Ph' - Pw') + lost'
  <2>1. CASE MakeTask(u)
    <3>1. /\ Uh' = Uh /\ Up' = Up /\ semEmpty' = semEmpty /\ semFull' = semFull
          /\ count' = count
      BY <1>a, <1>b, <2>1, UserCounts DEF MakeTask, shm, sems
    <3> QED
      BY <1>a, <1>b, <3>1, ProgramsFacts
  <2>2. CASE WaitEmpty(u)
    <3>1. /\ Uh' = Uh + 1 /\ Up' = Up /\ semEmpty' = semEmpty - 1 /\ semEmpty > 0
          /\ semFull' = semFull /\ count' = count
      BY <1>a, <1>b, <2>2, UserCounts DEF WaitEmpty, shm
    <3> QED
      BY <1>a, <1>b, <3>1, ProgramsFacts
  <2>3. CASE LockQueue(u) \/ UnlockQueue(u) \/ PutTask(u) \/ AdvanceTail(u)
    <3>1. /\ Uh' = Uh /\ Up' = Up /\ semEmpty' = semEmpty /\ semFull' = semFull
          /\ count' = count
      BY <1>a, <1>b, <2>3, UserCounts DEF LockQueue, UnlockQueue, PutTask, AdvanceTail, shm, sems
    <3> QED
      BY <1>a, <1>b, <3>1, ProgramsFacts
  <2>4. CASE IncCount(u)
    <3>1. /\ Uh' = Uh /\ Up' = Up + 1 /\ semEmpty' = semEmpty /\ semFull' = semFull
          /\ count' = count + 1
      BY <1>a, <1>b, <2>4, UserCounts DEF IncCount, sems
    <3> QED
      BY <1>a, <1>b, <3>1, ProgramsFacts
  <2>5. CASE PostFull(u)
    <3>1. /\ Uh' = Uh - 1 /\ Up' = Up - 1 /\ semEmpty' = semEmpty /\ semFull' = semFull + 1
          /\ count' = count
      BY <1>a, <1>b, <2>5, UserCounts DEF PostFull, shm
    <3> QED
      BY <1>a, <1>b, <3>1, ProgramsFacts
  <2> QED
    BY <1>a, <2>1, <2>2, <2>3, <2>4, <2>5 DEF User
<1> QED
  BY <1>a, <1>1, <1>2, <1>3, ProgramsFacts, ProgramsStepInv

\* A statement of a printer's loop.
LEMMA RunPrinterStep ==
    ASSUME ProgramsInv, NEW p \in Processes, RunPrinter(p)
    PROVE  ProgramsInv'
<1>a. p \in Printers /\ p \notin Users /\ Printer(p) /\ lost' = lost
  BY PrintQueueAssumption DEF RunPrinter
<1>b. /\ ProgramsTypeOK /\ LabelsOK /\ PcFun /\ RestartsExclude
      /\ Uh' = Uh /\ Up' = Up
  BY <1>a, ProgramsFacts, PrinterCounts
<1>1. /\ LabelsOK'
      /\ head' \in Slots
      /\ tail' = tail
      /\ queue' = queue
      /\ task' \in [Processes -> Tasks \cup {Blank}]
  <2>1. LabelsOK'
    <3>1. PICK from, to \in PrinterPc : Goto(p, from, to)
      BY <1>a DEF Printer, WaitFull, LockQueue, TakeTask, AdvanceHead, DecCount,
                  UnlockQueue, PostEmpty, PrintTask, PrinterPc
    <3> QED
      BY <1>a, <1>b, <3>1, LabelsKept
  <2>2. head' \in Slots /\ tail' = tail /\ queue' = queue
    BY <1>a, ProgramsFacts, NextSlotIsSlot
       DEF Printer, WaitFull, LockQueue, TakeTask, AdvanceHead, DecCount,
           UnlockQueue, PostEmpty, PrintTask, shm
  <2>3. task' \in [Processes -> Tasks \cup {Blank}]
    BY <1>a, ProgramsFacts
       DEF Printer, WaitFull, LockQueue, TakeTask, AdvanceHead, DecCount,
           UnlockQueue, PostEmpty, PrintTask
  <2> QED
    BY <2>1, <2>2, <2>3
<1>2. RestartsExclude' /\ semQueue' \in 0 .. 1
  <2>1. CASE LockQueue(p)
    BY <1>b, <2>1, LockExcludes
  <2>2. CASE UnlockQueue(p)
    BY <1>b, <2>2, UnlockExcludes
  <2>3. CASE ~LockQueue(p) /\ ~UnlockQueue(p)
    <3>1. PICK from, to : /\ Goto(p, from, to) /\ semQueue' = semQueue
                          /\ to \in CriticalPc => from \in CriticalPc
      <4>1. CASE WaitFull(p)
        BY <4>1 DEF WaitFull, CriticalPc
      <4>2. CASE TakeTask(p)
        BY <4>2 DEF TakeTask, CriticalPc, sems
      <4>3. CASE AdvanceHead(p)
        BY <4>3 DEF AdvanceHead, CriticalPc, sems
      <4>4. CASE DecCount(p)
        BY <4>4 DEF DecCount, CriticalPc, sems
      <4>5. CASE PostEmpty(p)
        BY <4>5 DEF PostEmpty, CriticalPc
      <4>6. CASE PrintTask(p)
        BY <4>6 DEF PrintTask, CriticalPc, sems
      <4> QED
        BY <1>a, <2>3, <4>1, <4>2, <4>3, <4>4, <4>5, <4>6 DEF Printer
    <3> QED
      BY <1>b, <3>1, ExclusionKept, ProgramsFacts
  <2> QED
    BY <2>1, <2>2, <2>3
<1>3. /\ semEmpty' \in Nat /\ semFull' \in Nat /\ count' \in Int
      /\ semEmpty' + semFull' + Uh' + Ph' + lost' = QUEUE_SIZE
      /\ count' <= semFull' + Up' + Pw' + lost'
      /\ -count' <= semEmpty' + (Uh' - Up') + (Ph' - Pw') + lost'
  <2>1. CASE WaitFull(p)
    <3>1. /\ Ph' = Ph + 1 /\ Pw' = Pw + 1 /\ semFull' = semFull - 1 /\ semFull > 0
          /\ semEmpty' = semEmpty /\ count' = count
      BY <1>a, <1>b, <2>1, PrinterCounts DEF WaitFull, shm
    <3> QED
      BY <1>a, <1>b, <3>1, ProgramsFacts
  <2>2. CASE LockQueue(p) \/ UnlockQueue(p) \/ TakeTask(p) \/ AdvanceHead(p) \/ PrintTask(p)
    <3>1. /\ Ph' = Ph /\ Pw' = Pw /\ semEmpty' = semEmpty /\ semFull' = semFull
          /\ count' = count
      BY <1>a, <1>b, <2>2, PrinterCounts
         DEF LockQueue, UnlockQueue, TakeTask, AdvanceHead, PrintTask, shm, sems
    <3> QED
      BY <1>a, <1>b, <3>1, ProgramsFacts
  <2>3. CASE DecCount(p)
    <3>1. /\ Ph' = Ph /\ Pw' = Pw - 1 /\ semEmpty' = semEmpty /\ semFull' = semFull
          /\ count' = count - 1
      BY <1>a, <1>b, <2>3, PrinterCounts DEF DecCount, sems
    <3> QED
      BY <1>a, <1>b, <3>1, ProgramsFacts
  <2>4. CASE PostEmpty(p)
    <3>1. /\ Ph' = Ph - 1 /\ Pw' = Pw /\ semEmpty' = semEmpty + 1 /\ semFull' = semFull
          /\ count' = count
      BY <1>a, <1>b, <2>4, PrinterCounts DEF PostEmpty, shm
    <3> QED
      BY <1>a, <1>b, <3>1, ProgramsFacts
  <2> QED
    BY <1>a, <2>1, <2>2, <2>3, <2>4 DEF Printer
<1> QED
  BY <1>a, <1>1, <1>2, <1>3, ProgramsFacts, ProgramsStepInv

\* The head counts do not see the statements outside of the loops.
LEMMA OutsideCounts ==
    ASSUME PcFun, NEW p \in Processes, NEW from, NEW to, Goto(p, from, to),
           to \notin UserHolds, to \notin PrinterHolds
    PROVE  /\ p \in Users =>
                 /\ Uh' = Uh - One(from, UserHolds)
                 /\ Up' = Up - One(from, {"postQueue", "postFull"})
                 /\ Ph' = Ph /\ Pw' = Pw
           /\ p \in Printers =>
                 /\ Ph' = Ph - One(from, PrinterHolds)
                 /\ Pw' = Pw - One(from, {"waitQueue", "copy", "head", "count"})
                 /\ Uh' = Uh /\ Up' = Up
<1>1. /\ to \notin {"postQueue", "postFull"}
      /\ to \notin {"waitQueue", "copy", "head", "count"}
  BY DEF UserHolds, PrinterHolds
<1>2. /\ One(to, UserHolds) = 0 /\ One(to, PrinterHolds) = 0
      /\ One(to, {"postQueue", "postFull"}) = 0
      /\ One(to, {"waitQueue", "copy", "head", "count"}) = 0
      /\ \A L : One(from, L) \in Nat
  BY <1>1 DEF One
<1>3. Uh \in Nat /\ Up \in Nat /\ Ph \in Nat /\ Pw \in Nat
  BY CountsOrdered
<1>4. ASSUME p \in Users
      PROVE  /\ Uh' = Uh - One(from, UserHolds)
             /\ Up' = Up - One(from, {"postQueue", "postFull"})
             /\ Ph' = Ph /\ Pw' = Pw
  BY <1>2, <1>3, <1>4, UserMoves DEF Uh, Up, Ph, Pw
<1>5. ASSUME p \in Printers
      PROVE  /\ Ph' = Ph - One(from, PrinterHolds)
             /\ Pw' = Pw - One(from, {"waitQueue", "copy", "head", "count"})
             /\ Uh' = Uh /\ Up' = Up
  BY <1>2, <1>3, <1>5, PrinterMoves DEF Uh, Up, Ph, Pw
<1> QED
  BY <1>4, <1>5

\* A statement of a start-up: it clears the ring's head, tail and count, one at
\* a time, and takes no place of it.
LEMMA SetupStep ==
    ASSUME ProgramsInv, NEW p \in Processes,
           Start(p) \/ ResetHead(p) \/ ResetTail(p) \/ ResetCount(p)
    PROVE  ProgramsInv'
<1>a. /\ p \in Users \/ p \in Printers
      /\ LabelsOK /\ PcFun /\ RestartsExclude
      /\ 0 \in Slots /\ QUEUE_SIZE \in Nat
  BY ProgramsFacts, PrintQueueAssumption DEF Processes, Slots
<1>b. FirstPc(p) \in {"make", "waitFull"}
  BY DEF FirstPc
<1>1. PICK from \in {"down"} \cup Setup, to \in Setup \cup {FirstPc(p)} :
         /\ Goto(p, from, to)
         /\ to \in Setup \/ to = FirstPc(p)
         /\ head' \in {0, head} /\ tail' \in {0, tail} /\ count' \in {0, count}
         /\ queue' = queue /\ task' = task /\ semQueue' = semQueue
         /\ semEmpty' = semEmpty /\ semFull' = semFull /\ lost' = lost
  BY DEF Start, ResetHead, ResetTail, ResetCount, Setup, shm, sems
<1>2. LabelsOK'
  <2>1. p \in Users => to \in UserPc \cup Setup
    BY <1>1 DEF FirstPc, UserPc
  <2>2. p \in Printers => to \in PrinterPc \cup Setup
    BY <1>1, PrintQueueAssumption DEF FirstPc, PrinterPc
  <2> QED
    BY <1>a, <1>1, <2>1, <2>2, LabelsKept
<1>3. /\ to \notin UserHolds /\ to \notin PrinterHolds /\ to \notin CriticalPc
      /\ from \notin UserHolds /\ from \notin PrinterHolds
      /\ from \notin {"postQueue", "postFull"}
      /\ from \notin {"waitQueue", "copy", "head", "count"}
  BY <1>b, <1>1 DEF Setup, UserHolds, PrinterHolds, CriticalPc
<1>4. RestartsExclude' /\ semQueue' \in 0 .. 1
  BY <1>a, <1>1, <1>3, ExclusionKept, ProgramsFacts
<1>5. Uh' = Uh /\ Up' = Up /\ Ph' = Ph /\ Pw' = Pw
  <2>1. /\ One(from, UserHolds) = 0 /\ One(from, PrinterHolds) = 0
        /\ One(from, {"postQueue", "postFull"}) = 0
        /\ One(from, {"waitQueue", "copy", "head", "count"}) = 0
    BY <1>3 DEF One
  <2> QED
    BY <1>a, <1>1, <1>3, <2>1, OutsideCounts, ProgramsFacts
<1>6. /\ semEmpty' \in Nat /\ semFull' \in Nat /\ lost' \in Nat /\ count' \in Int
      /\ semEmpty' + semFull' + Uh' + Ph' + lost' = QUEUE_SIZE
      /\ count' <= semFull' + Up' + Pw' + lost'
      /\ -count' <= semEmpty' + (Uh' - Up') + (Ph' - Pw') + lost'
  <2>1. CASE count' = 0
    BY <1>1, <1>5, <2>1, ProgramsFacts
  <2>2. CASE count' = count
    BY <1>1, <1>5, <2>2, ProgramsFacts
  <2> QED
    BY <1>1, <2>1, <2>2
<1>7. /\ head' \in Slots /\ tail' \in Slots
      /\ queue' \in [Slots -> Tasks \cup {Blank}]
      /\ task' \in [Processes -> Tasks \cup {Blank}]
  <2>1. /\ head \in Slots /\ tail \in Slots
        /\ queue \in [Slots -> Tasks \cup {Blank}]
        /\ task \in [Processes -> Tasks \cup {Blank}]
    BY ProgramsFacts
  <2> QED
    BY <1>a, <1>1, <2>1
<1> QED
  BY <1>2, <1>4, <1>6, <1>7, ProgramsStepInv

\* A kill: the place the program holds is lost, and so is the lock.
LEMMA KillStep ==
    ASSUME ProgramsInv, NEW p \in Processes, Kill(p)
    PROVE  ProgramsInv'
<1>a. /\ p \in Users \/ p \in Printers
      /\ p \in Printers => p \notin Users
      /\ LabelsOK /\ PcFun /\ RestartsExclude
  BY ProgramsFacts, PrintQueueAssumption DEF Processes
<1>1. /\ Goto(p, pc[p], "down")
      /\ lost' = IF Holds(p) THEN lost + 1 ELSE lost
      /\ task' = [task EXCEPT ![p] = Blank]
      /\ UNCHANGED <<queue, head, tail, count, semQueue, semEmpty, semFull>>
  BY DEF Kill, Goto, shm, sems
<1>2. LabelsOK'
  BY <1>a, <1>1, LabelsKept
<1>3. /\ "down" \notin CriticalPc /\ "down" \notin UserHolds /\ "down" \notin PrinterHolds
  BY DEF CriticalPc, UserHolds, PrinterHolds
<1>4. RestartsExclude' /\ semQueue' \in 0 .. 1
  BY <1>a, <1>1, <1>3, ExclusionKept, ProgramsFacts
<1>5. /\ semEmpty + semFull + Uh' + Ph' + lost' = QUEUE_SIZE
      /\ lost' \in Nat
      /\ count <= semFull + Up' + Pw' + lost'
      /\ -count <= semEmpty + (Uh' - Up') + (Ph' - Pw') + lost'
  <2>1. CASE p \in Users
    <3> DEFINE h == One(pc[p], UserHolds)
               n == One(pc[p], {"postQueue", "postFull"})
    <3>1. Uh' = Uh - h /\ Up' = Up - n /\ Ph' = Ph /\ Pw' = Pw
      BY <1>a, <1>1, <1>3, <2>1, OutsideCounts
    <3>2. lost' = lost + h /\ h \in Nat /\ n \in Nat /\ n <= h
      BY <1>1, <2>1, ProgramsFacts DEF Holds, One, UserHolds
    <3> HIDE DEF h, n
    <3> QED
      BY <3>1, <3>2, ProgramsFacts
  <2>2. CASE p \in Printers
    <3> DEFINE h == One(pc[p], PrinterHolds)
               n == One(pc[p], {"waitQueue", "copy", "head", "count"})
    <3>1. Ph' = Ph - h /\ Pw' = Pw - n /\ Uh' = Uh /\ Up' = Up
      BY <1>a, <1>1, <1>3, <2>2, OutsideCounts
    <3>2. lost' = lost + h /\ h \in Nat /\ n \in Nat /\ n <= h
      BY <1>a, <1>1, <2>2, ProgramsFacts DEF Holds, One, PrinterHolds
    <3> HIDE DEF h, n
    <3> QED
      BY <3>1, <3>2, ProgramsFacts
  <2> QED
    BY <1>a, <2>1, <2>2
<1>6. task' \in [Processes -> Tasks \cup {Blank}]
  BY <1>1, ProgramsFacts
<1> QED
  BY <1>1, <1>2, <1>4, <1>5, <1>6, ProgramsFacts, ProgramsStepInv

\* Every step keeps the inductive invariant.
LEMMA ProgramsInductive == ProgramsInv /\ [ProgramsNext]_programVars => ProgramsInv'
<1> SUFFICES ASSUME ProgramsInv, [ProgramsNext]_programVars PROVE ProgramsInv'
  OBVIOUS
<1>1. CASE UNCHANGED programVars
  BY <1>1 DEF programVars, vars, ProgramsInv, ProgramsTypeOK, LabelsOK, RestartsExclude,
              InCritical, PlacesAccounted, CountBounded, Uh, Up, Ph, Pw, UsersAt, PrintersAt
<1> QED
  BY <1>1, RunUserStep, RunPrinterStep, SetupStep, KillStep DEF ProgramsNext

-----------------------------------------------------------------------------
(***************************************************************************)
(* The theorems.                                                           *)
(***************************************************************************)
\* The inductive invariant holds in every reachable state.
THEOREM ProgramsInvariance == ProgramsSpec => []ProgramsInv
  BY ProgramsInitInv, ProgramsInductive, PTL DEF ProgramsSpec

\* The indices stay on the ring, and count within its size, below 0 and above,
\* whatever restarts clear under running programs.
THEOREM ProgramsTypeCorrect == ProgramsSpec => []ProgramsTypeOK
<1>1. ProgramsInv => ProgramsTypeOK
  BY DEF ProgramsInv
<1> QED
  BY <1>1, ProgramsInvariance, PTL

\* Kills and restarts never let two programs into the critical section.
THEOREM RestartsSafe == ProgramsSpec => []RestartsExclude
<1>1. ProgramsInv => RestartsExclude
  BY DEF ProgramsInv
<1> QED
  BY <1>1, ProgramsInvariance, PTL

\* Every place of the ring is free, on offer, in the hands of a running program
\* or lost with a dead one.
THEOREM PlacesCorrect == ProgramsSpec => []PlacesAccounted
<1>1. ProgramsInv => PlacesAccounted
  BY DEF ProgramsInv
<1> QED
  BY <1>1, ProgramsInvariance, PTL

\* Once a program has died inside the critical section none enters it again.
THEOREM WedgedStays == ProgramsSpec => WedgedForever
<1>1. ProgramsInv /\ [ProgramsNext]_programVars => (Wedged => Wedged')
  <2> SUFFICES ASSUME ProgramsInv, [ProgramsNext]_programVars, Wedged PROVE Wedged'
    OBVIOUS
  <2>1. /\ semQueue = 0 /\ \A q \in Processes : ~InCritical(q)
        /\ LabelsOK
    BY DEF Wedged, ProgramsInv
  <2>2. CASE UNCHANGED programVars
    BY <2>1, <2>2 DEF programVars, vars, Wedged, InCritical
  <2>3. CASE ProgramsNext
    <3>1. PICK p \in Processes :
             \/ Start(p) \/ ResetHead(p) \/ ResetTail(p) \/ ResetCount(p)
             \/ RunUser(p) \/ RunPrinter(p) \/ Kill(p)
      BY <2>3 DEF ProgramsNext
    <3>2. PICK to : /\ Goto(p, pc[p], to) /\ semQueue' = semQueue /\ to \notin CriticalPc
      <4>1. CASE Start(p) \/ ResetHead(p) \/ ResetTail(p) \/ ResetCount(p)
        BY <4>1 DEF Start, ResetHead, ResetTail, ResetCount, FirstPc, Goto, CriticalPc, sems
      <4>2. CASE RunUser(p)
        <5>1. ~LockQueue(p) /\ ~UnlockQueue(p) /\ ~InCritical(p)
          BY <2>1 DEF LockQueue, UnlockQueue, Goto, InCritical
        <5>2. MakeTask(p) \/ WaitEmpty(p) \/ PostFull(p)
          BY <4>2, <5>1 DEF RunUser, User, PutTask, AdvanceTail, IncCount, Goto, InCritical
        <5> QED
          BY <5>2 DEF MakeTask, WaitEmpty, PostFull, Goto, CriticalPc, sems
      <4>3. CASE RunPrinter(p)
        <5>1. ~LockQueue(p) /\ ~UnlockQueue(p) /\ ~InCritical(p)
          BY <2>1 DEF LockQueue, UnlockQueue, Goto, InCritical
        <5>2. WaitFull(p) \/ PostEmpty(p) \/ PrintTask(p)
          BY <4>3, <5>1 DEF RunPrinter, Printer, TakeTask, AdvanceHead, DecCount, Goto, InCritical
        <5> QED
          BY <5>2 DEF WaitFull, PostEmpty, PrintTask, Goto, CriticalPc, sems
      <4>4. CASE Kill(p)
        <5>1. Goto(p, pc[p], "down") /\ semQueue' = semQueue
          BY <4>4 DEF Kill, Goto, sems
        <5> QED
          BY <5>1 DEF CriticalPc
      <4> QED
        BY <3>1, <4>1, <4>2, <4>3, <4>4
    <3>3. \A q \in Processes : ~InCritical(q)'
      BY <2>1, <3>2 DEF Goto, LabelsOK, InCritical, CriticalPc
    <3> QED
      BY <2>1, <3>2, <3>3 DEF Wedged
  <2> QED
    BY <2>2, <2>3
<1>2. ProgramsInv /\ [ProgramsNext]_programVars => [Wedged => Wedged']_programVars
  BY <1>1
<1> QED
  BY <1>2, ProgramsInvariance, PTL DEF ProgramsSpec, WedgedForever
=============================================================================
