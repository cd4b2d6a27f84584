-------------------------- MODULE PrintSpoolProofs --------------------------
(***************************************************************************)
(* Proof, for every number of users and printers and every size of the     *)
(* ring, that the loops of PrintQueue implement the bounded FIFO spool of  *)
(* PrintSpool.                                                             *)
(***************************************************************************)
EXTENDS PrintQueueProofs, SequenceTheorems

\* The head counts of the refinement mapping.
Ut == UsersAt({"tail", "count"})
Po == PrintersAt({"head", "count"})
Ph1 == PrintersAt({"head"})

\* The slot of the i-th job that waits.
SlotOf(i) == (head + Ph1 + i - 1) % QUEUE_SIZE

\* The mapping in these terms.
LEMMA SpoolTerms ==
    /\ SpoolLen = count + Ut - Po
    /\ SpoolLen' = count' + Ut' - Po'
    /\ Spooled = [i \in 1 .. SpoolLen |-> queue[SlotOf(i)]]
    /\ Spooled' = [i \in 1 .. SpoolLen' |-> queue'[SlotOf(i)']]
    /\ \A i : SlotOf(i)' = (head' + Ph1' + i - 1) % QUEUE_SIZE
  BY DEF SpoolLen, Spooled, SlotOf, Ut, Po, Ph1

\* The head counts are numbers, and no more printers have moved their job than
\* count knows of.
LEMMA SpoolCounts ==
    /\ Ut \in Nat /\ Po \in Nat /\ Ph1 \in Nat /\ Po <= Pw
<1>1. {"head", "count"} \subseteq {"waitQueue", "copy", "head", "count"}
  OBVIOUS
<1>2. Po \in Nat /\ Po <= Pw
  BY <1>1, AtMono DEF Po, Pw
<1> QED
  BY <1>2, AtMono DEF Ut, Ph1

\* A process about to copy is the only one in the ring: no index is ahead of its
\* count, and no slot has been copied that head still points at.
LEMMA CopierAlone ==
    ASSUME MutualExclusion, NEW p \in Processes, pc[p] = "copy"
    PROVE  Ut = 0 /\ Po = 0 /\ Ph1 = 0
<1>1. \A q \in Processes : pc[q] \notin {"tail", "count", "head"}
  BY DEF MutualExclusion, InCritical
<1>2. /\ Having(Users, pc, {"tail", "count"}) = {}
      /\ Having(Printers, pc, {"head", "count"}) = {}
      /\ Having(Printers, pc, {"head"}) = {}
  BY <1>1 DEF Having, Processes
<1> QED
  BY <1>2, AtHaving, FS_EmptySet DEF Ut, Po, Ph1

\* A printer about to move head is the only one with a copied job.
LEMMA MoverAlone ==
    ASSUME MutualExclusion, NEW p \in Printers, pc[p] = "head"
    PROVE  Ph1 = 1 /\ Ut = 0
<1>1. Having(Printers, pc, {"head"}) = {p}
  BY DEF MutualExclusion, InCritical, Processes, Having
<1>2. Having(Users, pc, {"tail", "count"}) = {}
  BY PrintQueueAssumption DEF MutualExclusion, InCritical, Processes, Having
<1>3. Cardinality({p}) = 1 /\ Cardinality({}) = 0
  BY FS_Singleton, FS_EmptySet
<1> QED
  BY <1>1, <1>2, <1>3, AtHaving DEF Ph1, Ut

\* The jobs that wait have their slots on the ring.
LEMMA SlotOnRing ==
    ASSUME TypeOK, NEW i \in Nat \ {0}
    PROVE  SlotOf(i) \in Slots /\ queue[SlotOf(i)] \in Tasks \cup {Blank}
<1>1. head \in Nat /\ QUEUE_SIZE \in Nat \ {0} /\ Ph1 \in Nat
  BY PrintQueueAssumption, SpoolCounts DEF TypeOK, Slots
<1>2. SlotOf(i) \in Slots
  <2> DEFINE x == head + Ph1 + i - 1
  <2>1. x \in Nat /\ SlotOf(i) = x % QUEUE_SIZE
    BY <1>1 DEF SlotOf
  <2> HIDE DEF x
  <2> QED
    BY <1>1, <2>1 DEF Slots
<1> QED
  BY <1>2 DEF TypeOK

\* A number on the ring and at most its size beyond, taken back to it.
LEMMA RingModulus ==
    ASSUME NEW h \in Slots, NEW i \in 0 .. QUEUE_SIZE
    PROVE  (h + i) % QUEUE_SIZE = IF h + i < QUEUE_SIZE THEN h + i ELSE h + i - QUEUE_SIZE
<1>1. QUEUE_SIZE \in Nat /\ QUEUE_SIZE > 0
  BY PrintQueueAssumption
<1>2. CASE h + i < QUEUE_SIZE
  BY <1>1, <1>2 DEF Slots
<1>3. CASE h + i >= QUEUE_SIZE
  BY <1>1, <1>3 DEF Slots
<1> QED
  BY <1>1, <1>2, <1>3 DEF Slots

\* The spool is a sequence of jobs, of the length the counts give it.
LEMMA SpoolIsSeq ==
    ASSUME TypeOK, SpoolLen \in Nat
    PROVE  /\ Spooled \in Seq(Tasks \cup {Blank}) /\ Len(Spooled) = SpoolLen
           /\ \A i \in 1 .. SpoolLen : Spooled[i] = queue[SlotOf(i)]
<1>1. \A i \in 1 .. SpoolLen : queue[SlotOf(i)] \in Tasks \cup {Blank}
  BY SlotOnRing
<1>2. Spooled \in [1 .. SpoolLen -> Tasks \cup {Blank}]
  BY <1>1, SpoolTerms
<1> QED
  BY <1>2, SpoolTerms

\* The spool is never shorter than empty.
LEMMA SpoolLenNat == IInv => SpoolLen \in Nat
<1> SUFFICES ASSUME IInv PROVE SpoolLen \in Nat
  OBVIOUS
<1>1. count = semFull + Up + Pw /\ semFull \in Nat
  BY RingEquations DEF IInv, TypeOK
<1>2. Up \in Nat /\ Pw \in Nat
  BY CountsOrdered
<1> QED
  BY <1>1, <1>2, SpoolTerms, SpoolCounts

-----------------------------------------------------------------------------
(***************************************************************************)
(* The steps that PrintSpool does not see, or sees only in a process's own *)
(* work: they leave the spool alone.                                       *)
(***************************************************************************)
\* A step that leaves the ring where it is, or takes count along with the head
\* counts, leaves the spool alone.
LEMMA SpoolKept ==
    ASSUME queue' = queue, count' + Ut' - Po' = count + Ut - Po,
           \A i \in 1 .. SpoolLen : SlotOf(i)' = SlotOf(i)
    PROVE  Spooled' = Spooled
  BY SpoolTerms

\* What a step of a user does to the head counts.
LEMMA UserMoved ==
    ASSUME PcOK, NEW u \in Users, NEW from, NEW to, Goto(u, from, to)
    PROVE  /\ Ut' = Ut + One(to, {"tail", "count"}) - One(from, {"tail", "count"})
           /\ Po' = Po /\ Ph1' = Ph1
  BY UserMoves DEF Ut, Po, Ph1, PcOK, PcFun

\* What a step of a printer does to the head counts.
LEMMA PrinterMoved ==
    ASSUME PcOK, NEW p \in Printers, NEW from, NEW to, Goto(p, from, to)
    PROVE  /\ Po' = Po + One(to, {"head", "count"}) - One(from, {"head", "count"})
           /\ Ph1' = Ph1 + One(to, {"head"}) - One(from, {"head"})
           /\ Ut' = Ut
  BY PrinterMoves DEF Ut, Po, Ph1, PcOK, PcFun

\* The statements at which a process has a job in hand.
WithJobPc(p) == IF p \in Users THEN {"waitEmpty", "waitQueue", "copy"}
                ELSE {"head", "count", "postQueue", "postEmpty", "print"}

\* Who has a job in hand after a step.
LEMMA JobsMoved ==
    ASSUME PcOK, NEW p \in Processes, NEW from, NEW to, Goto(p, from, to)
    PROVE  /\ p \in WithJob <=> from \in WithJobPc(p)
           /\ WithJob' = IF to \in WithJobPc(p) THEN WithJob \cup {p} ELSE WithJob \ {p}
<1>1. /\ pc[p] = from /\ pc'[p] = to
      /\ \A q \in Processes : q # p => pc'[q] = pc[q]
  BY DEF Goto, PcOK
<1>2. /\ \A q \in Processes : q \in WithJob <=> pc[q] \in WithJobPc(q)
      /\ \A q \in Processes : q \in WithJob' <=> pc'[q] \in WithJobPc(q)
      /\ WithJob \subseteq Processes /\ WithJob' \subseteq Processes
  BY PrintQueueAssumption DEF WithJob, WithJobPc, Processes
<1> QED
  BY <1>1, <1>2

\* A step of PrintSpool, or none.
Simulates == Spool!SpoolNext \/ UNCHANGED <<Spooled, task, WithJob>>

\* A step of a user other than the copy: at most the user begins a job.
LEMMA UserQuiet ==
    ASSUME IInv, NEW u \in Users, User(u), ~PutTask(u)
    PROVE  Simulates
<1>a. /\ PcOK /\ u \in Processes /\ Processes = Users \cup Printers
      /\ WithJobPc(u) = {"waitEmpty", "waitQueue", "copy"}
      /\ head \in Slots /\ tail \in Slots /\ count \in Nat
  BY TypePc DEF IInv, TypeOK, Processes, WithJobPc
<1>b. Ut \in Nat /\ Po \in Nat /\ Ph1 \in Nat /\ SpoolLen = count + Ut - Po
  BY SpoolCounts, SpoolTerms
<1>1. CASE MakeTask(u)
  <2>1. Goto(u, "make", "waitEmpty") /\ UNCHANGED <<shm, sems>>
        /\ \E t \in Tasks : task' = [task EXCEPT ![u] = t]
    BY <1>1 DEF MakeTask
  <2>2. Ut' = Ut /\ Po' = Po /\ Ph1' = Ph1
    BY <1>a, <1>b, <2>1, UserMoved DEF One
  <2>3. Spooled' = Spooled
    BY <2>1, <2>2, SpoolKept, SpoolTerms DEF shm, SlotOf
  <2>4. u \notin WithJob /\ WithJob' = WithJob \cup {u}
    BY <1>a, <2>1, JobsMoved
  <2>5. Spool!MakeJob(u)
    BY <2>1, <2>3, <2>4 DEF Spool!MakeJob
  <2> QED
    BY <2>5 DEF Simulates, Spool!SpoolNext
<1>2. CASE ~MakeTask(u)
  <2>1. /\ UNCHANGED <<queue, head, task>>
        /\ \/ Goto(u, "waitEmpty", "waitQueue") /\ count' = count
           \/ Goto(u, "waitQueue", "copy") /\ count' = count
           \/ Goto(u, "tail", "count") /\ count' = count
           \/ Goto(u, "count", "postQueue") /\ count' = count + 1
           \/ Goto(u, "postQueue", "postFull") /\ count' = count
           \/ Goto(u, "postFull", "make") /\ count' = count
    BY <1>2 DEF User, WaitEmpty, LockQueue, AdvanceTail, IncCount, UnlockQueue, PostFull, shm
  <2>2. count' + Ut' - Po' = count + Ut - Po /\ Ph1' = Ph1
    BY <1>a, <1>b, <2>1, UserMoved DEF One
  <2>3. Spooled' = Spooled
    BY <2>1, <2>2, SpoolKept, SpoolTerms DEF SlotOf
  <2>4. WithJob' = WithJob
    BY <1>a, <2>1, JobsMoved
  <2> QED
    BY <2>1, <2>3, <2>4 DEF Simulates
<1> QED
  BY <1>1, <1>2

\* A step of a printer other than the copy: at most the printer ends a job.
LEMMA PrinterQuiet ==
    ASSUME IInv, NEW p \in Printers, Printer(p), ~TakeTask(p)
    PROVE  Simulates
<1>a. /\ PcOK /\ p \in Processes /\ p \notin Users /\ MutualExclusion
      /\ WithJobPc(p) = {"head", "count", "postQueue", "postEmpty", "print"}
      /\ head \in Slots /\ tail \in Slots /\ count \in 0 .. QUEUE_SIZE
      /\ QUEUE_SIZE \in Nat \ {0}
  BY TypePc, PrintQueueAssumption DEF IInv, TypeOK, Processes, WithJobPc
<1>b. /\ Ut \in Nat /\ Po \in Nat /\ Ph1 \in Nat /\ SpoolLen = count + Ut - Po
      /\ SpoolLen \in Nat
  BY SpoolCounts, SpoolTerms, SpoolLenNat
<1>1. CASE PrintTask(p)
  <2>1. Goto(p, "print", "waitFull") /\ UNCHANGED <<shm, sems, task>>
    BY <1>1 DEF PrintTask
  <2>2. Ut' = Ut /\ Po' = Po /\ Ph1' = Ph1
    BY <1>a, <1>b, <2>1, PrinterMoved DEF One
  <2>3. Spooled' = Spooled
    BY <2>1, <2>2, SpoolKept, SpoolTerms DEF shm, SlotOf
  <2>4. p \in WithJob /\ WithJob' = WithJob \ {p}
    BY <1>a, <2>1, JobsMoved
  <2>5. Spool!FinishJob(p)
    BY <2>1, <2>3, <2>4 DEF Spool!FinishJob
  <2> QED
    BY <2>5 DEF Simulates, Spool!SpoolNext
<1>2. CASE AdvanceHead(p)
  <2>1. /\ Goto(p, "head", "count") /\ pc[p] = "head"
        /\ head' = NextSlot(head) /\ UNCHANGED <<queue, count, task>>
    BY <1>2 DEF AdvanceHead, Goto
  <2>2. Ph1 = 1 /\ Ut = 0 /\ Ph1' = 0 /\ Ut' = Ut /\ Po' = Po
    BY <1>a, <1>b, <2>1, PrinterMoved, MoverAlone DEF One
  <2>3. ASSUME NEW i \in 1 .. SpoolLen
        PROVE  SlotOf(i)' = SlotOf(i)
    <3>1. i \in Nat /\ 1 <= i /\ i <= QUEUE_SIZE
      BY <1>a, <1>b, <2>2
    <3>2. SlotOf(i) = (head + i) % QUEUE_SIZE
      <4>1. head + 1 + i - 1 = head + i
        BY <1>a, <3>1 DEF Slots
      <4> QED
        BY <2>2, <4>1 DEF SlotOf
    <3>3. SlotOf(i)' = (head' + (i - 1)) % QUEUE_SIZE
      <4>1. head' \in Slots
        BY <1>a, <2>1, NextSlotValue DEF Slots
      <4>2. head' + 0 + i - 1 = head' + (i - 1)
        BY <3>1, <4>1 DEF Slots
      <4> QED
        BY <2>2, <4>2 DEF SlotOf
    <3>4. (head + i) % QUEUE_SIZE = IF head + i < QUEUE_SIZE THEN head + i
                                    ELSE head + i - QUEUE_SIZE
      BY <1>a, <3>1, RingModulus
    <3>5. head' = IF head = QUEUE_SIZE - 1 THEN 0 ELSE head + 1
      BY <1>a, <2>1, NextSlotValue
    <3>6. head' \in Slots /\ i - 1 \in 0 .. QUEUE_SIZE
      BY <1>a, <3>1, <3>5 DEF Slots
    <3>7. (head' + (i - 1)) % QUEUE_SIZE
            = IF head' + (i - 1) < QUEUE_SIZE THEN head' + (i - 1)
              ELSE head' + (i - 1) - QUEUE_SIZE
      BY <3>6, RingModulus
    <3> QED
      BY <1>a, <3>1, <3>2, <3>3, <3>4, <3>5, <3>6, <3>7 DEF Slots
  <2>4. Spooled' = Spooled
    BY <2>1, <2>2, <2>3, SpoolKept
  <2>5. WithJob' = WithJob
    BY <1>a, <2>1, JobsMoved
  <2> QED
    BY <2>1, <2>4, <2>5 DEF Simulates
<1>3. CASE ~PrintTask(p) /\ ~AdvanceHead(p)
  <2>1. /\ UNCHANGED <<queue, head, task>>
        /\ \/ Goto(p, "waitFull", "waitQueue") /\ count' = count
           \/ Goto(p, "waitQueue", "copy") /\ count' = count
           \/ Goto(p, "count", "postQueue") /\ count' = count - 1
           \/ Goto(p, "postQueue", "postEmpty") /\ count' = count
           \/ Goto(p, "postEmpty", "print") /\ count' = count
    BY <1>a, <1>3 DEF Printer, WaitFull, LockQueue, DecCount, UnlockQueue, PostEmpty, shm
  <2>2. count' + Ut' - Po' = count + Ut - Po /\ Ph1' = Ph1
    BY <1>a, <1>b, <2>1, PrinterMoved DEF One
  <2>3. Spooled' = Spooled
    BY <2>1, <2>2, SpoolKept, SpoolTerms DEF SlotOf
  <2>4. WithJob' = WithJob
    BY <1>a, <2>1, JobsMoved
  <2> QED
    BY <2>1, <2>3, <2>4 DEF Simulates
<1> QED
  BY <1>1, <1>2, <1>3

-----------------------------------------------------------------------------
(***************************************************************************)
(* The two copies.                                                         *)
(***************************************************************************)
\* A user's copy submits its job: it goes behind those that wait, in the slot
\* that none of them has.
LEMMA CopyIn ==
    ASSUME IInv, NEW u \in Users, PutTask(u)
    PROVE  Simulates
<1>a. /\ TypeOK /\ PcOK /\ MutualExclusion /\ u \in Processes
      /\ WithJobPc(u) = {"waitEmpty", "waitQueue", "copy"}
      /\ head \in Slots /\ tail \in Slots /\ count \in Nat
      /\ QUEUE_SIZE \in Nat \ {0}
  BY TypePc, PrintQueueAssumption DEF IInv, TypeOK, Processes, WithJobPc
<1>1. /\ Goto(u, "copy", "tail") /\ pc[u] = "copy"
      /\ queue' = [queue EXCEPT ![tail] = task[u]]
      /\ UNCHANGED <<head, tail, count, task>>
  BY DEF PutTask, Goto
<1>2. /\ Ut = 0 /\ Po = 0 /\ Ph1 = 0 /\ Uc = 0 /\ Pc = 0
      /\ Ut' = 1 /\ Po' = 0 /\ Ph1' = 0
  BY <1>a, <1>1, CopierAlone, NobodyCounts, UserMoved DEF One, InCritical
<1>3. SpoolLen = count /\ SpoolLen' = count + 1
  BY <1>a, <1>1, <1>2, SpoolTerms
<1>4. count \in 0 .. QUEUE_SIZE - 1
  <2>1. /\ semEmpty + semFull + Uh + Ph = QUEUE_SIZE
        /\ count = semFull + Up + Pw
        /\ semEmpty \in Nat /\ semFull \in Nat
    BY RingEquations DEF IInv, TypeOK
  <2>2. /\ Up + 1 <= Uh /\ Pw <= Ph
        /\ Uh \in Nat /\ Up \in Nat /\ Ph \in Nat /\ Pw \in Nat
    BY <1>1, CountsOrdered
  <2> QED
    BY <1>a, <2>1, <2>2
<1>5. tail = head + count \/ tail = head + count - QUEUE_SIZE
  BY <1>a, <1>2, RingEquations DEF IInv, Slots
<1>6. ASSUME NEW i \in 1 .. count + 1
      PROVE  /\ SlotOf(i) = (head + (i - 1)) % QUEUE_SIZE
             /\ SlotOf(i)' = SlotOf(i)
  <2>1. head + 0 + i - 1 = head + (i - 1)
    BY <1>a DEF Slots
  <2> QED
    BY <1>1, <1>2, <2>1 DEF SlotOf
<1>7. \A i \in 1 .. count : SlotOf(i) # tail
  <2> SUFFICES ASSUME NEW i \in 1 .. count PROVE SlotOf(i) # tail
    OBVIOUS
  <2>1. i - 1 \in 0 .. count - 1 /\ i \in 1 .. count + 1
    BY <1>a
  <2> QED
    BY <1>a, <1>4, <1>5, <1>6, <2>1, SlotsApart
<1>8. SlotOf(count + 1) = tail
  <2>1. count + 1 \in 1 .. count + 1 /\ (count + 1) - 1 = count /\ count \in 0 .. QUEUE_SIZE
    BY <1>a, <1>4
  <2>2. SlotOf(count + 1) = (head + count) % QUEUE_SIZE
    BY <1>6, <2>1
  <2>3. (head + count) % QUEUE_SIZE = IF head + count < QUEUE_SIZE THEN head + count
                                      ELSE head + count - QUEUE_SIZE
    BY <1>a, <2>1, RingModulus
  <2> QED
    BY <1>a, <1>5, <2>1, <2>2, <2>3 DEF Slots
<1>9. Spooled' = Append(Spooled, task[u])
  <2> DEFINE S == Tasks \cup {Blank}
  <2>1. /\ Spooled \in Seq(S) /\ Len(Spooled) = count
        /\ \A i \in 1 .. count : Spooled[i] = queue[SlotOf(i)]
    BY <1>a, <1>3, SpoolIsSeq
  <2>2. task[u] \in S
    BY <1>a DEF TypeOK
  <2>3. Spooled' = [i \in 1 .. count + 1 |-> IF i = count + 1 THEN task[u] ELSE Spooled[i]]
    <3>1. Spooled' = [i \in 1 .. count + 1 |-> queue'[SlotOf(i)']]
      BY <1>3, SpoolTerms
    <3>2. ASSUME NEW i \in 1 .. count + 1
          PROVE  queue'[SlotOf(i)'] = IF i = count + 1 THEN task[u] ELSE Spooled[i]
      <4>1. SlotOf(i)' = SlotOf(i) /\ SlotOf(i) \in Slots
        BY <1>a, <1>6, SlotOnRing
      <4>2. CASE i = count + 1
        BY <1>a, <1>1, <1>8, <4>1, <4>2 DEF TypeOK
      <4>3. CASE i # count + 1
        <5>1. i \in 1 .. count
          BY <1>a, <4>3
        <5> QED
          BY <1>a, <1>1, <1>7, <2>1, <4>1, <4>3, <5>1 DEF TypeOK
      <4> QED
        BY <4>2, <4>3
    <3> QED
      BY <3>1, <3>2
  <2>4. /\ Append(Spooled, task[u]) \in Seq(S)
        /\ Len(Append(Spooled, task[u])) = count + 1
        /\ \A i \in 1 .. count : Append(Spooled, task[u])[i] = Spooled[i]
        /\ Append(Spooled, task[u])[count + 1] = task[u]
    BY <2>1, <2>2, AppendProperties
  <2>5. Append(Spooled, task[u])
          = [i \in 1 .. count + 1 |-> IF i = count + 1 THEN task[u] ELSE Spooled[i]]
    BY <1>a, <2>4
  <2> QED
    BY <2>3, <2>5
<1>10. Len(Spooled) < QUEUE_SIZE
  BY <1>a, <1>3, <1>4, SpoolIsSeq
<1>11. u \in WithJob /\ WithJob' = WithJob \ {u}
  BY <1>a, <1>1, JobsMoved
<1>12. Spool!Submit(u)
  BY <1>1, <1>9, <1>10, <1>11 DEF Spool!Submit
<1> QED
  BY <1>12 DEF Simulates, Spool!SpoolNext

\* A printer's copy takes the oldest job: the slot at head is the first of the
\* spool, and the rest begins one slot further.
LEMMA CopyOut ==
    ASSUME IInv, NEW p \in Printers, TakeTask(p)
    PROVE  Simulates
<1>a. /\ TypeOK /\ PcOK /\ MutualExclusion /\ p \in Processes /\ p \notin Users
      /\ WithJobPc(p) = {"head", "count", "postQueue", "postEmpty", "print"}
      /\ head \in Slots /\ count \in Nat /\ QUEUE_SIZE \in Nat \ {0}
  BY TypePc, PrintQueueAssumption DEF IInv, TypeOK, Processes, WithJobPc
<1>1. /\ Goto(p, "copy", "head") /\ pc[p] = "copy"
      /\ task' = [task EXCEPT ![p] = queue[head]]
      /\ UNCHANGED <<queue, head, tail, count>>
  BY DEF TakeTask, Goto, shm
<1>2. /\ Ut = 0 /\ Po = 0 /\ Ph1 = 0
      /\ Ut' = 0 /\ Po' = 1 /\ Ph1' = 1
  BY <1>a, <1>1, CopierAlone, PrinterMoved DEF One
<1>3. SpoolLen = count /\ SpoolLen' = count - 1
  BY <1>a, <1>1, <1>2, SpoolTerms
<1>4. count > 0
  <2>1. Pc + 1 <= Pw /\ Pc \in Nat /\ Pw \in Nat /\ Up \in Nat
    BY <1>1, CountsOrdered
  <2>2. count = semFull + Up + Pw /\ semFull \in Nat
    BY RingEquations DEF IInv, TypeOK
  <2> QED
    BY <2>1, <2>2
<1>5. /\ Spooled \in Seq(Tasks \cup {Blank}) /\ Len(Spooled) = count
      /\ \A i \in 1 .. count : Spooled[i] = queue[SlotOf(i)]
  BY <1>a, <1>3, SpoolIsSeq
<1>6. Spooled # <<>>
  BY <1>4, <1>5
<1>7. Head(Spooled) = queue[head]
  <2>1. SlotOf(1) = head
    <3>1. 0 \in 0 .. QUEUE_SIZE
      BY <1>a
    <3>2. (head + 0) % QUEUE_SIZE = IF head + 0 < QUEUE_SIZE THEN head + 0
                                    ELSE head + 0 - QUEUE_SIZE
      BY <1>a, <3>1, RingModulus
    <3>3. head + 0 + 1 - 1 = head + 0 /\ (head + 0) % QUEUE_SIZE = head
      BY <1>a, <3>2 DEF Slots
    <3> QED
      BY <1>2, <3>3 DEF SlotOf
  <2>2. Spooled[1] = queue[head]
    BY <1>a, <1>4, <1>5, <2>1
  <2> QED
    BY <1>5, <1>6, <2>2
<1>8. Spooled' = Tail(Spooled)
  <2>1. \A i \in 1 .. count - 1 : queue'[SlotOf(i)'] = Spooled[i + 1]
    <3> SUFFICES ASSUME NEW i \in 1 .. count - 1
                 PROVE  queue'[SlotOf(i)'] = Spooled[i + 1]
      OBVIOUS
    <3>1. head + 1 + i - 1 = head + 0 + (i + 1) - 1 /\ i + 1 \in 1 .. count
      BY <1>a DEF Slots
    <3>2. SlotOf(i)' = SlotOf(i + 1)
      BY <1>1, <1>2, <3>1 DEF SlotOf
    <3> QED
      BY <1>1, <1>5, <3>1, <3>2
  <2>2. Spooled' = [i \in 1 .. count - 1 |-> Spooled[i + 1]]
    <3>1. Spooled' = [i \in 1 .. count - 1 |-> queue'[SlotOf(i)']]
      BY <1>3, SpoolTerms
    <3> QED
      BY <2>1, <3>1
  <2>3. /\ Tail(Spooled) \in Seq(Tasks \cup {Blank})
        /\ Len(Tail(Spooled)) = count - 1
        /\ \A i \in 1 .. count - 1 : Tail(Spooled)[i] = Spooled[i + 1]
    BY <1>5, <1>6, HeadTailProperties
  <2>4. Tail(Spooled) = [i \in 1 .. count - 1 |-> Spooled[i + 1]]
    <3>1. Tail(Spooled) \in [1 .. count - 1 -> Tasks \cup {Blank}]
      BY <2>3, LenProperties
    <3> QED
      BY <2>3, <3>1
  <2> QED
    BY <2>2, <2>4
<1>9. p \notin WithJob /\ WithJob' = WithJob \cup {p}
  BY <1>a, <1>1, JobsMoved
<1>10. Spool!Take(p)
  BY <1>1, <1>6, <1>7, <1>8, <1>9 DEF Spool!Take
<1> QED
  BY <1>10 DEF Simulates, Spool!SpoolNext

-----------------------------------------------------------------------------
\* Every step of the loops is a step of the spool, or none.
LEMMA SpoolStep == IInv /\ [Next]_vars => Simulates
<1> SUFFICES ASSUME IInv, [Next]_vars PROVE Simulates
  OBVIOUS
<1>1. CASE UNCHANGED vars
  <2>1. UNCHANGED <<queue, head, count, task, pc>>
    BY <1>1 DEF vars
  <2>2. Ut' = Ut /\ Po' = Po /\ Ph1' = Ph1 /\ WithJob' = WithJob
    BY <2>1 DEF Ut, Po, Ph1, UsersAt, PrintersAt, WithJob
  <2>3. Spooled' = Spooled
    BY <2>1, <2>2, SpoolKept, SpoolTerms DEF SlotOf
  <2> QED
    BY <2>1, <2>2, <2>3 DEF Simulates
<1> QED
  BY <1>1, UserQuiet, PrinterQuiet, CopyIn, CopyOut DEF Next

\* The loops of zad2.c implement the bounded FIFO spool: a job is submitted once
\* and by nobody else, the printers take the oldest job each time, and nobody
\* takes a job twice or before it has printed the last.
THEOREM Implementation == Spec => ImplementsSpool
<1>1. Init => Spool!SpoolInit
  <2> SUFFICES ASSUME Init PROVE Spool!SpoolInit
    OBVIOUS
  <2>1. /\ \A u \in Users : pc[u] = "make"
        /\ \A p \in Printers : pc[p] = "waitFull"
    BY PrintQueueAssumption DEF Init, FirstPc, Processes
  <2>2. WithJob = {}
    BY <2>1 DEF WithJob
  <2>3. Ut = 0 /\ Po = 0 /\ Ph1 = 0
    <3>1. /\ Having(Users, pc, {"tail", "count"}) = {}
          /\ Having(Printers, pc, {"head", "count"}) = {}
          /\ Having(Printers, pc, {"head"}) = {}
      BY <2>1 DEF Having
    <3> QED
      BY <3>1, AtHaving, FS_EmptySet DEF Ut, Po, Ph1
  <2>4. SpoolLen = 0
    BY <2>3, SpoolTerms DEF Init, ShmInit
  <2>5. TypeOK
    BY InitInv DEF IInv
  <2>6. Spooled = <<>>
    BY <2>4, <2>5, SpoolIsSeq
  <2> QED
    BY <2>2, <2>6 DEF Spool!SpoolInit, Init, Processes
<1>2. IInv /\ [Next]_vars => [Spool!SpoolNext]_(Spool!spoolVars)
  BY SpoolStep DEF Simulates, Spool!spoolVars
<1> QED
  BY <1>1, <1>2, Invariance, PTL DEF Spec, ImplementsSpool, Spool!SpoolSpec
=============================================================================
