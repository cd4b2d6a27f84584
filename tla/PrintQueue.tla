----------------------------- MODULE PrintQueue -----------------------------
(***************************************************************************)
(* The print queue of lab-8/zad.c: a ring of QUEUE_SIZE slots in shared    *)
(* memory, filled by forked user processes and emptied by forked printer   *)
(* processes, with three named semaphores.  The programs user.c and        *)
(* printer.c run the same two loops; how they start and stop is in         *)
(* PrintPrograms.  Every statement that reads or writes shared state is an *)
(* action; the pc names the statement a process executes next.             *)
(***************************************************************************)
EXTENDS Integers, FiniteSets, Sequences

CONSTANTS Users,       \* the N user processes
          Printers,    \* the M printer processes
          Tasks,       \* what the ten random characters of a task can be
          Blank,       \* contents of a slot or a local buffer never written
          QUEUE_SIZE   \* slots of the ring

ASSUME PrintQueueAssumption ==
    /\ IsFiniteSet(Users)
    /\ IsFiniteSet(Printers)
    /\ Users \cap Printers = {}
    /\ Blank \notin Tasks
    /\ QUEUE_SIZE \in Nat \ {0}

VARIABLES queue, head, tail, count,      \* struct shared_queue
          semQueue, semEmpty, semFull,   \* the values of the semaphores
          task,                          \* the local buffer of each process
          pc                             \* its next statement

shm  == <<queue, head, tail, count>>
sems == <<semQueue, semEmpty, semFull>>
vars == <<queue, head, tail, count, semQueue, semEmpty, semFull, task, pc>>

Processes == Users \cup Printers
Slots == 0 .. QUEUE_SIZE - 1

UserPc    == {"make", "waitEmpty", "waitQueue", "copy", "tail", "count",
              "postQueue", "postFull"}
PrinterPc == {"waitFull", "waitQueue", "copy", "head", "count", "postQueue",
              "postEmpty", "print"}
FirstPc(p) == IF p \in Users THEN "make" ELSE "waitFull"

Goto(p, from, to) ==
    /\ pc[p] = from
    /\ pc' = [pc EXCEPT ![p] = to]

\* A fault: the modulus is forgotten.
NextSlotUnwrapped(i) == i + 1

\* The slot after i on the ring.
NextSlot(i) == (i + 1) % QUEUE_SIZE

UsersAt(labels)    == Cardinality({u \in Users : pc[u] \in labels})
PrintersAt(labels) == Cardinality({p \in Printers : pc[p] \in labels})

-----------------------------------------------------------------------------
\* main() up to the forks: fresh shared memory and fresh semaphores.
ShmInit ==
    /\ queue = [i \in Slots |-> Blank]
    /\ head = 0
    /\ tail = 0
    /\ count = 0

\* A first run: sem_open(O_CREAT) makes the semaphores.  It would leave ones it
\* finds as they are; PrintPrograms is about that.
SemInit ==
    /\ semQueue = 1
    /\ semEmpty = QUEUE_SIZE
    /\ semFull = 0

Init ==
    /\ ShmInit
    /\ SemInit
    /\ task = [p \in Processes |-> Blank]
    /\ pc = [p \in Processes |-> FirstPc(p)]

\* A fault: the ring is entered without the lock.
LockQueueFree(p) ==
    /\ Goto(p, "waitQueue", "copy")
    /\ UNCHANGED <<shm, sems, task>>

\* Both loops: sem_wait(sem_queue) and sem_post(sem_queue).
LockQueue(p) ==
    /\ Goto(p, "waitQueue", "copy")
    /\ semQueue > 0
    /\ semQueue' = semQueue - 1
    /\ UNCHANGED <<shm, semEmpty, semFull, task>>

UnlockQueue(p) ==
    /\ Goto(p, "postQueue", IF p \in Users THEN "postFull" ELSE "postEmpty")
    /\ semQueue' = semQueue + 1
    /\ UNCHANGED <<shm, semEmpty, semFull, task>>

-----------------------------------------------------------------------------
\* The loop of a user.

MakeTask(u) ==
    /\ Goto(u, "make", "waitEmpty")
    /\ \E t \in Tasks : task' = [task EXCEPT ![u] = t]
    /\ UNCHANGED <<shm, sems>>

\* A fault: the user does not wait for a free place.
WaitEmptyFree(u) ==
    /\ Goto(u, "waitEmpty", "waitQueue")
    /\ semEmpty' = IF semEmpty > 0 THEN semEmpty - 1 ELSE 0
    /\ UNCHANGED <<shm, semQueue, semFull, task>>

WaitEmpty(u) ==
    /\ Goto(u, "waitEmpty", "waitQueue")
    /\ semEmpty > 0
    /\ semEmpty' = semEmpty - 1
    /\ UNCHANGED <<shm, semQueue, semFull, task>>

PutTask(u) ==
    /\ Goto(u, "copy", "tail")
    /\ queue' = [queue EXCEPT ![tail] = task[u]]
    /\ UNCHANGED <<head, tail, count, sems, task>>

AdvanceTail(u) ==
    /\ Goto(u, "tail", "count")
    /\ tail' = NextSlot(tail)
    /\ UNCHANGED <<queue, head, count, sems, task>>

IncCount(u) ==
    /\ Goto(u, "count", "postQueue")
    /\ count' = count + 1
    /\ UNCHANGED <<queue, head, tail, sems, task>>

\* A fault: the task is not put on offer.
PostFullForgotten(u) ==
    /\ Goto(u, "postFull", "make")
    /\ UNCHANGED <<shm, sems, task>>

PostFull(u) ==
    /\ Goto(u, "postFull", "make")
    /\ semFull' = semFull + 1
    /\ UNCHANGED <<shm, semQueue, semEmpty, task>>

User(u) ==
    \/ MakeTask(u) \/ WaitEmpty(u) \/ LockQueue(u) \/ PutTask(u)
    \/ AdvanceTail(u) \/ IncCount(u) \/ UnlockQueue(u) \/ PostFull(u)

-----------------------------------------------------------------------------
\* The loop of a printer.

WaitFull(p) ==
    /\ Goto(p, "waitFull", "waitQueue")
    /\ semFull > 0
    /\ semFull' = semFull - 1
    /\ UNCHANGED <<shm, semQueue, semEmpty, task>>

\* A fault: head is advanced before the copy, not after it.
TakeTaskLate(p) ==
    /\ Goto(p, "copy", "head")
    /\ task' = [task EXCEPT ![p] = queue[NextSlot(head)]]
    /\ UNCHANGED <<shm, sems>>

TakeTask(p) ==
    /\ Goto(p, "copy", "head")
    /\ task' = [task EXCEPT ![p] = queue[head]]
    /\ UNCHANGED <<shm, sems>>

AdvanceHead(p) ==
    /\ Goto(p, "head", "count")
    /\ head' = NextSlot(head)
    /\ UNCHANGED <<queue, tail, count, sems, task>>

\* A fault: the printer leaves count alone.
DecCountForgotten(p) ==
    /\ Goto(p, "count", "postQueue")
    /\ UNCHANGED <<shm, sems, task>>

DecCount(p) ==
    /\ Goto(p, "count", "postQueue")
    /\ count' = count - 1
    /\ UNCHANGED <<queue, head, tail, sems, task>>

PostEmpty(p) ==
    /\ Goto(p, "postEmpty", "print")
    /\ semEmpty' = semEmpty + 1
    /\ UNCHANGED <<shm, semQueue, semFull, task>>

\* printf and the ten one-second sleeps, outside of every semaphore.
PrintTask(p) ==
    /\ Goto(p, "print", "waitFull")
    /\ UNCHANGED <<shm, sems, task>>

Printer(p) ==
    \/ WaitFull(p) \/ LockQueue(p) \/ TakeTask(p) \/ AdvanceHead(p)
    \/ DecCount(p) \/ UnlockQueue(p) \/ PostEmpty(p) \/ PrintTask(p)

-----------------------------------------------------------------------------
Next ==
    \/ \E u \in Users : User(u)
    \/ \E p \in Printers : Printer(p)

Spec == Init /\ [][Next]_vars

\* The kernel runs every process; sem_wait is not assumed to be fair among
\* the processes blocked on one semaphore, so weak fairness is all there is.
Fairness ==
    /\ \A u \in Users : WF_vars(User(u))
    /\ \A p \in Printers : WF_vars(Printer(p))

FairSpec == Spec /\ Fairness
-----------------------------------------------------------------------------
\* The statements between a process's two semaphore pairs.
InCritical(p) == pc[p] \in {"copy", "head", "tail", "count", "postQueue"}

\* The type invariant: the indices stay inside the ring, count and the
\* semaphores of places between 0 and its size, and the lock is binary.
TypeOK ==
    /\ queue \in [Slots -> Tasks \cup {Blank}]
    /\ head \in Slots
    /\ tail \in Slots
    /\ count \in 0 .. QUEUE_SIZE
    /\ semQueue \in 0 .. 1
    /\ semEmpty \in 0 .. QUEUE_SIZE
    /\ semFull \in 0 .. QUEUE_SIZE
    /\ task \in [Processes -> Tasks \cup {Blank}]
    /\ pc \in [Processes -> UserPc \cup PrinterPc]
    /\ \A u \in Users : pc[u] \in UserPc
    /\ \A p \in Printers : pc[p] \in PrinterPc

(***************************************************************************)
(* No two processes are between sem_wait(sem_queue) and its sem_post, and  *)
(* the semaphore is 0 exactly when one is: head, tail and count are never  *)
(* touched by two processes at once.                                       *)
(***************************************************************************)
MutualExclusion ==
    /\ \A p, q \in Processes : InCritical(p) /\ InCritical(q) => p = q
    /\ semQueue = 1 <=> \A p \in Processes : ~InCritical(p)

(***************************************************************************)
(* The three semaphores, count and the two indices tell one story, at      *)
(* every statement of every process:                                       *)
(*   - a place of the ring is free (semEmpty), taken by a task on offer    *)
(*     (semFull), or in the hands of the process that moves it from one    *)
(*     semaphore to the other;                                             *)
(*   - count is the tasks on offer, plus those of users between count++    *)
(*     and sem_post(sem_full) and of printers between sem_wait(sem_full)   *)
(*     and count--;                                                        *)
(*   - tail is count slots after head, up to the process that has moved    *)
(*     its index and not yet adjusted count.                               *)
(***************************************************************************)
UserHolds    == {"waitQueue", "copy", "tail", "count", "postQueue", "postFull"}
PrinterHolds == {"waitQueue", "copy", "head", "count", "postQueue", "postEmpty"}

PlacesConserved ==
    semEmpty + semFull + UsersAt(UserHolds) + PrintersAt(PrinterHolds) = QUEUE_SIZE

CountAgrees ==
    count = semFull + UsersAt({"postQueue", "postFull"})
                    + PrintersAt({"waitQueue", "copy", "head", "count"})

RingAgrees ==
    LET n == count + UsersAt({"count"}) - PrintersAt({"count"})
    IN  tail = head + n \/ tail = head + n - QUEUE_SIZE

RingConsistent == PlacesConserved /\ CountAgrees /\ RingAgrees

(***************************************************************************)
(* A user about to copy its task into slot tail overwrites no task that    *)
(* still waits, and a printer about to copy from slot head finds a task    *)
(* there: sem_empty and sem_full keep the indices apart although they are  *)
(* decremented before the lock is taken, by processes that may then be     *)
(* overtaken by any number of others.                                      *)
(***************************************************************************)
IndicesApart ==
    /\ \A u \in Users : pc[u] = "copy" =>
           \A i \in 0 .. count - 1 : tail # (head + i) % QUEUE_SIZE
    /\ \A p \in Printers : pc[p] = "copy" => count > 0

-----------------------------------------------------------------------------
(***************************************************************************)
(* The loops implement the bounded FIFO spool: a job is submitted when it  *)
(* is copied into the ring and taken when it is copied out of it.  The     *)
(* jobs that wait start at head, or one further while a printer has copied *)
(* its task and not yet moved head.                                        *)
(***************************************************************************)
SpoolLen == count + UsersAt({"tail", "count"}) - PrintersAt({"head", "count"})

Spooled == [i \in 1 .. SpoolLen |->
               queue[(head + PrintersAt({"head"}) + i - 1) % QUEUE_SIZE]]

WithJob ==
    {u \in Users : pc[u] \in {"waitEmpty", "waitQueue", "copy"}} \cup
    {p \in Printers : pc[p] \in {"head", "count", "postQueue", "postEmpty", "print"}}

Spool == INSTANCE PrintSpool WITH
             spool <- Spooled, busy <- WithJob, Capacity <- QUEUE_SIZE

ImplementsSpool == Spool!SpoolSpec

(***************************************************************************)
(* Every task that was put on offer is taken: whoever fills a slot, a      *)
(* printer copies the slot out later, however the users and the other      *)
(* printers are scheduled.  The semaphores need not be fair: the ring is   *)
(* bounded, so the others run out of places or of tasks.                   *)
(***************************************************************************)
SlotWaits(i) == \E k \in 1 .. SpoolLen : (head + PrintersAt({"head"}) + k - 1) % QUEUE_SIZE = i

TasksAreTaken == \A i \in Slots : SlotWaits(i) ~> ~SlotWaits(i)
=============================================================================
