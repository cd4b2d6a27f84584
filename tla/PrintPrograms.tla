---------------------------- MODULE PrintPrograms ----------------------------
(***************************************************************************)
(* The programs user.c and printer.c of lab-8, each started on its own any *)
(* number of times.  They run the loops of PrintQueue over the same named  *)
(* shared memory and semaphores.  A start-up clears head, tail and count   *)
(* without taking sem_queue; sem_open(O_CREAT) gives a semaphore its       *)
(* initial value only when the name is new, and the sem_unlink calls after *)
(* the endless loops are never reached, so the semaphores keep the values  *)
(* of earlier runs.  A program ends only by being killed.                  *)
(***************************************************************************)
EXTENDS PrintQueue

VARIABLE lost   \* history: programs killed between their two semaphores

programVars == <<vars, lost>>

Setup == {"resetHead", "resetTail", "resetCount"}
Holds(p) == pc[p] \in IF p \in Users THEN UserHolds ELSE PrinterHolds

ProgramsInit ==
    /\ ShmInit
    /\ SemInit
    /\ task = [p \in Processes |-> Blank]
    /\ pc = [p \in Processes |-> "down"]
    /\ lost = 0

\* shm_open and mmap; the memory and its contents outlive the programs.
Start(p) ==
    /\ Goto(p, "down", "resetHead")
    /\ UNCHANGED <<shm, sems, task, lost>>

\* A store of 0 that races with the read-modify-write of another program may
\* be overwritten by it, as if it had not happened.
Racing(label) == \E q \in Processes : pc[q] = label

ResetHead(p) ==
    /\ Goto(p, "resetHead", "resetTail")
    /\ head' = 0 \/ (Racing("head") /\ head' = head)
    /\ UNCHANGED <<queue, tail, count, sems, task, lost>>

ResetTail(p) ==
    /\ Goto(p, "resetTail", "resetCount")
    /\ tail' = 0 \/ (Racing("tail") /\ tail' = tail)
    /\ UNCHANGED <<queue, head, count, sems, task, lost>>

\* A fault: sem_open gives the semaphores their initial values every time.
ResetCountAndSems(p) ==
    /\ Goto(p, "resetCount", FirstPc(p))
    /\ count' = 0
    /\ semQueue' = 1
    /\ semEmpty' = QUEUE_SIZE
    /\ semFull' = 0
    /\ UNCHANGED <<queue, head, tail, task, lost>>

\* The last store and the three sem_open calls, which find the semaphores
\* that earlier programs left.
ResetCount(p) ==
    /\ Goto(p, "resetCount", FirstPc(p))
    /\ count' = 0 \/ (Racing("count") /\ count' = count)
    /\ UNCHANGED <<queue, head, tail, sems, task, lost>>

\* A fault: a dying program gives back the place it holds.
KillReturning(p) ==
    /\ pc[p] # "down"
    /\ pc' = [pc EXCEPT ![p] = "down"]
    /\ task' = [task EXCEPT ![p] = Blank]
    /\ semEmpty' = IF Holds(p) THEN semEmpty + 1 ELSE semEmpty
    /\ lost' = IF Holds(p) THEN lost + 1 ELSE lost
    /\ UNCHANGED <<shm, semQueue, semFull>>

\* SIGINT or SIGKILL: the loops have no other end.  Nothing is given back.
Kill(p) ==
    /\ pc[p] # "down"
    /\ pc' = [pc EXCEPT ![p] = "down"]
    /\ task' = [task EXCEPT ![p] = Blank]
    /\ lost' = IF Holds(p) THEN lost + 1 ELSE lost
    /\ UNCHANGED <<shm, sems>>

\* The loops of user.c and of printer.c, which are those of zad.c.
RunUser(p) == p \in Users /\ User(p) /\ UNCHANGED lost

RunPrinter(p) == p \in Printers /\ Printer(p) /\ UNCHANGED lost

ProgramsNext ==
    \E p \in Processes :
        \/ Start(p) \/ ResetHead(p) \/ ResetTail(p) \/ ResetCount(p)
        \/ RunUser(p) \/ RunPrinter(p) \/ Kill(p)

ProgramsSpec == ProgramsInit /\ [][ProgramsNext]_programVars

-----------------------------------------------------------------------------
\* The type invariant.  count is off by as much as the ring holds, in both
\* directions, once a start-up has cleared it under running programs.
ProgramsTypeOK ==
    /\ queue \in [Slots -> Tasks \cup {Blank}]
    /\ head \in Slots
    /\ tail \in Slots
    /\ count \in -QUEUE_SIZE .. QUEUE_SIZE
    /\ semQueue \in 0 .. 1
    /\ semEmpty \in 0 .. QUEUE_SIZE
    /\ semFull \in 0 .. QUEUE_SIZE
    /\ task \in [Processes -> Tasks \cup {Blank}]
    /\ pc \in [Processes -> UserPc \cup PrinterPc \cup Setup \cup {"down"}]
    /\ lost \in 0 .. QUEUE_SIZE

(***************************************************************************)
(* Kills and restarts never let two programs into the loops' critical      *)
(* section at once, because a restart finds the semaphores as they were.   *)
(***************************************************************************)
RestartsExclude ==
    /\ \A p, q \in Processes : InCritical(p) /\ InCritical(q) => p = q
    /\ semQueue = 1 => \A p \in Processes : ~InCritical(p)

(***************************************************************************)
(* However often programs are started, and whatever their start-ups do to  *)
(* the ring under the others, the semaphores account for every place: it   *)
(* is free, on offer, in the hands of a running program, or lost for good  *)
(* with a program killed between its two semaphores.                       *)
(***************************************************************************)
PlacesAccounted ==
    semEmpty + semFull + UsersAt(UserHolds) + PrintersAt(PrinterHolds) + lost
        = QUEUE_SIZE

(***************************************************************************)
(* Once a program has died inside the critical section, no program enters  *)
(* it again, however many are started: the lock outlives its holder, and   *)
(* the calls that would remove it are unreachable.                         *)
(***************************************************************************)
Wedged == semQueue = 0 /\ \A p \in Processes : ~InCritical(p)

WedgedForever == [][Wedged => Wedged']_programVars

(***************************************************************************)
(* printer.c:52 "Pobierz zadanie z kolejki": a printer that has waited for *)
(* a task copies a slot into which a user has put one.                     *)
(***************************************************************************)
PrinterFindsTask == \A p \in Printers : pc[p] = "copy" => queue[head] # Blank
=============================================================================
