----------------------------- MODULE PrintSpool -----------------------------
(***************************************************************************)
(* What the print queue of lab-8 promises, without its ring buffer and its *)
(* semaphores: a bounded FIFO spool.  A user makes a job and submits it    *)
(* exactly once; a printer takes the oldest job and prints it before it    *)
(* takes another.                                                          *)
(***************************************************************************)
EXTENDS Naturals, Sequences

CONSTANTS Users,     \* processes that submit jobs
          Printers,  \* processes that print them
          Tasks,     \* what a job can contain
          Blank,     \* the contents of a process's buffer before its first job
          Capacity   \* how many jobs may wait

VARIABLES spool,  \* jobs that wait, oldest first
          task,   \* the job each process made or took last
          busy    \* users with a job to submit, printers with a job to print

spoolVars == <<spool, task, busy>>

SpoolInit ==
    /\ spool = <<>>
    /\ busy = {}
    /\ task = [p \in Users \cup Printers |-> Blank]

MakeJob(u) ==
    /\ u \notin busy
    /\ \E t \in Tasks : task' = [task EXCEPT ![u] = t]
    /\ busy' = busy \cup {u}
    /\ UNCHANGED spool

Submit(u) ==
    /\ u \in busy
    /\ Len(spool) < Capacity
    /\ spool' = Append(spool, task[u])
    /\ busy' = busy \ {u}
    /\ UNCHANGED task

Take(p) ==
    /\ p \notin busy
    /\ spool # <<>>
    /\ task' = [task EXCEPT ![p] = Head(spool)]
    /\ spool' = Tail(spool)
    /\ busy' = busy \cup {p}

FinishJob(p) ==
    /\ p \in busy
    /\ busy' = busy \ {p}
    /\ UNCHANGED <<spool, task>>

SpoolNext ==
    \/ \E u \in Users : MakeJob(u) \/ Submit(u)
    \/ \E p \in Printers : Take(p) \/ FinishJob(p)

SpoolSpec == SpoolInit /\ [][SpoolNext]_spoolVars
=============================================================================
