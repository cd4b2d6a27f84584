------------------------------- MODULE Signals -------------------------------
(***************************************************************************)
(* lab-5/zad2catcher.c and the runs of zad2sender.c that send it modes by  *)
(* SIGUSR1.  The catcher's handler may interrupt its loop between any two  *)
(* statements; the loop waits while the handler is at work.  SIGUSR1 is a  *)
(* standard signal: one that is sent while another is pending is merged    *)
(* into it, and sigqueue reports success.                                  *)
(***************************************************************************)
EXTENDS Naturals, FiniteSets

CONSTANTS Senders,   \* runs of zad2sender.c
          Nobody     \* none of them

ASSUME SignalsAssumption == IsFiniteSet(Senders) /\ Nobody \notin Senders

VARIABLES sender,      \* next statement of each sender
          blocked,     \* senders that block SIGUSR1
          confirmed,   \* senders for which a SIGUSR1 is pending
          pending,     \* whose SIGUSR1 is pending for the catcher
          catcher,     \* next statement of the catcher's main()
          handling,    \* whose signal its handler is at work on
          sigint,      \* what SIGINT does to it: by default it kills
          mode,
          count,
          sender_pid,
          merged,      \* history: senders whose signal was merged into another's
          idle, busy,  \* history: senders whose signal was taken between two
                       \* modes, or while a mode was being carried out
          doing,       \* history: whose mode is being carried out
          obeyed       \* history: whose mode has been carried out, and counted

sending  == <<sender, blocked, confirmed>>
signals  == <<pending, handling>>
globals  == <<mode, count, sender_pid>>
history  == <<merged, idle, busy, doing, obeyed>>
vars     == <<sending, signals, catcher, sigint, globals, history>>

Modes     == 0 .. 5        \* 0 stands also for all that are unknown
SenderPc  == {"sigqueue", "sigaction", "sigsuspend", "suspended",
              "done", "failed", "killed"}
CatcherPc == {"sigaction", "switch", "loop", "ignore", "write", "count", "clear", "ended"}

Init ==
    /\ sender = [s \in Senders |-> "sigqueue"]
    /\ blocked = {}
    /\ confirmed = {}
    /\ pending = Nobody
    /\ catcher = "sigaction"
    /\ handling = Nobody
    /\ sigint = "default"
    /\ mode = 0
    /\ count = 0
    /\ sender_pid = Nobody
    /\ merged = {} /\ idle = {} /\ busy = {}
    /\ doing = Nobody
    /\ obeyed = {}

-----------------------------------------------------------------------------
\* zad2sender.c

Goto(s, from, to) == sender[s] = from /\ sender' = [sender EXCEPT ![s] = to]

Merge(s) ==
    IF pending = Nobody
    THEN pending' = s /\ merged' = merged
    ELSE pending' = pending /\ merged' = merged \cup {s}

\* A fault: SIGUSR1 is not blocked.
QueueUnblocked(s) ==
    /\ catcher # "ended"
    /\ Goto(s, "sigqueue", "sigaction")
    /\ Merge(s)
    /\ UNCHANGED <<blocked, confirmed, handling, catcher, sigint, globals,
                   idle, busy, doing, obeyed>>

\* sigprocmask, before which nobody signals the sender, and sigqueue.
Queue(s) ==
    /\ catcher # "ended"
    /\ Goto(s, "sigqueue", "sigaction")
    /\ blocked' = blocked \cup {s}
    /\ Merge(s)
    /\ UNCHANGED <<confirmed, handling, catcher, sigint, globals,
                   idle, busy, doing, obeyed>>

QueueFails(s) ==
    /\ catcher = "ended"
    /\ Goto(s, "sigqueue", "failed")
    /\ UNCHANGED <<blocked, confirmed, signals, catcher, sigint, globals, history>>

Install(s) ==
    /\ Goto(s, "sigaction", "sigsuspend")
    /\ UNCHANGED <<blocked, confirmed, signals, catcher, sigint, globals, history>>

Suspend(s) ==
    /\ Goto(s, "sigsuspend", "suspended")
    /\ UNCHANGED <<blocked, confirmed, signals, catcher, sigint, globals, history>>

\* The confirmation is delivered: it ends sigsuspend, which unblocks it, but
\* not a sigsuspend called later, and kills where it has no handler yet.
Confirmed(s) ==
    /\ s \in confirmed
    /\ s \notin blocked \/ sender[s] = "suspended"
    /\ confirmed' = confirmed \ {s}
    /\ sender' = [sender EXCEPT ![s] = CASE @ = "suspended" -> "done"
                                         [] @ = "sigaction" -> "killed"
                                         [] OTHER -> @]
    /\ UNCHANGED <<blocked, signals, catcher, sigint, globals, history>>

-----------------------------------------------------------------------------
\* zad2catcher.c, the handler.  Until it is installed SIGUSR1 kills.
Killed ==
    /\ pending # Nobody /\ catcher = "sigaction"
    /\ catcher' = "ended"
    /\ pending' = Nobody
    /\ UNCHANGED <<sending, handling, sigint, globals, history>>

\* The value that came with the signal is the mode its sender was started with:
\* any number.
Take ==
    /\ pending # Nobody /\ handling = Nobody
    /\ catcher \notin {"sigaction", "ended"}
    /\ handling' = pending
    /\ pending' = Nobody
    /\ mode' \in Modes
    /\ sender_pid' = pending
    /\ IF catcher = "switch"
       THEN idle' = idle \cup {pending} /\ busy' = busy
       ELSE idle' = idle /\ busy' = busy \cup {pending}
    /\ UNCHANGED <<sending, catcher, sigint, count, merged, doing, obeyed>>

\* A fault: the confirmation goes to every process of the group.
ConfirmAll ==
    /\ handling # Nobody /\ catcher # "ended"
    /\ handling' = Nobody
    /\ confirmed' = {s \in Senders : sender[s] \notin {"done", "failed"}}
    /\ UNCHANGED <<sender, blocked, pending, catcher, sigint, globals, history>>

Confirm ==
    /\ handling # Nobody /\ catcher # "ended"
    /\ handling' = Nobody
    /\ confirmed' = confirmed \cup {sender_pid}
    /\ UNCHANGED <<sender, blocked, pending, catcher, sigint, globals, history>>

-----------------------------------------------------------------------------
\* zad2catcher.c, main().
Main(from, to) == handling = Nobody /\ catcher = from /\ catcher' = to

Start ==
    /\ Main("sigaction", "switch")
    /\ UNCHANGED <<sending, signals, sigint, globals, history>>

\* Mode 0 and unknown modes leave the loop where it is.
Switch ==
    /\ \/ mode = 1 /\ Main("switch", "count")
       \/ mode = 2 /\ Main("switch", "loop")
       \/ mode = 3 /\ Main("switch", "ignore")
       \/ mode = 4 /\ Main("switch", "write")
       \/ mode = 5 /\ Main("switch", "ended")
    /\ doing' = sender_pid
    /\ UNCHANGED <<sending, signals, sigint, globals, merged, idle, busy, obeyed>>

LeaveLoop ==
    /\ Main("loop", "count")
    /\ mode # 2
    /\ UNCHANGED <<sending, signals, sigint, globals, history>>

\* sa_flags is set after the call and holds anything: the handler may be for one
\* signal only (SA_RESETHAND).
SetSigint ==
    /\ \/ Main("ignore", "count") /\ sigint' = "harmless"
       \/ Main("write", "count") /\ sigint' \in {"harmless", "once"}
    /\ UNCHANGED <<sending, signals, globals, history>>

Count ==
    /\ Main("count", "clear")
    /\ count' = count + 1
    /\ obeyed' = obeyed \cup {doing}
    /\ UNCHANGED <<sending, signals, sigint, mode, sender_pid, merged, idle, busy, doing>>

\* A fault: mode is not set back.
ClearForgotten ==
    /\ Main("clear", "switch")
    /\ UNCHANGED <<sending, signals, sigint, globals, history>>

Clear ==
    /\ Main("clear", "switch")
    /\ mode' = 0
    /\ doing' = Nobody
    /\ UNCHANGED <<sending, signals, sigint, count, sender_pid, merged, idle, busy, obeyed>>

\* The user presses Ctrl+C, to some effect.
Interrupt ==
    /\ catcher # "ended"
    /\ \/ sigint = "default" /\ catcher' = "ended" /\ sigint' = sigint
       \/ sigint = "once" /\ sigint' = "default" /\ catcher' = catcher
    /\ UNCHANGED <<sending, signals, globals, history>>

-----------------------------------------------------------------------------
Sender(s) ==
    Queue(s) \/ QueueFails(s) \/ Install(s) \/ Suspend(s) \/ Confirmed(s)

Handler == Killed \/ Take \/ Confirm

Loop == Start \/ Switch \/ LeaveLoop \/ SetSigint \/ Count \/ Clear

Next == (\E s \in Senders : Sender(s)) \/ Handler \/ Loop \/ Interrupt

Spec == Init /\ [][Next]_vars

\* Processes run and the kernel delivers what is pending; the user's Ctrl+C
\* need not come.
FairSpec == Spec /\ WF_vars(Handler) /\ WF_vars(Loop) /\ \A s \in Senders : WF_vars(Sender(s))
-----------------------------------------------------------------------------
\* The type invariant.
TypeOK ==
    /\ sender \in [Senders -> SenderPc]
    /\ blocked \subseteq Senders
    /\ confirmed \subseteq Senders
    /\ pending \in Senders \cup {Nobody}
    /\ catcher \in CatcherPc
    /\ handling \in Senders \cup {Nobody}
    /\ sigint \in {"default", "harmless", "once"}
    /\ mode \in Modes
    /\ count \in 0 .. Cardinality(Senders)
    /\ sender_pid \in Senders \cup {Nobody}
    /\ merged \subseteq Senders /\ idle \subseteq Senders /\ busy \subseteq Senders
    /\ doing \in Senders \cup {Nobody}
    /\ obeyed \subseteq Senders

(***************************************************************************)
(* A sender's mode is carried out at most once, and count is the number of *)
(* those carried out.  Only a mode that came between two others is: one    *)
(* that came while another was being carried out, mode 2's endless loop    *)
(* included, has been confirmed to its sender and is wiped out.            *)
(***************************************************************************)
ObeyedOnce ==
    /\ count = Cardinality(obeyed)
    /\ obeyed \subseteq idle
    /\ idle \cap busy = {}

(***************************************************************************)
(* A sender that ends with success has had its own signal taken; one whose *)
(* signal was merged into another's waits for ever.                        *)
(***************************************************************************)
ConfirmedWereTaken ==
    \A s \in Senders : sender[s] = "done" => s \in (idle \cup busy) \ merged

(***************************************************************************)
(* No confirmation is missed, however early the catcher answers: a sender  *)
(* whose signal was not merged into another's ends, unless the catcher has *)
(* ended without a confirmation for it.                                    *)
(***************************************************************************)
SendersAreConfirmed ==
    \A s \in Senders :
        sender[s] = "sigaction"
            ~> \/ sender[s] = "done"
               \/ s \in merged
               \/ catcher = "ended" /\ s \notin confirmed
=============================================================================
