------------------------------- MODULE TcpChat -------------------------------
(***************************************************************************)
(* The chat server lab-11/serwer.c: an acceptor thread, one thread per     *)
(* registered client, a ping thread and a console thread over the table    *)
(* clients[], guarded by clients_mutex except where fun_client reads its   *)
(* own entry.  A section under the mutex is one action.                    *)
(*                                                                         *)
(* The kernel's part is what the code can notice: descriptors are numbers  *)
(* that close() frees and accept() uses again, a thread blocked in read()  *)
(* keeps the connection it was called on when another thread closes the    *)
(* descriptor, and a write to a connection that has answered an earlier    *)
(* write with a reset kills the process (SIGPIPE is not handled).          *)
(***************************************************************************)
EXTENDS Naturals, Sequences, FiniteSets

CONSTANTS Conns,        \* connections of klient.c, each with its server thread
          None,         \* no connection
          MAX_CLIENTS,  \* entries of clients[]
          MaxSent       \* bound: commands a client sends after its name

ASSUME TcpChatAssumption ==
    /\ None \notin Conns
    /\ MAX_CLIENTS \in Nat \ {0}
    /\ MaxSent \in Nat

VARIABLES active,    \* clients[i].active
          socket,    \* clients[i].socket, a number that outlives the client
          fds,       \* the connection behind each descriptor
          acceptor,  \* next statement of fun_clients
          newcomer,  \* the connection it has accepted
          thread,    \* next statement of the thread made for each connection, or
                     \* the message it has read
          slot,      \* its client_id
          fd,        \* the descriptor its read() is about to be called on
          reading,   \* the connection its read() is blocked on
          conn,      \* state of each connection
          inbox,     \* what the client has sent and nobody has read
          sent,      \* commands the client has sent
          running    \* the process is there

table   == <<active, socket, fds>>
accepts == <<acceptor, newcomer>>
threads == <<thread, slot, fd, reading>>
network == <<conn, inbox, sent>>
vars    == <<table, accepts, threads, network, running>>

Slots == 0 .. MAX_CLIENTS - 1
Fds   == 0 .. MAX_CLIENTS     \* one more, for the acceptor's

\* PING and LIST are answered to the client itself.
Commands == {"reply", "2ALL", "2ONE", "STOP"}
Messages == Commands \cup {"name"}

ConnStates == {"new", "pending", "up", "closed", "aborted", "reset", "broken"}
AcceptorPc == {"accept", "readName", "register", "spawn"}
ThreadPc   == {"none", "welcome", "fetch", "read", "blocked", "cleanup", "ended"}
                  \cup Messages

Init ==
    /\ active = [i \in Slots |-> FALSE]
    /\ socket = [i \in Slots |-> 0]
    /\ fds = [n \in Fds |-> None]
    /\ acceptor = "accept"
    /\ newcomer = None
    /\ thread = [c \in Conns |-> "none"]
    /\ slot = [c \in Conns |-> 0]
    /\ fd = [c \in Conns |-> 0]
    /\ reading = [c \in Conns |-> None]
    /\ conn = [c \in Conns |-> "new"]
    /\ inbox = [c \in Conns |-> <<>>]
    /\ sent = [c \in Conns |-> 0]
    /\ running = TRUE

Goto(t, from, to) ==
    /\ running
    /\ thread[t] = from
    /\ thread' = [thread EXCEPT ![t] = to]

-----------------------------------------------------------------------------
\* write(): the first one to a peer that has closed is answered with a reset;
\* one to a connection reset while it was up fails; the next one kills.
AfterWrite(state) ==
    CASE state \in {"closed", "aborted"} -> "reset"
      [] state = "reset" -> "broken"
      [] OTHER -> state

\* The states after one write to every connection of S (None is EBADF).
Written(states, S) == [c \in Conns |-> IF c \in S THEN AfterWrite(states[c]) ELSE states[c]]

Write(states) ==
    /\ conn' = states
    /\ running' = (\A c \in Conns : states[c] # "broken")

ConnAt(i) == fds[socket[i]]
Others(i) == {ConnAt(j) : j \in {k \in Slots \ {i} : active[k]}}

\* read() returns a prefix of what is there: commands that arrive together
\* fill one buffer, of which the code looks at the first only.
Receive(c) ==
    \E n \in 1 .. Len(inbox[c]) : inbox' = [inbox EXCEPT ![c] = SubSeq(@, n + 1, Len(@))]

\* read() returns 0 at the end of the stream, -1 after a reset.
EndOfStream(c) ==
    /\ inbox[c] = <<>>
    /\ conn[c] \in {"closed", "aborted", "reset"}
    /\ conn' = [conn EXCEPT ![c] = IF @ = "aborted" THEN "reset" ELSE @]

-----------------------------------------------------------------------------
\* klient.c: connect, send the name and commands, go away.  What clients do
\* once the server has ended is left out.

Connect(c) ==
    /\ running
    /\ conn[c] = "new"
    /\ conn' = [conn EXCEPT ![c] = "pending"]
    /\ UNCHANGED <<table, accepts, threads, inbox, sent, running>>

Send(c) ==
    /\ running
    /\ conn[c] \in {"pending", "up"}
    /\ sent[c] <= MaxSent
    /\ \E what \in IF sent[c] = 0 THEN {"name"} ELSE Commands :
          inbox' = [inbox EXCEPT ![c] = Append(@, what)]
    /\ sent' = [sent EXCEPT ![c] = @ + 1]
    /\ UNCHANGED <<table, accepts, threads, conn, running>>

\* The client closes or is killed (one that goes before it is accepted looks to
\* the server as if it went right after).  If it leaves messages unread its
\* kernel resets the connection instead of ending the stream.
Leave(c) ==
    /\ running
    /\ conn[c] = "up"
    /\ \E state \in {"closed", "aborted"} : conn' = [conn EXCEPT ![c] = state]
    /\ UNCHANGED <<table, accepts, threads, inbox, sent, running>>

-----------------------------------------------------------------------------
\* fun_clients, the acceptor.

LowestFree(n) == fds[n] = None /\ \A m \in 0 .. n - 1 : fds[m] # None

Accept(c) ==
    /\ running /\ acceptor = "accept"
    /\ conn[c] = "pending"
    /\ conn' = [conn EXCEPT ![c] = "up"]
    /\ \E n \in Fds : LowestFree(n) /\ fds' = [fds EXCEPT ![n] = c]
    /\ newcomer' = c
    /\ acceptor' = "readName"
    /\ UNCHANGED <<active, socket, threads, inbox, sent, running>>

Close(c) == fds' = [n \in Fds |-> IF fds[n] = c THEN None ELSE fds[n]]

\* The acceptor waits for the name; a client that goes first is closed.
ReadName ==
    /\ running /\ acceptor = "readName"
    /\ \/ /\ Receive(newcomer)
          /\ acceptor' = "register"
          /\ UNCHANGED <<fds, conn>>
       \/ /\ EndOfStream(newcomer)
          /\ Close(newcomer)
          /\ acceptor' = "accept"
          /\ UNCHANGED inbox
    /\ UNCHANGED <<active, socket, newcomer, threads, sent, running>>

FirstFree(i) == ~active[i] /\ \A j \in 0 .. i - 1 : active[j]

Register ==
    /\ running /\ acceptor = "register"
    /\ \E i \in Slots, n \in Fds :
        /\ FirstFree(i)
        /\ fds[n] = newcomer
        /\ active' = [active EXCEPT ![i] = TRUE]
        /\ socket' = [socket EXCEPT ![i] = n]
        /\ slot' = [slot EXCEPT ![newcomer] = i]
    /\ acceptor' = "spawn"
    /\ UNCHANGED <<fds, newcomer, thread, fd, reading, network, running>>

\* A fault: the connection there is no room for is not closed.
TurnAwayLeaking ==
    /\ running /\ acceptor = "register"
    /\ \A i \in Slots : active[i]
    /\ Write(Written(conn, {newcomer}))
    /\ acceptor' = "accept"
    /\ UNCHANGED <<table, newcomer, threads, inbox, sent>>

\* A fault: that no entry was free is not looked at before the thread is made.
TurnAwayForgotten ==
    /\ running /\ acceptor = "register"
    /\ \A i \in Slots : active[i]
    /\ slot' = [slot EXCEPT ![newcomer] = MAX_CLIENTS]
    /\ acceptor' = "spawn"
    /\ UNCHANGED <<table, newcomer, thread, fd, reading, network, running>>

\* No entry is free: the client is told so and closed.
TurnAway ==
    /\ running /\ acceptor = "register"
    /\ \A i \in Slots : active[i]
    /\ Write(Written(conn, {newcomer}))
    /\ Close(newcomer)
    /\ acceptor' = "accept"
    /\ UNCHANGED <<active, socket, newcomer, threads, inbox, sent>>

\* pthread_create, after the mutex has been released.
Spawn ==
    /\ acceptor = "spawn"
    /\ Goto(newcomer, "none", "welcome")
    /\ acceptor' = "accept"
    /\ UNCHANGED <<table, newcomer, slot, fd, reading, network, running>>

-----------------------------------------------------------------------------
\* fun_client.  It finds its socket in clients[client_id], without the mutex
\* and anew each time, whoever the entry belongs to by then.

OwnConn(t) == fds[socket[slot[t]]]

Welcome(t) ==
    /\ Goto(t, "welcome", "fetch")
    /\ Write(Written(conn, {OwnConn(t)}))
    /\ UNCHANGED <<table, accepts, slot, fd, reading, inbox, sent>>

\* The argument of read() is evaluated ...
FetchSocket(t) ==
    /\ Goto(t, "fetch", "read")
    /\ fd' = [fd EXCEPT ![t] = socket[slot[t]]]
    /\ UNCHANGED <<table, accepts, slot, reading, network, running>>

\* ... and the call looks its connection up (EBADF when there is none).
CallRead(t) ==
    /\ Goto(t, "read", IF fds[fd[t]] = None THEN "cleanup" ELSE "blocked")
    /\ reading' = [reading EXCEPT ![t] = fds[fd[t]]]
    /\ fd' = [fd EXCEPT ![t] = 0]
    /\ UNCHANGED <<table, accepts, slot, network, running>>

ReadReturns(t) ==
    /\ reading[t] # None
    /\ \/ /\ Receive(reading[t])
          /\ Goto(t, "blocked", Head(inbox[reading[t]]))
          /\ UNCHANGED conn
       \/ /\ EndOfStream(reading[t])
          /\ Goto(t, "blocked", "cleanup")
          /\ UNCHANGED inbox
    /\ reading' = [reading EXCEPT ![t] = None]
    /\ UNCHANGED <<table, accepts, slot, fd, sent, running>>

\* A buffer that starts with no command, such as a late name, is ignored.
Ignore(t) ==
    /\ Goto(t, "name", "fetch")
    /\ UNCHANGED <<table, accepts, slot, fd, reading, network, running>>

Reply(t) ==
    /\ Goto(t, "reply", "fetch")
    /\ Write(Written(conn, {OwnConn(t)}))
    /\ UNCHANGED <<table, accepts, slot, fd, reading, inbox, sent>>

SendToAll(t) ==
    /\ Goto(t, "2ALL", "fetch")
    /\ Write(Written(conn, Others(slot[t])))
    /\ UNCHANGED <<table, accepts, slot, fd, reading, inbox, sent>>

\* target_id is never assigned: it is any number, an entry's or not.
SendToOne(t) ==
    /\ Goto(t, "2ONE", "fetch")
    /\ \E target \in Slots \cup {MAX_CLIENTS} :
          IF target \in Slots /\ active[target]
          THEN Write(Written(Written(conn, {ConnAt(target)}), {OwnConn(t)}))
          ELSE Write(Written(conn, {OwnConn(t)}))
    /\ UNCHANGED <<table, accepts, slot, fd, reading, inbox, sent>>

Stop(t) ==
    /\ Goto(t, "STOP", "cleanup")
    /\ UNCHANGED <<table, accepts, slot, fd, reading, network, running>>

\* A fault: the thread closes its entry's socket whether or not it is active.
CleanupAlways(t) ==
    /\ Goto(t, "cleanup", "ended")
    /\ active' = [active EXCEPT ![slot[t]] = FALSE]
    /\ fds' = [fds EXCEPT ![socket[slot[t]]] = None]
    /\ UNCHANGED <<socket, accepts, slot, fd, reading, network, running>>

\* A fault: the thread returns without a look at its entry.
CleanupSkipped(t) ==
    /\ Goto(t, "cleanup", "ended")
    /\ UNCHANGED <<table, accepts, slot, fd, reading, network, running>>

\* The entry, if it is active, is closed and given up.
Cleanup(t) ==
    /\ Goto(t, "cleanup", "ended")
    /\ active' = [active EXCEPT ![slot[t]] = FALSE]
    /\ fds' = [fds EXCEPT ![socket[slot[t]]] = IF active[slot[t]] THEN None ELSE @]
    /\ UNCHANGED <<socket, accepts, slot, fd, reading, network, running>>

Thread(t) ==
    Welcome(t) \/ FetchSocket(t) \/ CallRead(t) \/ ReadReturns(t) \/ Ignore(t)
    \/ Reply(t) \/ SendToAll(t) \/ SendToOne(t) \/ Stop(t) \/ Cleanup(t)

-----------------------------------------------------------------------------
\* ping_clients: one round under the mutex.  Any client may have been silent
\* for two intervals, and a write that fails ends a client too.
Ping ==
    /\ running
    /\ \E silent \in SUBSET {i \in Slots : active[i]} :
        LET failed == {i \in Slots : active[i] /\ conn[ConnAt(i)] = "aborted"}
            ended  == silent \cup failed
        IN  /\ active' = [i \in Slots |-> active[i] /\ i \notin ended]
            /\ fds' = [n \in Fds |-> IF \E i \in ended : socket[i] = n THEN None ELSE fds[n]]
            /\ Write(Written(conn, {ConnAt(i) : i \in {j \in Slots : active[j]} \ silent}))
    /\ UNCHANGED <<socket, accepts, threads, inbox, sent>>

\* fun_IO: 2ALL, 2ONE (with a client_id never assigned) and STOP; LIST and
\* ALIVE only print.
Announce ==
    /\ running
    /\ Write(Written(conn, {ConnAt(i) : i \in {j \in Slots : active[j]}}))
    /\ UNCHANGED <<table, accepts, threads, inbox, sent>>

AnnounceToOne ==
    /\ running
    /\ \E i \in Slots : active[i] /\ Write(Written(conn, {ConnAt(i)}))
    /\ UNCHANGED <<table, accepts, threads, inbox, sent>>

\* STOP, after which main() ends the process.
Shutdown ==
    /\ running
    /\ running' = FALSE
    /\ UNCHANGED <<table, accepts, threads, network>>

-----------------------------------------------------------------------------
Acceptor == (\E c \in Conns : Accept(c)) \/ ReadName \/ Register \/ TurnAway \/ Spawn

Next ==
    \/ \E c \in Conns : Connect(c) \/ Send(c) \/ Leave(c) \/ Thread(c)
    \/ Acceptor
    \/ Ping \/ Announce \/ AnnounceToOne \/ Shutdown

Spec == Init /\ [][Next]_vars

\* The server's threads run, and the acceptor makes a thread for an entry it
\* has filled; clients, the clock and the console need not do anything.
FairSpec == Spec /\ WF_vars(Spawn) /\ \A t \in Conns : WF_vars(Thread(t))
-----------------------------------------------------------------------------
\* The type invariant.
TypeOK ==
    /\ active \in [Slots -> BOOLEAN]
    /\ socket \in [Slots -> Fds]
    /\ fds \in [Fds -> Conns \cup {None}]
    /\ acceptor \in AcceptorPc
    /\ newcomer \in Conns \cup {None}
    /\ thread \in [Conns -> ThreadPc]
    /\ slot \in [Conns -> Slots]
    /\ fd \in [Conns -> Fds]
    /\ reading \in [Conns -> Conns \cup {None}]
    /\ conn \in [Conns -> ConnStates]
    /\ inbox \in [Conns -> Seq(Messages)]
    /\ sent \in [Conns -> 0 .. MaxSent + 1]
    /\ running \in BOOLEAN

(***************************************************************************)
(* Descriptors are neither shared nor leaked, whoever closes them: an open *)
(* one belongs to exactly one active entry or to the connection in the     *)
(* acceptor's hands, an active entry's is open, and no connection has two. *)
(***************************************************************************)
InHand == IF acceptor \in {"readName", "register"} THEN {newcomer} ELSE {}

FdsAccounted ==
    /\ \A n \in Fds : fds[n] # None =>
          Cardinality({i \in Slots : active[i] /\ socket[i] = n})
              + Cardinality(InHand \cap {fds[n]}) = 1
    /\ \A i \in Slots : active[i] => ConnAt(i) # None
    /\ \A c \in InHand : \E n \in Fds : fds[n] = c
    /\ \A m, n \in Fds : fds[m] = fds[n] /\ fds[m] # None => m = n

(***************************************************************************)
(* No entry is forgotten: the thread made for the connection of an active  *)
(* entry is still to be made or still at work for that entry, so that      *)
(* somebody will see the client leave.                                     *)
(***************************************************************************)
EntriesServed ==
    \A i \in Slots : active[i] =>
        LET c == ConnAt(i)
        IN  /\ slot[c] = i
            /\ \/ thread[c] \notin {"none", "ended"}
               \/ acceptor = "spawn" /\ newcomer = c

(***************************************************************************)
(* A client that leaves loses its entry, unless the server ends first,     *)
(* however the ping thread and other clients' threads have used the entry. *)
(***************************************************************************)
LeaversAreRemoved ==
    \A c \in Conns :
        (conn[c] \in {"closed", "aborted", "reset"} /\ \E i \in Slots : active[i] /\ ConnAt(i) = c)
            ~> (~running \/ \A i \in Slots : ~(active[i] /\ ConnAt(i) = c))

(***************************************************************************)
(* serwer.c:138 "Zakończenie pracy klienta": at the end of its work for a  *)
(* client a thread closes that client's socket, not another one's.         *)
(***************************************************************************)
ClosesItsOwn ==
    \A t \in Conns : running /\ thread[t] = "cleanup" /\ active[slot[t]] => OwnConn(t) = t
=============================================================================
