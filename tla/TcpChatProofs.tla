---------------------------- MODULE TcpChatProofs ----------------------------
(***************************************************************************)
(* Proofs, for any connections and any size of the table, of the           *)
(* invariants of TcpChat.                                                  *)
(***************************************************************************)
EXTENDS TcpChat, FiniteSetTheorems, TLAPS

\* The states in which the server has not got a connection yet.
Fresh == {"new", "pending"}

\* A thread that has been made and has not ended.
AtWork(c) == thread[c] \notin {"none", "ended"}

\* The entry of an active client, and of nobody else, has an open descriptor ...
EntriesOpen == \A i \in Slots : active[i] => ConnAt(i) \in Conns
EntriesApart == \A i, j \in Slots : active[i] /\ active[j] /\ socket[i] = socket[j] => i = j
ConnsApart == \A m, n \in Fds : fds[m] = fds[n] /\ fds[m] # None => m = n

\* ... except for the one in the acceptor's hands, which is open and in no entry.
NewcomerOpen ==
    /\ acceptor # "accept" => newcomer \in Conns
    /\ \A c \in InHand : /\ \E n \in Fds : fds[n] = c
                         /\ \A i \in Slots : active[i] => ConnAt(i) # c
AllOwned ==
    \A n \in Fds : fds[n] # None =>
        fds[n] \in InHand \/ \E i \in Slots : active[i] /\ socket[i] = n

\* What the server has not accepted has no descriptor.
FreshClosed == \A c \in Conns : conn[c] \in Fresh => \A n \in Fds : fds[n] # c

(***************************************************************************)
(* The inductive invariant.  FdsAccounted says how many own a descriptor;  *)
(* its parts say who.  EntriesServed needs them: a thread that ends may    *)
(* give up the entry of another client, but leaves none unserved, because  *)
(* its own connection can be in no entry but the one it gives up.          *)
(***************************************************************************)
Accounted ==
    EntriesOpen /\ EntriesApart /\ ConnsApart /\ NewcomerOpen /\ AllOwned /\ FreshClosed

IInv == TypeOK /\ Accounted /\ EntriesServed

\* The initial states satisfy the inductive invariant.
LEMMA InitInv == Init => IInv
<1> SUFFICES ASSUME Init PROVE IInv
  OBVIOUS
<1> USE TcpChatAssumption DEF Init
<1>1. TypeOK
  <2>1. 0 \in Slots /\ 0 \in Fds
    BY DEF Slots, Fds
  <2> QED
    BY <2>1 DEF TypeOK, AcceptorPc, ThreadPc, ConnStates
<1>2. Accounted
  BY DEF Accounted, EntriesOpen, EntriesApart, ConnsApart, NewcomerOpen, AllOwned,
         FreshClosed, InHand
<1>3. EntriesServed
  BY DEF EntriesServed
<1> QED
  BY <1>1, <1>2, <1>3 DEF IInv

-----------------------------------------------------------------------------
(***************************************************************************)
(* What the steps have in common.                                          *)
(***************************************************************************)
\* Writes move no connection back to where it has not been accepted.
LEMMA WrittenTyped ==
    ASSUME NEW states \in [Conns -> ConnStates], NEW S
    PROVE  /\ Written(states, S) \in [Conns -> ConnStates]
           /\ \A c \in Conns : Written(states, S)[c] \in Fresh => states[c] \in Fresh
  BY DEF Written, AfterWrite, ConnStates, Fresh

\* The effect of writing to a set of connections.
LEMMA WriteTyped ==
    ASSUME NEW states \in [Conns -> ConnStates], Write(states)
    PROVE  conn' = states /\ running' \in BOOLEAN
  BY DEF Write

\* Reading takes messages from an inbox, and leaves messages.
LEMMA ReceiveTyped ==
    ASSUME TypeOK, NEW c \in Conns, Receive(c)
    PROVE  inbox' \in [Conns -> Seq(Messages)] /\ Head(inbox[c]) \in Messages
<1>1. inbox \in [Conns -> Seq(Messages)]
  BY DEF TypeOK
<1>2. PICK n \in 1 .. Len(inbox[c]) :
         inbox' = [inbox EXCEPT ![c] = SubSeq(inbox[c], n + 1, Len(inbox[c]))]
  BY DEF Receive
<1>3. SubSeq(inbox[c], n + 1, Len(inbox[c])) \in Seq(Messages)
  BY <1>1
<1>4. Head(inbox[c]) \in Messages
  BY <1>1
<1> QED
  BY <1>1, <1>2, <1>3, <1>4

\* The end of the stream is noticed on an accepted connection.
LEMMA EndTyped ==
    ASSUME TypeOK, NEW c \in Conns, EndOfStream(c)
    PROVE  /\ conn' \in [Conns -> ConnStates]
           /\ \A d \in Conns : conn'[d] \in Fresh => conn[d] \in Fresh
  BY DEF TypeOK, EndOfStream, ConnStates, Fresh

\* A step that leaves the table, the acceptor and the threads' entries alone, and
\* after which nobody at work has ended, keeps the invariant.
LEMMA QuietStep ==
    ASSUME IInv, TypeOK', UNCHANGED <<table, accepts, slot>>,
           \A c \in Conns : conn'[c] \in Fresh => conn[c] \in Fresh,
           \A c \in Conns : AtWork(c) => AtWork(c)'
    PROVE  IInv'
<1>1. /\ active' = active /\ socket' = socket /\ fds' = fds
      /\ acceptor' = acceptor /\ newcomer' = newcomer /\ slot' = slot
  BY DEF table, accepts
<1>2. InHand' = InHand /\ \A i : ConnAt(i)' = ConnAt(i)
  BY <1>1 DEF InHand, ConnAt
<1>3. Accounted'
  <2>1. (EntriesOpen /\ EntriesApart /\ ConnsApart /\ NewcomerOpen /\ AllOwned)'
    BY <1>1, <1>2 DEF IInv, Accounted, EntriesOpen, EntriesApart, ConnsApart, NewcomerOpen,
                      AllOwned
  <2>2. FreshClosed'
    BY <1>1 DEF IInv, Accounted, FreshClosed
  <2> QED
    BY <2>1, <2>2 DEF Accounted
<1>4. EntriesServed'
  <2> SUFFICES ASSUME NEW i \in Slots, active[i]
               PROVE  /\ slot[ConnAt(i)] = i
                      /\ \/ thread'[ConnAt(i)] \notin {"none", "ended"}
                         \/ acceptor = "spawn" /\ newcomer = ConnAt(i)
    BY <1>1, <1>2 DEF EntriesServed
  <2>1. ConnAt(i) \in Conns
    BY DEF IInv, Accounted, EntriesOpen
  <2> QED
    BY <2>1 DEF IInv, EntriesServed, AtWork
<1> QED
  BY <1>3, <1>4 DEF IInv

\* What going on to a statement does to the threads.
LEMMA GotoThread ==
    ASSUME TypeOK, NEW t \in Conns, NEW from, NEW to, Goto(t, from, to), to \in ThreadPc
    PROVE  /\ thread[t] = from /\ thread'[t] = to
           /\ \A c \in Conns \ {t} : thread'[c] = thread[c]
           /\ thread' \in [Conns -> ThreadPc]
           /\ to \notin {"none", "ended"} => \A c \in Conns : AtWork(c) => AtWork(c)'
  BY DEF TypeOK, Goto, AtWork

-----------------------------------------------------------------------------
(***************************************************************************)
(* The clients.                                                            *)
(***************************************************************************)
\* Connecting, sending and leaving.
LEMMA ClientStep ==
    ASSUME IInv, NEW c \in Conns, Connect(c) \/ Send(c) \/ Leave(c)
    PROVE  IInv'
<1>a. TypeOK /\ MaxSent \in Nat
  BY TcpChatAssumption DEF IInv
<1>1. /\ UNCHANGED <<table, accepts, threads, running>>
      /\ conn' \in [Conns -> ConnStates]
      /\ \A d \in Conns : conn'[d] \in Fresh => conn[d] \in Fresh
  BY <1>a DEF Connect, Send, Leave, TypeOK, ConnStates, Fresh
<1>2. inbox' \in [Conns -> Seq(Messages)] /\ sent' \in [Conns -> 0 .. MaxSent + 1]
  <2>1. CASE Connect(c) \/ Leave(c)
    BY <1>a, <2>1 DEF Connect, Leave, TypeOK
  <2>2. CASE Send(c)
    <3>1. PICK what \in Messages : inbox' = [inbox EXCEPT ![c] = Append(inbox[c], what)]
      BY <2>2 DEF Send, Messages
    <3>2. Append(inbox[c], what) \in Seq(Messages)
      BY <1>a DEF TypeOK
    <3>3. sent' = [sent EXCEPT ![c] = sent[c] + 1] /\ sent[c] + 1 \in 0 .. MaxSent + 1
      BY <1>a, <2>2 DEF Send, TypeOK
    <3> QED
      BY <1>a, <3>1, <3>2, <3>3 DEF TypeOK
  <2> QED
    BY <2>1, <2>2
<1>3. TypeOK'
  BY <1>a, <1>1, <1>2 DEF TypeOK, table, accepts, threads
<1> QED
  BY <1>1, <1>3, QuietStep DEF threads, AtWork

-----------------------------------------------------------------------------
(***************************************************************************)
(* The acceptor.                                                           *)
(***************************************************************************)
\* What the invariant says of a state.
LEMMA Facts ==
    ASSUME IInv
    PROVE  /\ TypeOK /\ EntriesOpen /\ EntriesApart /\ ConnsApart /\ NewcomerOpen
           /\ AllOwned /\ FreshClosed /\ EntriesServed /\ None \notin Conns
  BY TcpChatAssumption DEF IInv, Accounted

\* accept() gives the connection the lowest descriptor that is free: no entry has it.
LEMMA AcceptStep ==
    ASSUME IInv, NEW c \in Conns, Accept(c)
    PROVE  IInv'
<1>1. PICK n \in Fds : fds[n] = None /\ fds' = [fds EXCEPT ![n] = c]
  BY DEF Accept, LowestFree
<1>2. /\ acceptor = "accept" /\ acceptor' = "readName" /\ newcomer' = c
      /\ conn[c] = "pending" /\ conn' = [conn EXCEPT ![c] = "up"]
      /\ UNCHANGED <<active, socket, threads, inbox, sent, running>>
  BY DEF Accept
<1>3. TypeOK'
  BY <1>1, <1>2, Facts DEF TypeOK, AcceptorPc, ConnStates, threads
<1>4. \A i \in Slots : active[i] => socket[i] # n /\ ConnAt(i)' = ConnAt(i)
  BY <1>1, <1>2, Facts DEF TypeOK, EntriesOpen, ConnAt
<1>5. \A m \in Fds : fds[m] # c
  BY <1>2, Facts DEF FreshClosed, Fresh
<1>6. EntriesOpen' /\ EntriesApart'
  BY <1>2, <1>4, Facts DEF EntriesOpen, EntriesApart
<1>7. ConnsApart'
  BY <1>1, <1>5, Facts DEF ConnsApart, TypeOK
<1>8. NewcomerOpen'
  <2>1. InHand' = {c}
    BY <1>2 DEF InHand
  <2>2. fds'[n] = c
    BY <1>1, Facts DEF TypeOK
  <2>3. \A i \in Slots : active[i] => ConnAt(i)' # c
    BY <1>4, <1>5, Facts DEF ConnAt, TypeOK
  <2> QED
    BY <1>2, <2>1, <2>2, <2>3 DEF NewcomerOpen
<1>9. AllOwned'
  <2>1. InHand = {} /\ InHand' = {c}
    BY <1>2 DEF InHand
  <2> QED
    BY <1>1, <1>2, <2>1, Facts DEF AllOwned, TypeOK
<1>10. FreshClosed'
  BY <1>1, <1>2, Facts DEF FreshClosed, Fresh, TypeOK
<1>11. EntriesServed'
  <2>1. \A i \in Slots : active[i] => slot[ConnAt(i)] = i /\ AtWork(ConnAt(i))
    BY <1>2, Facts DEF EntriesServed, AtWork
  <2> QED
    BY <1>2, <1>4, <2>1 DEF EntriesServed, AtWork, threads
<1> QED
  BY <1>3, <1>6, <1>7, <1>8, <1>9, <1>10, <1>11 DEF IInv, Accounted

\* The acceptor closes the connection in its hands and goes back to accept().
LEMMA CloseNewcomer ==
    ASSUME IInv, TypeOK', InHand = {newcomer}, newcomer \in Conns, Close(newcomer),
           acceptor # "spawn", acceptor' = "accept",
           UNCHANGED <<active, socket, threads>>,
           \A d \in Conns : conn'[d] \in Fresh => conn[d] \in Fresh
    PROVE  IInv'
<1>1. InHand' = {}
  BY DEF InHand
<1>2. \A i \in Slots : active[i] => ConnAt(i)' = ConnAt(i) /\ ConnAt(i) # newcomer
  BY Facts DEF Close, NewcomerOpen, ConnAt, TypeOK
<1>3. \A n \in Fds : fds'[n] = IF fds[n] = newcomer THEN None ELSE fds[n]
  BY DEF Close
<1>4. EntriesOpen' /\ EntriesApart'
  BY <1>2, Facts DEF EntriesOpen, EntriesApart
<1>5. ConnsApart'
  BY <1>3, Facts DEF ConnsApart
<1>6. NewcomerOpen'
  BY <1>1 DEF NewcomerOpen
<1>7. AllOwned'
  BY <1>1, <1>3, Facts DEF AllOwned
<1>8. FreshClosed'
  BY <1>3, Facts DEF FreshClosed
<1>9. EntriesServed'
  <2>1. \A i \in Slots : active[i] => slot[ConnAt(i)] = i /\ AtWork(ConnAt(i))
    BY Facts DEF EntriesServed, AtWork
  <2> QED
    BY <1>2, <2>1 DEF EntriesServed, AtWork, threads
<1> QED
  BY <1>4, <1>5, <1>6, <1>7, <1>8, <1>9 DEF IInv, Accounted

\* The name arrives, or the end of the stream.
LEMMA ReadNameStep ==
    ASSUME IInv, ReadName
    PROVE  IInv'
<1>1. /\ acceptor = "readName" /\ newcomer \in Conns /\ InHand = {newcomer}
      /\ UNCHANGED <<active, socket, newcomer, threads, sent, running>>
  BY Facts DEF ReadName, NewcomerOpen, InHand
<1>2. CASE Receive(newcomer) /\ acceptor' = "register" /\ UNCHANGED <<fds, conn>>
  <2>1. TypeOK'
    BY <1>1, <1>2, ReceiveTyped, Facts DEF TypeOK, AcceptorPc, threads
  <2>2. InHand' = InHand /\ \A i : ConnAt(i)' = ConnAt(i)
    BY <1>1, <1>2 DEF InHand, ConnAt
  <2>3. Accounted'
    BY <1>1, <1>2, <2>2, Facts DEF Accounted, EntriesOpen, EntriesApart, ConnsApart,
                                   NewcomerOpen, AllOwned, FreshClosed
  <2>4. EntriesServed'
    BY <1>1, <1>2, <2>2, Facts DEF EntriesServed, threads
  <2> QED
    BY <2>1, <2>3, <2>4 DEF IInv
<1>3. CASE EndOfStream(newcomer) /\ Close(newcomer) /\ acceptor' = "accept" /\ inbox' = inbox
  <2>1. /\ conn' \in [Conns -> ConnStates]
        /\ \A d \in Conns : conn'[d] \in Fresh => conn[d] \in Fresh
    BY <1>1, <1>3, EndTyped, Facts
  <2>2. TypeOK'
    BY <1>1, <1>3, <2>1, Facts DEF TypeOK, AcceptorPc, threads, Close
  <2> QED
    BY <1>1, <1>3, <2>1, <2>2, CloseNewcomer
<1> QED
  BY <1>2, <1>3 DEF ReadName

\* The newcomer gets the first free entry, which nobody serves.
LEMMA RegisterStep ==
    ASSUME IInv, Register
    PROVE  IInv'
<1>1. PICK i \in Slots, n \in Fds :
         /\ ~active[i] /\ fds[n] = newcomer
         /\ active' = [active EXCEPT ![i] = TRUE]
         /\ socket' = [socket EXCEPT ![i] = n]
         /\ slot' = [slot EXCEPT ![newcomer] = i]
  BY DEF Register, FirstFree
<1>2. /\ acceptor = "register" /\ acceptor' = "spawn" /\ newcomer \in Conns
      /\ InHand = {newcomer} /\ InHand' = {}
      /\ UNCHANGED <<fds, newcomer, thread, fd, reading, network, running>>
  BY Facts DEF Register, NewcomerOpen, InHand
<1>3. TypeOK'
  BY <1>1, <1>2, Facts DEF TypeOK, AcceptorPc, network
<1>4. /\ ConnAt(i)' = newcomer /\ active'[i] /\ socket'[i] = n
      /\ \A j \in Slots \ {i} : /\ active'[j] <=> active[j]
                                /\ socket'[j] = socket[j] /\ ConnAt(j)' = ConnAt(j)
                                /\ active[j] => ConnAt(j) # newcomer /\ ConnAt(j) \in Conns
  BY <1>1, <1>2, Facts DEF TypeOK, ConnAt, NewcomerOpen, EntriesOpen
<1>5. EntriesOpen'
  BY <1>2, <1>4 DEF EntriesOpen
<1>6. EntriesApart'
  <2>1. \A j \in Slots \ {i} : active[j] => socket[j] # n
    BY <1>1, <1>4 DEF ConnAt
  <2> QED
    BY <1>4, <2>1, Facts DEF EntriesApart
<1>7. ConnsApart'
  BY <1>2, Facts DEF ConnsApart
<1>8. NewcomerOpen'
  BY <1>2 DEF NewcomerOpen
<1>9. AllOwned'
  <2> SUFFICES ASSUME NEW m \in Fds, fds[m] # None
               PROVE  \E j \in Slots : active'[j] /\ socket'[j] = m
    BY <1>2 DEF AllOwned
  <2>1. CASE fds[m] = newcomer
    <3>1. m = n
      BY <1>1, <2>1, Facts DEF ConnsApart
    <3> QED
      BY <1>4, <3>1
  <2>2. CASE fds[m] # newcomer
    <3>1. PICK j \in Slots : active[j] /\ socket[j] = m
      BY <1>2, <2>2, Facts DEF AllOwned
    <3>2. j # i
      BY <1>1, <3>1
    <3> QED
      BY <1>4, <3>1, <3>2
  <2> QED
    BY <2>1, <2>2
<1>10. FreshClosed'
  BY <1>2, Facts DEF FreshClosed, network
<1>11. EntriesServed'
  <2> SUFFICES ASSUME NEW j \in Slots, active'[j]
               PROVE  /\ slot'[ConnAt(j)'] = j
                      /\ \/ thread'[ConnAt(j)'] \notin {"none", "ended"}
                         \/ acceptor' = "spawn" /\ newcomer' = ConnAt(j)'
    BY DEF EntriesServed
  <2>1. CASE j = i
    BY <1>1, <1>2, <1>4, <2>1, Facts DEF TypeOK
  <2>2. CASE j # i
    BY <1>1, <1>2, <1>4, <2>2, Facts DEF TypeOK, EntriesServed
  <2> QED
    BY <2>1, <2>2
<1> QED
  BY <1>3, <1>5, <1>6, <1>7, <1>8, <1>9, <1>10, <1>11 DEF IInv, Accounted

\* There is no entry: the newcomer is told so and closed.
LEMMA TurnAwayStep ==
    ASSUME IInv, TurnAway
    PROVE  IInv'
<1>1. /\ acceptor = "register" /\ acceptor' = "accept" /\ newcomer \in Conns
      /\ InHand = {newcomer} /\ Close(newcomer)
      /\ Write(Written(conn, {newcomer}))
      /\ UNCHANGED <<active, socket, newcomer, threads, inbox, sent>>
  BY Facts DEF TurnAway, NewcomerOpen, InHand
<1>2. /\ conn' \in [Conns -> ConnStates] /\ running' \in BOOLEAN
      /\ \A d \in Conns : conn'[d] \in Fresh => conn[d] \in Fresh
  <2>1. conn \in [Conns -> ConnStates]
    BY Facts DEF TypeOK
  <2> QED
    BY <1>1, <2>1, WrittenTyped, WriteTyped
<1>3. TypeOK'
  BY <1>1, <1>2, Facts DEF TypeOK, AcceptorPc, threads, Close
<1> QED
  BY <1>1, <1>2, <1>3, CloseNewcomer

\* The newcomer's thread begins its work.
LEMMA SpawnStep ==
    ASSUME IInv, Spawn
    PROVE  IInv'
<1>1. /\ acceptor = "spawn" /\ acceptor' = "accept" /\ newcomer \in Conns
      /\ InHand = {} /\ InHand' = {} /\ Goto(newcomer, "none", "welcome")
      /\ UNCHANGED <<table, newcomer, slot, fd, reading, network, running>>
  BY Facts DEF Spawn, NewcomerOpen, InHand
<1>2. /\ thread' \in [Conns -> ThreadPc] /\ thread'[newcomer] = "welcome"
      /\ \A c \in Conns : AtWork(c) => AtWork(c)'
  BY <1>1, GotoThread, Facts DEF ThreadPc
<1>3. TypeOK'
  BY <1>1, <1>2, Facts DEF TypeOK, AcceptorPc, table, network
<1>4. \A i : ConnAt(i)' = ConnAt(i)
  BY <1>1 DEF ConnAt, table
<1>5. Accounted'
  BY <1>1, <1>4, Facts DEF Accounted, EntriesOpen, EntriesApart, ConnsApart,
                           NewcomerOpen, AllOwned, FreshClosed, table, network
<1>6. EntriesServed'
  <2> SUFFICES ASSUME NEW i \in Slots, active[i]
               PROVE  slot[ConnAt(i)] = i /\ thread'[ConnAt(i)] \notin {"none", "ended"}
    BY <1>1, <1>4 DEF EntriesServed, table
  <2>1. ConnAt(i) \in Conns
    BY Facts DEF EntriesOpen
  <2> QED
    BY <1>2, <2>1, Facts DEF EntriesServed, AtWork
<1> QED
  BY <1>3, <1>5, <1>6 DEF IInv

-----------------------------------------------------------------------------
(***************************************************************************)
(* The clients' threads, the ping thread and the console.                  *)
(***************************************************************************)
\* Giving up some of the active entries, their descriptors with them: the
\* others keep theirs.  A thread may end whose connection's entry is given up.
LEMMA EntriesDropped ==
    ASSUME IInv, TypeOK', NEW E, \A i \in E : i \in Slots /\ active[i],
           \A i \in Slots : active'[i] => active[i] /\ i \notin E,
           \A i \in Slots : active[i] /\ i \notin E => active'[i],
           \A n \in Fds : fds'[n] = IF \E i \in E : socket[i] = n THEN None ELSE fds[n],
           UNCHANGED <<socket, accepts, slot>>,
           \A c \in Conns : conn'[c] \in Fresh => conn[c] \in Fresh,
           \A c \in Conns : AtWork(c) =>
               AtWork(c)' \/ \A i \in Slots : active[i] /\ ConnAt(i) = c => i \in E
    PROVE  IInv'
<1>1. /\ socket' = socket /\ acceptor' = acceptor /\ newcomer' = newcomer
      /\ slot' = slot /\ InHand' = InHand
  BY DEF accepts, InHand
<1>2. ASSUME NEW i \in Slots, active'[i]
      PROVE  /\ active[i] /\ i \notin E
             /\ ConnAt(i)' = ConnAt(i) /\ ConnAt(i) \in Conns
  <2>1. active[i] /\ i \notin E
    BY <1>2
  <2>2. \A j \in E : socket[j] # socket[i]
    BY <2>1, Facts DEF EntriesApart
  <2>3. socket[i] \in Fds
    BY Facts DEF TypeOK
  <2>4. fds'[socket[i]] = fds[socket[i]]
    BY <2>2, <2>3
  <2> QED
    BY <1>1, <2>1, <2>4, Facts DEF ConnAt, EntriesOpen
<1>3. EntriesOpen' /\ EntriesApart'
  BY <1>1, <1>2, Facts DEF EntriesOpen, EntriesApart
<1>4. ConnsApart'
  BY Facts DEF ConnsApart
<1>5. NewcomerOpen'
  <2> SUFFICES ASSUME NEW c \in InHand
               PROVE  /\ \E n \in Fds : fds'[n] = c
                      /\ \A i \in Slots : active'[i] => ConnAt(i)' # c
    BY <1>1, Facts DEF NewcomerOpen
  <2>1. PICK n \in Fds : fds[n] = c
    BY Facts DEF NewcomerOpen
  <2>2. \A i \in E : socket[i] # n
    BY <2>1, Facts DEF NewcomerOpen, ConnAt
  <2>3. fds'[n] = c
    BY <2>1, <2>2
  <2>4. \A i \in Slots : active'[i] => ConnAt(i)' # c
    BY <1>2, Facts DEF NewcomerOpen
  <2> QED
    BY <2>3, <2>4
<1>6. AllOwned'
  <2> SUFFICES ASSUME NEW n \in Fds, fds'[n] # None, fds'[n] \notin InHand
               PROVE  \E i \in Slots : active'[i] /\ socket[i] = n
    BY <1>1 DEF AllOwned
  <2>1. fds'[n] = fds[n] /\ \A i \in E : socket[i] # n
    OBVIOUS
  <2>2. PICK i \in Slots : active[i] /\ socket[i] = n
    BY <2>1, Facts DEF AllOwned
  <2> QED
    BY <2>1, <2>2
<1>7. FreshClosed'
  BY Facts DEF FreshClosed
<1>8. EntriesServed'
  <2> SUFFICES ASSUME NEW i \in Slots, active'[i]
               PROVE  /\ slot[ConnAt(i)] = i
                      /\ \/ thread'[ConnAt(i)] \notin {"none", "ended"}
                         \/ acceptor = "spawn" /\ newcomer = ConnAt(i)
    BY <1>1, <1>2 DEF EntriesServed
  <2>1. active[i] /\ i \notin E /\ ConnAt(i) \in Conns
    BY <1>2
  <2> QED
    BY <2>1, Facts DEF EntriesServed, AtWork
<1> QED
  BY <1>3, <1>4, <1>5, <1>6, <1>7, <1>8 DEF IInv, Accounted

\* A thread ends and gives up its entry, if it is active, whosever it is by then.
\* If the thread's own connection is in an entry, it is this one.
LEMMA CleanupStep ==
    ASSUME IInv, NEW t \in Conns, Cleanup(t)
    PROVE  IInv'
<1> DEFINE k == slot[t]
           E == IF active[k] THEN {k} ELSE {}
<1>1. /\ Goto(t, "cleanup", "ended")
      /\ active' = [active EXCEPT ![k] = FALSE]
      /\ fds' = [fds EXCEPT ![socket[k]] = IF active[k] THEN None ELSE fds[socket[k]]]
      /\ UNCHANGED <<socket, accepts, slot, fd, reading, network, running>>
  BY DEF Cleanup
<1>2. /\ thread' \in [Conns -> ThreadPc]
      /\ \A c \in Conns \ {t} : thread'[c] = thread[c]
  BY <1>1, GotoThread, Facts DEF ThreadPc
<1>3. k \in Slots /\ socket[k] \in Fds
  BY Facts DEF TypeOK
<1>4. TypeOK'
  BY <1>1, <1>2, <1>3, Facts DEF TypeOK, accepts, network
<1>5. \A i \in E : i \in Slots /\ active[i]
  BY <1>3
<1>6. \A i \in Slots : /\ active'[i] => active[i] /\ i \notin E
                       /\ active[i] /\ i \notin E => active'[i]
  BY <1>1, <1>3, Facts DEF TypeOK
<1>7. \A n \in Fds : fds'[n] = IF \E i \in E : socket[i] = n THEN None ELSE fds[n]
  BY <1>1, <1>3, Facts DEF TypeOK
<1>8. \A c \in Conns : AtWork(c) =>
          AtWork(c)' \/ \A i \in Slots : active[i] /\ ConnAt(i) = c => i \in E
  BY <1>2, Facts DEF AtWork, EntriesServed
<1> HIDE DEF E
<1> QED
  BY <1>1, <1>4, <1>5, <1>6, <1>7, <1>8, EntriesDropped DEF network

\* A write of a thread to some connections.
LEMMA ThreadWrites ==
    ASSUME IInv, NEW t \in Conns, NEW from, NEW to, Goto(t, from, to),
           to \in ThreadPc \ {"none", "ended"},
           NEW states \in [Conns -> ConnStates], Write(states),
           \A c \in Conns : states[c] \in Fresh => conn[c] \in Fresh,
           UNCHANGED <<table, accepts, slot, fd, reading, inbox, sent>>
    PROVE  IInv'
<1>1. conn' = states /\ running' \in BOOLEAN
  BY WriteTyped
<1>2. thread' \in [Conns -> ThreadPc] /\ \A c \in Conns : AtWork(c) => AtWork(c)'
  BY GotoThread, Facts
<1>3. TypeOK'
  BY <1>1, <1>2, Facts DEF TypeOK, table, accepts
<1> QED
  BY <1>1, <1>2, <1>3, QuietStep

\* A step of a thread that is seen by nobody else.
LEMMA ThreadMoves ==
    ASSUME IInv, NEW t \in Conns, NEW from, NEW to, Goto(t, from, to),
           to \in ThreadPc \ {"none", "ended"},
           fd' \in [Conns -> Fds], reading' \in [Conns -> Conns \cup {None}],
           UNCHANGED <<table, accepts, slot, network, running>>
    PROVE  IInv'
<1>1. thread' \in [Conns -> ThreadPc] /\ \A c \in Conns : AtWork(c) => AtWork(c)'
  BY GotoThread, Facts
<1>2. TypeOK'
  BY <1>1, Facts DEF TypeOK, table, accepts, network
<1> QED
  BY <1>1, <1>2, QuietStep DEF network

\* read() returns: a message, of which the first command is obeyed, or the end.
LEMMA ReadReturnsStep ==
    ASSUME IInv, NEW t \in Conns, ReadReturns(t)
    PROVE  IInv'
<1>1. /\ reading[t] \in Conns
      /\ reading' = [reading EXCEPT ![t] = None]
      /\ UNCHANGED <<table, accepts, slot, fd, sent, running>>
  BY Facts DEF ReadReturns, TypeOK
<1>2. reading' \in [Conns -> Conns \cup {None}]
  BY <1>1, Facts DEF TypeOK
<1>3. CASE /\ Receive(reading[t]) /\ Goto(t, "blocked", Head(inbox[reading[t]]))
           /\ UNCHANGED conn
  <2>1. inbox' \in [Conns -> Seq(Messages)] /\ Head(inbox[reading[t]]) \in Messages
    BY <1>1, <1>3, ReceiveTyped, Facts
  <2>2. Messages \subseteq ThreadPc \ {"none", "ended"}
    BY DEF Messages, Commands, ThreadPc
  <2>3. thread' \in [Conns -> ThreadPc] /\ \A c \in Conns : AtWork(c) => AtWork(c)'
    BY <1>3, <2>1, <2>2, GotoThread, Facts
  <2>4. TypeOK'
    BY <1>1, <1>2, <1>3, <2>1, <2>3, Facts DEF TypeOK, table, accepts
  <2> QED
    BY <1>1, <1>3, <2>3, <2>4, QuietStep
<1>4. CASE EndOfStream(reading[t]) /\ Goto(t, "blocked", "cleanup") /\ UNCHANGED inbox
  <2>1. /\ conn' \in [Conns -> ConnStates]
        /\ \A c \in Conns : conn'[c] \in Fresh => conn[c] \in Fresh
    BY <1>1, <1>4, EndTyped, Facts
  <2>2. thread' \in [Conns -> ThreadPc] /\ \A c \in Conns : AtWork(c) => AtWork(c)'
    BY <1>4, GotoThread, Facts DEF ThreadPc
  <2>3. TypeOK'
    BY <1>1, <1>2, <1>4, <2>1, <2>2, Facts DEF TypeOK, table, accepts
  <2> QED
    BY <1>1, <2>1, <2>2, <2>3, QuietStep
<1> QED
  BY <1>3, <1>4 DEF ReadReturns

\* A step of a client's thread.
LEMMA ThreadStep ==
    ASSUME IInv, NEW t \in Conns, Thread(t)
    PROVE  IInv'
<1>a. /\ conn \in [Conns -> ConnStates] /\ fd \in [Conns -> Fds]
      /\ reading \in [Conns -> Conns \cup {None}] /\ socket \in [Slots -> Fds]
      /\ fds \in [Fds -> Conns \cup {None}] /\ slot \in [Conns -> Slots]
  BY Facts DEF TypeOK
<1>b. \A S : /\ Written(conn, S) \in [Conns -> ConnStates]
             /\ \A c \in Conns : Written(conn, S)[c] \in Fresh => conn[c] \in Fresh
  BY <1>a, WrittenTyped
<1>c. 0 \in Fds
  BY TcpChatAssumption DEF Fds
<1>d. {"fetch", "read", "blocked", "cleanup"} \subseteq ThreadPc \ {"none", "ended"}
  BY DEF ThreadPc
<1>1. CASE Welcome(t)
  BY <1>1, <1>b, <1>d, ThreadWrites DEF Welcome
<1>2. CASE FetchSocket(t)
  <2>1. fd' \in [Conns -> Fds]
    BY <1>2, <1>a DEF FetchSocket
  <2> QED
    BY <1>2, <1>a, <1>d, <2>1, ThreadMoves DEF FetchSocket
<1>3. CASE CallRead(t)
  <2>1. fd' \in [Conns -> Fds] /\ reading' \in [Conns -> Conns \cup {None}]
    BY <1>3, <1>a, <1>c DEF CallRead
  <2>2. PICK to \in {"cleanup", "blocked"} : Goto(t, "read", to)
    BY <1>3 DEF CallRead
  <2> QED
    BY <1>3, <1>d, <2>1, <2>2, ThreadMoves DEF CallRead
<1>4. CASE ReadReturns(t)
  BY <1>4, ReadReturnsStep
<1>5. CASE Ignore(t)
  BY <1>5, <1>a, <1>d, ThreadMoves DEF Ignore
<1>6. CASE Reply(t)
  BY <1>6, <1>b, <1>d, ThreadWrites DEF Reply
<1>7. CASE SendToAll(t)
  BY <1>7, <1>b, <1>d, ThreadWrites DEF SendToAll
<1>8. CASE SendToOne(t)
  <2>1. PICK target \in Slots \cup {MAX_CLIENTS} :
           IF target \in Slots /\ active[target]
           THEN Write(Written(Written(conn, {ConnAt(target)}), {OwnConn(t)}))
           ELSE Write(Written(conn, {OwnConn(t)}))
    BY <1>8 DEF SendToOne
  <2>2. PICK states \in [Conns -> ConnStates] :
           /\ Write(states)
           /\ \A c \in Conns : states[c] \in Fresh => conn[c] \in Fresh
    <3>1. CASE target \in Slots /\ active[target]
      <4> DEFINE first == Written(conn, {ConnAt(target)})
      <4>1. /\ first \in [Conns -> ConnStates]
            /\ \A c \in Conns : first[c] \in Fresh => conn[c] \in Fresh
        BY <1>b
      <4>2. Write(Written(first, {OwnConn(t)}))
        BY <2>1, <3>1
      <4> HIDE DEF first
      <4>3. /\ Written(first, {OwnConn(t)}) \in [Conns -> ConnStates]
            /\ \A c \in Conns : Written(first, {OwnConn(t)})[c] \in Fresh => first[c] \in Fresh
        BY <4>1, WrittenTyped
      <4> QED
        BY <4>1, <4>2, <4>3
    <3>2. CASE ~(target \in Slots /\ active[target])
      BY <1>b, <2>1, <3>2
    <3> QED
      BY <3>1, <3>2
  <2> QED
    BY <1>8, <1>d, <2>2, ThreadWrites DEF SendToOne
<1>9. CASE Stop(t)
  BY <1>9, <1>a, <1>d, ThreadMoves DEF Stop
<1>10. CASE Cleanup(t)
  BY <1>10, CleanupStep
<1> QED
  BY <1>1, <1>2, <1>3, <1>4, <1>5, <1>6, <1>7, <1>8, <1>9, <1>10 DEF Thread

\* A round of the ping thread drops the silent entries and those that fail.
LEMMA PingStep ==
    ASSUME IInv, Ping
    PROVE  IInv'
<1>1. PICK silent \in SUBSET {i \in Slots : active[i]} :
        LET failed == {i \in Slots : active[i] /\ conn[ConnAt(i)] = "aborted"}
            ended  == silent \cup failed
        IN  /\ active' = [i \in Slots |-> active[i] /\ i \notin ended]
            /\ fds' = [n \in Fds |-> IF \E i \in ended : socket[i] = n THEN None ELSE fds[n]]
            /\ Write(Written(conn, {ConnAt(i) : i \in {j \in Slots : active[j]} \ silent}))
  BY DEF Ping
<1> DEFINE E == silent \cup {i \in Slots : active[i] /\ conn[ConnAt(i)] = "aborted"}
           S == {ConnAt(i) : i \in {j \in Slots : active[j]} \ silent}
<1>2. UNCHANGED <<socket, accepts, threads, inbox, sent>>
  BY DEF Ping
<1>3. /\ active' = [i \in Slots |-> active[i] /\ i \notin E]
      /\ fds' = [n \in Fds |-> IF \E i \in E : socket[i] = n THEN None ELSE fds[n]]
      /\ Write(Written(conn, S))
  BY <1>1
<1>4. \A i \in E : i \in Slots /\ active[i]
  OBVIOUS
<1> HIDE DEF E, S
<1>5. /\ conn' \in [Conns -> ConnStates] /\ running' \in BOOLEAN
      /\ \A c \in Conns : conn'[c] \in Fresh => conn[c] \in Fresh
  <2>1. conn \in [Conns -> ConnStates]
    BY Facts DEF TypeOK
  <2> QED
    BY <1>3, <2>1, WrittenTyped, WriteTyped
<1>6. TypeOK'
  <2>1. active' \in [Slots -> BOOLEAN]
    BY <1>3
  <2>2. fds' \in [Fds -> Conns \cup {None}]
    BY <1>3, Facts DEF TypeOK
  <2> QED
    BY <1>2, <1>5, <2>1, <2>2, Facts DEF TypeOK, accepts, threads
<1>7. \A i \in Slots : /\ active'[i] => active[i] /\ i \notin E
                       /\ active[i] /\ i \notin E => active'[i]
  BY <1>3
<1> QED
  BY <1>2, <1>3, <1>4, <1>5, <1>6, <1>7, EntriesDropped DEF threads, AtWork

\* The console writes to clients and ends the program.
LEMMA ConsoleStep ==
    ASSUME IInv, Announce \/ AnnounceToOne \/ Shutdown
    PROVE  IInv'
<1>a. conn \in [Conns -> ConnStates]
  BY Facts DEF TypeOK
<1>1. /\ UNCHANGED <<table, accepts, threads, inbox, sent>>
      /\ conn' \in [Conns -> ConnStates] /\ running' \in BOOLEAN
      /\ \A c \in Conns : conn'[c] \in Fresh => conn[c] \in Fresh
  <2>1. CASE Announce
    BY <1>a, <2>1, WrittenTyped, WriteTyped DEF Announce
  <2>2. CASE AnnounceToOne
    BY <1>a, <2>2, WrittenTyped, WriteTyped DEF AnnounceToOne
  <2>3. CASE Shutdown
    BY <1>a, <2>3 DEF Shutdown, network
  <2> QED
    BY <2>1, <2>2, <2>3
<1>2. TypeOK'
  BY <1>1, Facts DEF TypeOK, table, accepts, threads
<1> QED
  BY <1>1, <1>2, QuietStep DEF threads, AtWork

-----------------------------------------------------------------------------
\* Every step keeps the inductive invariant.
LEMMA InductiveStep == IInv /\ [Next]_vars => IInv'
<1> SUFFICES ASSUME IInv, [Next]_vars PROVE IInv'
  OBVIOUS
<1>1. CASE UNCHANGED vars
  <2>1. TypeOK'
    BY <1>1, Facts DEF TypeOK, vars, table, accepts, threads, network
  <2> QED
    BY <1>1, <2>1, QuietStep DEF vars, threads, network, AtWork
<1> QED
  BY <1>1, ClientStep, ThreadStep, AcceptStep, ReadNameStep, RegisterStep, TurnAwayStep,
     SpawnStep, PingStep, ConsoleStep DEF Next, Acceptor

\* Who owns a descriptor, counted.
LEMMA OwnersCounted == IInv => FdsAccounted
<1> SUFFICES ASSUME IInv PROVE FdsAccounted
  OBVIOUS
<1>1. ASSUME NEW n \in Fds, fds[n] # None
      PROVE  Cardinality({i \in Slots : active[i] /\ socket[i] = n})
                 + Cardinality(InHand \cap {fds[n]}) = 1
  <2> DEFINE S == {i \in Slots : active[i] /\ socket[i] = n}
             H == InHand \cap {fds[n]}
  <2>1. CASE fds[n] \in InHand
    <3>1. H = {fds[n]} /\ S = {}
      BY <2>1, Facts DEF NewcomerOpen, ConnAt
    <3> HIDE DEF S, H
    <3>2. Cardinality(H) = 1 /\ Cardinality(S) = 0
      BY <3>1, FS_Singleton, FS_EmptySet
    <3> QED
      BY <3>2 DEF S, H
  <2>2. CASE fds[n] \notin InHand
    <3>1. PICK i \in Slots : active[i] /\ socket[i] = n
      BY <1>1, <2>2, Facts DEF AllOwned
    <3>2. S = {i} /\ H = {}
      BY <2>2, <3>1, Facts DEF EntriesApart
    <3> HIDE DEF S, H
    <3>3. Cardinality(S) = 1 /\ Cardinality(H) = 0
      BY <3>2, FS_Singleton, FS_EmptySet
    <3> QED
      BY <3>3 DEF S, H
  <2> QED
    BY <2>1, <2>2
<1>2. \A i \in Slots : active[i] => ConnAt(i) # None
  BY Facts DEF EntriesOpen
<1> QED
  BY <1>1, <1>2, Facts DEF FdsAccounted, NewcomerOpen, ConnsApart

(***************************************************************************)
(* The theorems.                                                           *)
(***************************************************************************)
\* The inductive invariant holds in every reachable state.
THEOREM Invariance == Spec => []IInv
  BY InitInv, InductiveStep, PTL DEF Spec

\* The type invariant: no thread reads or closes outside of the table.
THEOREM TypeCorrect == Spec => []TypeOK
<1>1. IInv => TypeOK
  BY DEF IInv
<1> QED
  BY <1>1, Invariance, PTL

\* The server neither leaks a descriptor nor lets two clients have one, whoever of
\* the four closes it: the acceptor, a client's thread, or the ping thread.
THEOREM FdsCorrect == Spec => []FdsAccounted
  BY OwnersCounted, Invariance, PTL

\* Every active entry has its thread, at work for that entry or about to be made.
THEOREM EntriesAreServed == Spec => []EntriesServed
<1>1. IInv => EntriesServed
  BY DEF IInv
<1> QED
  BY <1>1, Invariance, PTL
=============================================================================
