----------------------------- MODULE ChatQueues -----------------------------
(***************************************************************************)
(* lab-7: a chat over System V message queues.  serwer.c polls its own     *)
(* queue for INIT and CONNECTED messages in turn, registers a client by    *)
(* remembering the client's queue, and copies every CONNECTED message to   *)
(* the queues of all clients without ever waiting for room in one.         *)
(* klient.c is two processes: the parent sends, the child prints.  Queues  *)
(* live in the kernel and stay when a program dies.                        *)
(***************************************************************************)
EXTENDS Naturals, Sequences, FiniteSets, SequencesExt

CONSTANTS Clients,      \* runs of klient.c
          Keys,         \* what ftok("./plik2", getpid()) can return
          None,         \* no queue, no id
          ServerRoom,   \* messages that fit the server's queue
          ClientRoom,   \* messages that fit a client's queue
          MaxSaid       \* bound: messages a client sends

ASSUME ChatQueuesAssumption ==
    /\ IsFiniteSet(Clients)
    /\ Cardinality(Clients) <= 100   \* the size of klienci[]
    /\ ServerRoom \in Nat \ {0}
    /\ ClientRoom \in Nat \ {0}
    /\ MaxSaid \in Nat
    /\ None \notin Keys

VARIABLES serverQueue,  \* the queue of the server
          queues,       \* the queue with each key, None before it is made
          klienci,      \* registered clients: klienci[i + 1] is the queue of id i
          o2,           \* the message the server holds
          next,         \* the loop variable of the broadcast
          serverPc,
          key, id, said, pc,   \* each client's queue, id, messages sent, state
          heard,        \* history: what each client's child has printed
          log           \* history: messages broadcast, in order

serverVars == <<klienci, o2, next, serverPc, log>>
clientVars == <<key, id, said, pc, heard>>
vars == <<serverQueue, queues, serverVars, clientVars>>

last_id == Len(klienci)

\* The text of a client's n-th message is n; an INIT and the id that answers
\* it carry the 100 bytes of a message nobody wrote to, here 0.
InitMessage(k)        == [typ |-> "INIT", id |-> k, text |-> 0]
Connected(i, n) == [typ |-> "CONNECTED", id |-> i, text |-> n]

Messages == [typ : {"CONNECTED"}, id : 0 .. Cardinality(Clients) - 1, text : 0 .. MaxSaid]
Inits    == [typ : {"INIT"}, id : Keys, text : {0}]

\* No queue is not a queue, and no id not an id.
ASSUME NoneAssumption == None \notin Seq(Messages) \cup Nat

\* The first start of the server: no queue of an earlier one exists.
Init ==
    /\ serverQueue = <<>>
    /\ queues = [k \in Keys |-> None]
    /\ klienci = <<>>
    /\ o2 = None
    /\ next = 0
    /\ serverPc = "pollInit"
    /\ key = [c \in Clients |-> None]
    /\ id = [c \in Clients |-> None]
    /\ said = [c \in Clients |-> 0]
    /\ pc = [c \in Clients |-> "off"]
    /\ heard = [c \in Clients |-> <<>>]
    /\ log = <<>>

-----------------------------------------------------------------------------
\* The server.

\* msgrcv takes the oldest message of a type, wherever it is in the queue.
IsOldest(n, typ) ==
    /\ serverQueue[n].typ = typ
    /\ \A m \in 1 .. n - 1 : serverQueue[m].typ # typ

NoneOf(typ) == \A n \in DOMAIN serverQueue : serverQueue[n].typ # typ

\* A fault: the id is taken after last_id++, not before.
TakeInitLate ==
    /\ serverPc = "pollInit"
    /\ \E n \in DOMAIN serverQueue :
        /\ IsOldest(n, "INIT")
        /\ serverQueue' = RemoveAt(serverQueue, n)
        /\ klienci' = Append(klienci, serverQueue[n].id)
    /\ o2' = Connected(last_id + 1, 0)
    /\ serverPc' = "sendId"
    /\ UNCHANGED <<queues, next, log, clientVars>>

TakeInit ==
    /\ serverPc = "pollInit"
    /\ \E n \in DOMAIN serverQueue :
        /\ IsOldest(n, "INIT")
        /\ serverQueue' = RemoveAt(serverQueue, n)
        /\ klienci' = Append(klienci, serverQueue[n].id)
    /\ o2' = Connected(last_id, 0)
    /\ serverPc' = "sendId"
    /\ UNCHANGED <<queues, next, log, clientVars>>

NoInit ==
    /\ serverPc = "pollInit"
    /\ NoneOf("INIT")
    /\ serverPc' = "pollMessage"
    /\ UNCHANGED <<serverQueue, queues, klienci, o2, next, log, clientVars>>

\* A fault: the server waits for room in the client's queue.
PutWaiting(k) ==
    /\ Len(queues[k]) < ClientRoom
    /\ queues' = [queues EXCEPT ![k] = Append(@, o2)]

\* msgsnd with IPC_NOWAIT: a message that does not fit is dropped.
Put(k) ==
    queues' = [queues EXCEPT ![k] = IF Len(@) < ClientRoom THEN Append(@, o2) ELSE @]

SendId ==
    /\ serverPc = "sendId"
    /\ Put(Last(klienci))
    /\ serverPc' = "pollMessage"
    /\ UNCHANGED <<serverQueue, klienci, o2, next, log, clientVars>>

TakeMessage ==
    /\ serverPc = "pollMessage"
    /\ \E n \in DOMAIN serverQueue :
        /\ IsOldest(n, "CONNECTED")
        /\ serverQueue' = RemoveAt(serverQueue, n)
        /\ o2' = serverQueue[n]
        /\ log' = Append(log, serverQueue[n])
    /\ next' = 0
    /\ serverPc' = "broadcast"
    /\ UNCHANGED <<queues, klienci, clientVars>>

NoMessage ==
    /\ serverPc = "pollMessage"
    /\ NoneOf("CONNECTED")
    /\ serverPc' = "pollInit"
    /\ UNCHANGED <<serverQueue, queues, klienci, o2, next, log, clientVars>>

SendNext ==
    /\ serverPc = "broadcast"
    /\ next < last_id
    /\ Put(klienci[next + 1])
    /\ next' = next + 1
    /\ UNCHANGED <<serverQueue, klienci, o2, serverPc, log, clientVars>>

\* A fault: the server goes on with messages while there are any (a while in
\* place of the if of line 60).
EndBroadcastDraining ==
    /\ serverPc = "broadcast"
    /\ next = last_id
    /\ serverPc' = "pollMessage"
    /\ UNCHANGED <<serverQueue, queues, klienci, o2, next, log, clientVars>>

EndBroadcast ==
    /\ serverPc = "broadcast"
    /\ next = last_id
    /\ serverPc' = "pollInit"
    /\ UNCHANGED <<serverQueue, queues, klienci, o2, next, log, clientVars>>

Server ==
    TakeInit \/ NoInit \/ SendId \/ TakeMessage \/ NoMessage \/ SendNext \/ EndBroadcast

-----------------------------------------------------------------------------
\* A client.

\* A fault: msgget without IPC_EXCL accepts a queue that exists.
MakeQueueShared(c) ==
    /\ pc[c] = "off"
    /\ \E k \in Keys :
        /\ key' = [key EXCEPT ![c] = k]
        /\ queues' = [queues EXCEPT ![k] = IF @ = None THEN <<>> ELSE @]
    /\ pc' = [pc EXCEPT ![c] = "sendInit"]
    /\ UNCHANGED <<serverQueue, serverVars, id, said, heard>>

\* ftok keeps eight bits of the pid, and the queue of a client that is gone
\* is never removed: the key may be taken, and then the client exits.
MakeQueue(c) ==
    /\ pc[c] = "off"
    /\ \E k \in Keys :
        IF queues[k] = None
        THEN /\ key' = [key EXCEPT ![c] = k]
             /\ queues' = [queues EXCEPT ![k] = <<>>]
             /\ pc' = [pc EXCEPT ![c] = "sendInit"]
        ELSE /\ pc' = [pc EXCEPT ![c] = "gone"]
             /\ UNCHANGED <<key, queues>>
    /\ UNCHANGED <<serverQueue, serverVars, id, said, heard>>

\* msgsnd without IPC_NOWAIT waits until the message fits.
PutToServer(message) ==
    /\ Len(serverQueue) < ServerRoom
    /\ serverQueue' = Append(serverQueue, message)

SendInit(c) ==
    /\ pc[c] = "sendInit"
    /\ PutToServer(InitMessage(key[c]))
    /\ pc' = [pc EXCEPT ![c] = "awaitId"]
    /\ UNCHANGED <<queues, serverVars, key, id, said, heard>>

\* The first message of the client's queue is taken for its id, whoever it
\* is about; then the child is forked.
ReceiveId(c) ==
    /\ pc[c] = "awaitId"
    /\ queues[key[c]] # <<>>
    /\ id' = [id EXCEPT ![c] = Head(queues[key[c]]).id]
    /\ queues' = [queues EXCEPT ![key[c]] = Tail(@)]
    /\ pc' = [pc EXCEPT ![c] = "chatting"]
    /\ UNCHANGED <<serverQueue, serverVars, key, said, heard>>

\* The parent.
Say(c) ==
    /\ pc[c] = "chatting"
    /\ said[c] < MaxSaid
    /\ PutToServer(Connected(id[c], said[c] + 1))
    /\ said' = [said EXCEPT ![c] = @ + 1]
    /\ UNCHANGED <<queues, serverVars, key, id, pc, heard>>

\* A fault: the child takes the newest message.
HearNewest(c) ==
    /\ pc[c] = "chatting"
    /\ queues[key[c]] # <<>>
    /\ heard' = [heard EXCEPT ![c] = Append(@, Last(queues[key[c]]))]
    /\ queues' = [queues EXCEPT ![key[c]] = Front(@)]
    /\ UNCHANGED <<serverQueue, serverVars, key, id, said, pc>>

\* The child.
Hear(c) ==
    /\ pc[c] = "chatting"
    /\ queues[key[c]] # <<>>
    /\ heard' = [heard EXCEPT ![c] = Append(@, Head(queues[key[c]]))]
    /\ queues' = [queues EXCEPT ![key[c]] = Tail(@)]
    /\ UNCHANGED <<serverQueue, serverVars, key, id, said, pc>>

\* SIGINT to the client's process group; its queue stays.
Kill(c) ==
    /\ pc[c] \in {"sendInit", "awaitId", "chatting"}
    /\ pc' = [pc EXCEPT ![c] = "gone"]
    /\ UNCHANGED <<serverQueue, queues, serverVars, key, id, said, heard>>

Client(c) == MakeQueue(c) \/ SendInit(c) \/ ReceiveId(c) \/ Say(c) \/ Hear(c) \/ Kill(c)

-----------------------------------------------------------------------------
Next == Server \/ \E c \in Clients : Client(c)

Spec == Init /\ [][Next]_vars

\* The server polls for ever, and a client waiting for its id is woken by it.
\* Nobody is assumed to read its messages, to say anything or to stay alive.
ServerFairness == WF_vars(Server) /\ \A c \in Clients : WF_vars(ReceiveId(c))

FairSpec == Spec /\ ServerFairness

(***************************************************************************)
(* A client may talk for ever.  In Spec MaxSaid would end that.  In        *)
(* EndlessSpec it bounds what is remembered: what a client has said may be *)
(* forgotten when none of it is on its way to somebody who could read it,  *)
(* and the client goes on.  No guard of the code reads these histories.    *)
(***************************************************************************)
OnItsWay(c) ==
    \/ \E n \in DOMAIN serverQueue : serverQueue[n] \in Messages /\ serverQueue[n].id = id[c]
    \/ serverPc = "broadcast" /\ o2.id = id[c]
    \/ \E d \in Clients : pc[d] \in {"awaitId", "chatting"} /\ \E n \in DOMAIN queues[key[d]] :
          queues[key[d]][n].id = id[c]

Without(messages, i) == SelectSeq(messages, LAMBDA message : message.id # i)

Forget(c) ==
    /\ said[c] > 0
    /\ ~OnItsWay(c)
    /\ said' = [said EXCEPT ![c] = 0]
    /\ heard' = [d \in Clients |-> Without(heard[d], id[c])]
    /\ log' = Without(log, id[c])
    /\ UNCHANGED <<serverQueue, queues, klienci, o2, next, serverPc, key, id, pc>>

EndlessNext == Next \/ \E c \in Clients : Forget(c)

EndlessSpec == Init /\ [][EndlessNext]_vars /\ ServerFairness
-----------------------------------------------------------------------------
\* The type invariant.
TypeOK ==
    /\ serverQueue \in Seq(Messages \cup Inits) /\ Len(serverQueue) <= ServerRoom
    /\ queues \in [Keys -> Seq(Messages) \cup {None}]
    /\ \A k \in Keys : queues[k] # None => Len(queues[k]) <= ClientRoom
    /\ klienci \in Seq(Keys) /\ last_id <= Cardinality(Clients)
    /\ o2 \in Messages \cup {None}
    /\ next \in 0 .. last_id
    /\ serverPc \in {"pollInit", "sendId", "pollMessage", "broadcast"}
    /\ pc \in [Clients -> {"off", "sendInit", "awaitId", "chatting", "gone"}]
    /\ key \in [Clients -> Keys \cup {None}]
    /\ id \in [Clients -> 0 .. Cardinality(Clients) - 1 \cup {None}]
    /\ said \in [Clients -> 0 .. MaxSaid]
    /\ heard \in [Clients -> Seq(Messages)]
    /\ log \in Seq(Messages)

(***************************************************************************)
(* The id a client has is its own, the one under which the server keeps    *)
(* its queue, although the answer to INIT has the type of every broadcast  *)
(* and could be taken for one: it is the first message of a queue nobody   *)
(* shares.                                                                 *)
(***************************************************************************)
IdsMatch ==
    \A c \in Clients : id[c] # None =>
        /\ id[c] < last_id
        /\ klienci[id[c] + 1] = key[c]
        /\ \A d \in Clients \ {c} : id[d] # id[c]

(***************************************************************************)
(* All clients see one order: what a client has printed and still has to   *)
(* read is, with gaps where its queue was full, the sequence of messages   *)
(* the server has broadcast, without repetition; and the messages of one   *)
(* client are broadcast in the order it sent them.                         *)
(***************************************************************************)
Seen(c) == heard[c] \o IF pc[c] = "chatting" THEN queues[key[c]] ELSE <<>>

OneOrder ==
    /\ \A c \in Clients : \A i, j \in DOMAIN Seen(c) : i < j =>
          \E m, n \in DOMAIN log : m < n /\ log[m] = Seen(c)[i] /\ log[n] = Seen(c)[j]
    /\ \A m, n \in DOMAIN log : m < n /\ log[m].id = log[n].id => log[m].text < log[n].text

(***************************************************************************)
(* Every message in the server's queue is broadcast, even when clients     *)
(* have died or stopped reading and their queues are full.                 *)
(***************************************************************************)
EveryMessageIsBroadcast ==
    \A m \in Messages :
        (\E n \in DOMAIN serverQueue : serverQueue[n] = m)
            ~> (\E n \in DOMAIN log : log[n] = m)

(***************************************************************************)
(* A client that waits for its id gets one, or is killed, even when the    *)
(* others never stop talking: INIT messages are polled for between every   *)
(* two broadcasts.                                                         *)
(***************************************************************************)
ClientsGetIds == \A c \in Clients : pc[c] = "awaitId" ~> pc[c] # "awaitId"
=============================================================================
