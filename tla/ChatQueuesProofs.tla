-------------------------- MODULE ChatQueuesProofs --------------------------
(***************************************************************************)
(* Proofs, for any number of clients up to 100, any keys and any queue     *)
(* sizes, of the invariants of ChatQueues.                                 *)
(***************************************************************************)
EXTENDS ChatQueues, SequenceTheorems, FiniteSetTheorems, TLAPS

IsInit(m) == m.typ = "INIT"

\* Every client that runs has made its queue, and no other client has its key.
KeysApart ==
    /\ \A c \in Clients : pc[c] \in {"sendInit", "awaitId", "chatting"} => key[c] # None
    /\ \A c \in Clients : pc[c] = "off" => key[c] = None
    /\ \A c \in Clients : key[c] # None => queues[key[c]] # None
    /\ \A c, d \in Clients : key[c] # None /\ key[c] = key[d] => c = d

Registered(k) == \E i \in 1 .. last_id : klienci[i] = k
Asking(k) == \E n \in 1 .. Len(serverQueue) :
                 IsInit(serverQueue[n]) /\ serverQueue[n].id = k

\* A client asks at most once to be registered, and is registered at most once.
RegisteredOnce ==
    /\ \A i \in 1 .. last_id : \E c \in Clients : key[c] = klienci[i]
    /\ \A i, j \in 1 .. last_id : klienci[i] = klienci[j] => i = j
AskedOnce ==
    /\ \A n \in 1 .. Len(serverQueue) : IsInit(serverQueue[n]) =>
          /\ \E c \in Clients : key[c] = serverQueue[n].id
          /\ ~Registered(serverQueue[n].id)
    /\ \A m, n \in 1 .. Len(serverQueue) :
          /\ IsInit(serverQueue[m]) /\ IsInit(serverQueue[n])
          /\ serverQueue[m].id = serverQueue[n].id
          => m = n
    /\ \A c \in Clients : pc[c] = "sendInit" => ~Registered(key[c]) /\ ~Asking(key[c])

\* The client the server has registered but not answered yet.
Unanswered(i) == serverPc = "sendId" /\ i = last_id

\* Nothing comes to a queue before the id it is registered under.
AnswersFirst ==
    /\ \A k \in Keys : queues[k] # None /\ ~Registered(k) => queues[k] = <<>>
    /\ serverPc = "sendId" =>
          /\ last_id > 0
          /\ o2 = Connected(last_id - 1, 0)
          /\ queues[klienci[last_id]] = <<>>
          /\ \A c \in Clients : id[c] # None => key[c] # klienci[last_id]
    /\ \A c \in Clients : pc[c] = "awaitId" => \A i \in 1 .. last_id :
          klienci[i] = key[c] /\ ~Unanswered(i) =>
              queues[key[c]] # <<>> /\ Head(queues[key[c]]).id = i - 1

\* A client that chats has got its id, and one that waits has none.
IdsOnce ==
    \A c \in Clients : /\ pc[c] = "chatting" => id[c] # None
                       /\ pc[c] \in {"off", "sendInit", "awaitId"} => id[c] = None

\* What has been said was said by a client with that id, in this order.
Sent(m) == \E c \in Clients : id[c] = m.id /\ m.text <= said[c]
SentInOrder ==
    /\ \A n \in 1 .. Len(serverQueue) : ~IsInit(serverQueue[n]) => Sent(serverQueue[n])
    /\ \A n \in 1 .. Len(log) : Sent(log[n])
    /\ \A m, n \in 1 .. Len(serverQueue) :
          /\ m < n /\ ~IsInit(serverQueue[m]) /\ ~IsInit(serverQueue[n])
          /\ serverQueue[m].id = serverQueue[n].id
          => serverQueue[m].text < serverQueue[n].text
    /\ \A m \in 1 .. Len(log), n \in 1 .. Len(serverQueue) :
          ~IsInit(serverQueue[n]) /\ log[m].id = serverQueue[n].id
          => log[m].text < serverQueue[n].text
    /\ \A m, n \in 1 .. Len(log) :
          m < n /\ log[m].id = log[n].id => log[m].text < log[n].text

\* What a client has printed and, after its id, has still to read.
Unread(c) ==
    IF pc[c] = "chatting" THEN queues[key[c]]
    ELSE IF pc[c] = "awaitId" /\ queues[key[c]] # <<>> THEN Tail(queues[key[c]])
    ELSE <<>>
Coming(c) == heard[c] \o Unread(c)

\* s keeps the order of l, and is made of the first b elements of l.
InOrder(s, l) ==
    \A i, j \in 1 .. Len(s) : i < j =>
        \E m, n \in 1 .. Len(l) : m < n /\ l[m] = s[i] /\ l[n] = s[j]
Within(s, l, b) == \A i \in 1 .. Len(s) : \E m \in 1 .. b : l[m] = s[i]

\* A client the broadcast of the last message has not reached has not got it.
Due(c) == serverPc = "broadcast" /\ \E i \in next + 1 .. last_id : klienci[i] = key[c]
ComingInOrder ==
    /\ serverPc = "broadcast" => Len(log) > 0 /\ o2 = log[Len(log)]
    /\ \A c \in Clients :
          /\ InOrder(Coming(c), log)
          /\ Within(Coming(c), log, Len(log))
          /\ Due(c) => Within(Coming(c), log, Len(log) - 1)

(***************************************************************************)
(* The inductive invariant.  IdsMatch holds because an id is read from the *)
(* head of a queue nobody shares (KeysApart), which the server registers   *)
(* once (RegisteredOnce, AskedOnce) and to which it writes the id before   *)
(* anything else (AnswersFirst).  OneOrder holds because a message is      *)
(* copied to a queue once, by the last broadcast (ComingInOrder), and the  *)
(* server's queue keeps the order of each sender (SentInOrder).            *)
(***************************************************************************)
IInv ==
    /\ TypeOK
    /\ KeysApart
    /\ RegisteredOnce
    /\ AskedOnce
    /\ AnswersFirst
    /\ IdsOnce
    /\ IdsMatch
    /\ SentInOrder
    /\ ComingInOrder

\* The initial states satisfy the inductive invariant.
LEMMA InitInv == Init => IInv
<1> SUFFICES ASSUME Init PROVE IInv
  OBVIOUS
<1> USE ChatQueuesAssumption, EmptySeq DEF Init, last_id
<1>1. TypeOK
  <2>1. Cardinality(Clients) \in Nat
    BY FS_CardinalityType
  <2>2. /\ serverQueue \in Seq(Messages \cup Inits) /\ Len(serverQueue) <= ServerRoom
        /\ klienci \in Seq(Keys) /\ last_id <= Cardinality(Clients)
        /\ next \in 0 .. last_id
    BY <2>1
  <2>3. /\ heard \in [Clients -> Seq(Messages)]
        /\ log \in Seq(Messages)
    OBVIOUS
  <2> QED
    BY <2>2, <2>3 DEF TypeOK
<1>2. KeysApart /\ RegisteredOnce /\ AskedOnce /\ AnswersFirst /\ IdsOnce /\ IdsMatch
  BY DEF KeysApart, RegisteredOnce, AskedOnce, Registered, Asking, AnswersFirst, IdsOnce,
         IdsMatch
<1>3. SentInOrder
  BY DEF SentInOrder
<1>4. ComingInOrder
  <2>1. ASSUME NEW c \in Clients PROVE Coming(c) = <<>>
    BY DEF Coming, Unread
  <2> QED
    BY <2>1 DEF ComingInOrder, InOrder, Within, Due
<1> QED
  BY <1>1, <1>2, <1>3, <1>4 DEF IInv

-----------------------------------------------------------------------------
\* Sequences.

\* What is left when the n-th element is taken out keeps its order.
Skip(i, n) == IF i < n THEN i ELSE i + 1

\* What msgrcv leaves of a queue: one message less, the others in their order.
LEMMA RemoveAtPlace ==
    ASSUME NEW S, NEW s \in Seq(S), NEW n \in 1 .. Len(s), NEW k \in Int
    PROVE  /\ RemoveAt(s, n) \in Seq(S)
           /\ Len(RemoveAt(s, n)) = Len(s) - 1
           /\ k \in 1 .. Len(s) - 1 =>
                 Skip(k, n) \in 1 .. Len(s) \ {n} /\ RemoveAt(s, n)[k] = s[Skip(k, n)]
<1> DEFINE a == SubSeq(s, 1, n - 1)
           b == SubSeq(s, n + 1, Len(s))
<1>0. Len(s) \in Int /\ n \in Int
  BY LenProperties
<1>1. a \in Seq(S) /\ Len(a) = n - 1 /\ \A i \in 1 .. n - 1 : a[i] = s[i]
  BY SubSeqProperties, LenProperties, ElementOfSeq
<1>2. b \in Seq(S) /\ Len(b) = Len(s) - n /\ \A i \in 1 .. Len(s) - n : b[i] = s[n + i]
  <2>1. Len(s) \in Nat /\ \A i \in n + 1 .. Len(s) : s[i] \in S
    BY LenProperties, ElementOfSeq
  <2>2. /\ b \in Seq(S)
        /\ Len(b) = IF n + 1 <= Len(s) THEN Len(s) - (n + 1) + 1 ELSE 0
        /\ \A i \in 1 .. Len(s) - (n + 1) + 1 : b[i] = s[n + 1 + i - 1]
    BY <2>1, SubSeqProperties
  <2> HIDE DEF b
  <2>3. Len(b) = Len(s) - n
    BY <2>1, <2>2
  <2>4. ASSUME NEW i \in 1 .. Len(s) - n PROVE b[i] = s[n + i]
    <3>1. i \in 1 .. Len(s) - (n + 1) + 1 /\ n + 1 + i - 1 = n + i
      BY <2>1
    <3> QED
      BY <2>2, <3>1
  <2> QED
    BY <2>2, <2>3, <2>4
<1>3. RemoveAt(s, n) = a \o b
  BY DEF RemoveAt
<1> HIDE DEF a, b
<1>4. /\ a \o b \in Seq(S)
      /\ Len(a \o b) = Len(s) - 1
      /\ \A i \in 1 .. Len(s) - 1 : (a \o b)[i] = IF i <= n - 1 THEN a[i] ELSE b[i - (n - 1)]
  <2>1. /\ a \o b \in Seq(S)
        /\ Len(a \o b) = Len(a) + Len(b)
        /\ \A i \in 1 .. Len(a) + Len(b) :
              (a \o b)[i] = IF i <= Len(a) THEN a[i] ELSE b[i - Len(a)]
    BY <1>1, <1>2, ConcatProperties
  <2>2. Len(a) + Len(b) = Len(s) - 1
    BY <1>0, <1>1, <1>2
  <2> QED
    BY <1>1, <2>1, <2>2
<1>5. ASSUME NEW i \in 1 .. Len(s) - 1
      PROVE  Skip(i, n) \in 1 .. Len(s) \ {n} /\ (a \o b)[i] = s[Skip(i, n)]
  <2>1. CASE i < n
    BY <1>1, <1>4, <2>1, <1>0 DEF Skip
  <2>2. CASE i >= n
    <3>1. (a \o b)[i] = b[i - (n - 1)] /\ i - (n - 1) \in 1 .. Len(s) - n
      BY <1>4, <2>2, <1>0
    <3>2. n + (i - (n - 1)) = i + 1 /\ i + 1 \in 1 .. Len(s) \ {n}
      BY <2>2, <1>0
    <3>3. (a \o b)[i] = s[i + 1]
      BY <1>2, <3>1, <3>2
    <3> QED
      BY <2>2, <3>2, <3>3 DEF Skip
  <2>3. i < n \/ i >= n
    BY <1>0
  <2> QED
    BY <2>1, <2>2, <2>3
<1> QED
  BY <1>3, <1>4, <1>5

\* The same, of the whole and of each element.
LEMMA RemoveAtFacts ==
    ASSUME NEW S, NEW s \in Seq(S), NEW n \in 1 .. Len(s)
    PROVE  RemoveAt(s, n) \in Seq(S) /\ Len(RemoveAt(s, n)) = Len(s) - 1
<1>1. 0 \in Int
  OBVIOUS
<1> QED
  BY <1>1, RemoveAtPlace

LEMMA RemoveAtElement ==
    ASSUME NEW S, NEW s \in Seq(S), NEW n \in 1 .. Len(s), NEW i \in 1 .. Len(s) - 1
    PROVE  Skip(i, n) \in 1 .. Len(s) \ {n} /\ RemoveAt(s, n)[i] = s[Skip(i, n)]
<1>1. i \in Int
  BY LenProperties
<1> QED
  BY <1>1, RemoveAtPlace

\* The elements that stay keep their order, and stay distinct.
LEMMA SkipFacts ==
    ASSUME NEW i \in Nat, NEW j \in Nat, NEW n \in Nat
    PROVE  /\ i < j => Skip(i, n) < Skip(j, n)
           /\ Skip(i, n) = Skip(j, n) => i = j
BY DEF Skip

\* A sequence of keys of clients, each once, is not longer than there are clients.
LEMMA OneKeyEach ==
    ASSUME NEW s \in Seq(Keys), NEW k \in [Clients -> Keys \cup {None}],
           \A i \in 1 .. Len(s) : \E c \in Clients : k[c] = s[i],
           \A i, j \in 1 .. Len(s) : s[i] = s[j] => i = j
    PROVE  Len(s) <= Cardinality(Clients)
<1> DEFINE f == [i \in 1 .. Len(s) |-> CHOOSE c \in Clients : k[c] = s[i]]
<1>1. Len(s) \in Nat
  BY LenProperties
<1>2. \A i \in 1 .. Len(s) : f[i] \in Clients /\ k[f[i]] = s[i]
  OBVIOUS
<1>3. f \in [1 .. Len(s) -> Clients]
  BY <1>2
<1> HIDE DEF f
<1>4. ASSUME NEW i \in 1 .. Len(s), NEW j \in 1 .. Len(s), f[i] = f[j] PROVE i = j
  BY <1>2, <1>4
<1>5. f \in Injection(1 .. Len(s), Clients)
  BY <1>3, <1>4 DEF Injection, IsInjective
<1>6. Cardinality(1 .. Len(s)) <= Cardinality(Clients)
  BY <1>5, FS_Injection, ChatQueuesAssumption
<1>7. Cardinality(1 .. Len(s)) = Len(s)
  <2>1. Cardinality(1 .. Len(s)) = IF 1 > Len(s) THEN 0 ELSE Len(s) - 1 + 1
    BY <1>1, FS_Interval
  <2> QED
    BY <1>1, <2>1
<1> QED
  BY <1>6, <1>7

-----------------------------------------------------------------------------
\* What an operation does to a queue.

\* What the type invariant says of the elements of each sequence.
LEMMA Types ==
    ASSUME TypeOK
    PROVE  /\ Cardinality(Clients) \in Nat
           /\ Len(serverQueue) \in Nat
           /\ \A n \in 1 .. Len(serverQueue) :
                 /\ serverQueue[n] \in Messages \cup Inits
                 /\ IsInit(serverQueue[n]) => serverQueue[n] \in Inits
                 /\ ~IsInit(serverQueue[n]) => serverQueue[n] \in Messages
           /\ last_id \in Nat
           /\ \A i \in 1 .. last_id : klienci[i] \in Keys
           /\ Len(log) \in Nat
           /\ \A n \in 1 .. Len(log) : log[n] \in Messages
           /\ \A c \in Clients : key[c] # None => key[c] \in Keys
<1>1. Cardinality(Clients) \in Nat
  BY ChatQueuesAssumption, FS_CardinalityType
<1>2. /\ Len(serverQueue) \in Nat
      /\ \A n \in 1 .. Len(serverQueue) : serverQueue[n] \in Messages \cup Inits
  BY LenProperties, ElementOfSeq DEF TypeOK
<1>3. \A n \in 1 .. Len(serverQueue) :
          /\ IsInit(serverQueue[n]) => serverQueue[n] \in Inits
          /\ ~IsInit(serverQueue[n]) => serverQueue[n] \in Messages
  BY <1>2 DEF IsInit, Messages, Inits
<1>4. last_id \in Nat /\ \A i \in 1 .. last_id : klienci[i] \in Keys
  BY LenProperties, ElementOfSeq DEF TypeOK, last_id
<1>5. Len(log) \in Nat /\ \A n \in 1 .. Len(log) : log[n] \in Messages
  BY LenProperties, ElementOfSeq DEF TypeOK
<1> QED
  BY <1>1, <1>2, <1>3, <1>4, <1>5 DEF TypeOK

\* msgrcv on the server's queue.
LEMMA Take ==
    ASSUME TypeOK, NEW n \in DOMAIN serverQueue, serverQueue' = RemoveAt(serverQueue, n)
    PROVE  /\ n \in 1 .. Len(serverQueue)
           /\ serverQueue' \in Seq(Messages \cup Inits)
           /\ Len(serverQueue') = Len(serverQueue) - 1
           /\ \A i \in 1 .. Len(serverQueue') :
                 /\ i \in Nat
                 /\ Skip(i, n) \in 1 .. Len(serverQueue) \ {n}
                 /\ serverQueue'[i] = serverQueue[Skip(i, n)]
           /\ \A i, j \in 1 .. Len(serverQueue') : i < j => Skip(i, n) < Skip(j, n)
<1>1. serverQueue \in Seq(Messages \cup Inits) /\ n \in 1 .. Len(serverQueue)
  BY LenProperties DEF TypeOK
<1>2. /\ serverQueue' \in Seq(Messages \cup Inits)
      /\ Len(serverQueue') = Len(serverQueue) - 1
      /\ \A i \in 1 .. Len(serverQueue) - 1 :
            /\ Skip(i, n) \in 1 .. Len(serverQueue) \ {n}
            /\ serverQueue'[i] = serverQueue[Skip(i, n)]
  <2> DEFINE E == Messages \cup Inits
             l == Len(serverQueue)
             t == RemoveAt(serverQueue, n)
  <2>1. serverQueue \in Seq(E) /\ n \in 1 .. l
    BY <1>1
  <2>2. t \in Seq(E)
    BY <2>1, RemoveAtFacts
  <2>3. Len(t) = l - 1
    BY <2>1, RemoveAtFacts
  <2>4. ASSUME NEW i \in 1 .. l - 1
        PROVE  Skip(i, n) \in 1 .. l \ {n} /\ t[i] = serverQueue[Skip(i, n)]
    BY <2>1, RemoveAtElement
  <2> QED
    BY <2>2, <2>3, <2>4
<1>3. \A i \in 1 .. Len(serverQueue') : i \in Nat
  <2>1. Len(serverQueue') \in Nat
    BY <1>2, LenProperties
  <2> QED
    BY <2>1
<1>4. ASSUME NEW i \in 1 .. Len(serverQueue'), NEW j \in 1 .. Len(serverQueue'), i < j
      PROVE  Skip(i, n) < Skip(j, n)
  <2>1. i \in Nat /\ j \in Nat
    BY <1>3
  <2>2. n \in Nat
    BY <1>1, LenProperties
  <2> QED
    BY <1>4, <2>1, <2>2, SkipFacts
<1> QED
  BY <1>1, <1>2, <1>3, <1>4

\* msgsnd to the server's queue.
LEMMA PutToServerFacts ==
    ASSUME TypeOK, NEW m \in Messages \cup Inits, PutToServer(m)
    PROVE  /\ serverQueue' \in Seq(Messages \cup Inits)
           /\ Len(serverQueue') = Len(serverQueue) + 1
           /\ Len(serverQueue') <= ServerRoom
           /\ \A i \in 1 .. Len(serverQueue) : serverQueue'[i] = serverQueue[i]
           /\ serverQueue'[Len(serverQueue) + 1] = m
<1>1. serverQueue \in Seq(Messages \cup Inits) /\ Len(serverQueue) \in Nat
  BY LenProperties DEF TypeOK
<1> QED
  BY <1>1, AppendProperties, ChatQueuesAssumption DEF PutToServer

\* msgsnd to the queue of a client, which has room for the message or drops it.
LEMMA PutFacts ==
    ASSUME TypeOK, NEW k \in Keys, queues[k] # None, o2 \in Messages, Put(k)
    PROVE  /\ queues' \in [Keys -> Seq(Messages) \cup {None}]
           /\ queues[k] \in Seq(Messages)
           /\ queues'[k] \in Seq(Messages) /\ Len(queues'[k]) <= ClientRoom
           /\ queues'[k] # <<>>
           /\ \A j \in Keys \ {k} : queues'[j] = queues[j]
           /\ \/ queues'[k] = queues[k] /\ queues[k] # <<>>
              \/ queues'[k] = Append(queues[k], o2)
<1>1. queues[k] \in Seq(Messages) /\ Len(queues[k]) \in Nat /\ Len(queues[k]) <= ClientRoom
  BY LenProperties DEF TypeOK
<1>2. CASE Len(queues[k]) < ClientRoom
  <2>1. queues' = [queues EXCEPT ![k] = Append(queues[k], o2)]
    BY <1>2 DEF Put
  <2>2. /\ Append(queues[k], o2) \in Seq(Messages)
        /\ Len(Append(queues[k], o2)) = Len(queues[k]) + 1
        /\ Append(queues[k], o2) # <<>>
    BY <1>1, AppendProperties
  <2> QED
    BY <1>1, <1>2, <2>1, <2>2, ChatQueuesAssumption DEF TypeOK
<1>3. CASE ~(Len(queues[k]) < ClientRoom)
  <2>1. queues' = queues
    BY <1>3 DEF Put, TypeOK
  <2>2. queues[k] # <<>>
    BY <1>1, <1>3, ChatQueuesAssumption, EmptySeq
  <2> QED
    BY <1>1, <2>1, <2>2 DEF TypeOK
<1> QED
  BY <1>2, <1>3

\* A client's msgrcv on its own queue.
LEMMA ReceiveFacts ==
    ASSUME TypeOK, NEW k \in Keys, queues[k] # None, queues[k] # <<>>,
           queues' = [queues EXCEPT ![k] = Tail(@)]
    PROVE  /\ queues' \in [Keys -> Seq(Messages) \cup {None}]
           /\ queues[k] \in Seq(Messages)
           /\ Head(queues[k]) \in Messages
           /\ queues'[k] = Tail(queues[k])
           /\ queues'[k] \in Seq(Messages) /\ Len(queues'[k]) <= ClientRoom
           /\ \A j \in Keys \ {k} : queues'[j] = queues[j]
<1>1. queues[k] \in Seq(Messages) /\ Len(queues[k]) \in Nat /\ Len(queues[k]) <= ClientRoom
  BY LenProperties DEF TypeOK
<1>2. /\ Head(queues[k]) \in Messages
      /\ Tail(queues[k]) \in Seq(Messages)
      /\ Len(Tail(queues[k])) = Len(queues[k]) - 1
  BY <1>1, HeadTailProperties
<1> QED
  BY <1>1, <1>2, ChatQueuesAssumption DEF TypeOK

\* Registered clients have queues.
LEMMA RegisteredHaveQueues ==
    ASSUME IInv, NEW i \in 1 .. last_id
    PROVE  klienci[i] \in Keys /\ queues[klienci[i]] # None
<1>1. klienci[i] \in Keys
  BY Types DEF IInv
<1>2. PICK c \in Clients : key[c] = klienci[i]
  BY DEF IInv, RegisteredOnce
<1> QED
  BY <1>1, <1>2, ChatQueuesAssumption DEF IInv, KeysApart

\* The two places where the server writes to a client.
LEMMA SendIdFacts ==
    ASSUME IInv, SendId
    PROVE  /\ last_id \in 1 .. last_id
           /\ klienci[last_id] \in Keys /\ queues[klienci[last_id]] # None
           /\ o2 \in Messages
           /\ Put(klienci[last_id])
<1>1. last_id \in Nat /\ last_id > 0
  BY Types DEF IInv, AnswersFirst, SendId
<1>2. o2 \in Messages
  <2>1. o2 = Connected(last_id - 1, 0) /\ last_id <= Cardinality(Clients)
    BY DEF IInv, AnswersFirst, SendId, TypeOK
  <2>2. Cardinality(Clients) \in Nat /\ MaxSaid \in Nat
    BY Types, ChatQueuesAssumption DEF IInv
  <2>3. last_id - 1 \in 0 .. Cardinality(Clients) - 1 /\ 0 \in 0 .. MaxSaid
    BY <1>1, <2>1, <2>2
  <2> QED
    BY <2>1, <2>3 DEF Messages, Connected
<1> QED
  BY <1>1, <1>2, RegisteredHaveQueues DEF SendId, Last, last_id

\* ... and, of the last message of the log, to the clients one after the other.
LEMMA SendNextFacts ==
    ASSUME IInv, SendNext
    PROVE  /\ next + 1 \in 1 .. last_id
           /\ klienci[next + 1] \in Keys /\ queues[klienci[next + 1]] # None
           /\ o2 \in Messages /\ o2 = log[Len(log)]
           /\ Len(log) > 0
           /\ Put(klienci[next + 1])
<1>1. last_id \in Nat /\ next \in 0 .. last_id /\ next < last_id
  BY Types DEF IInv, TypeOK, SendNext
<1>2. next + 1 \in 1 .. last_id
  BY <1>1
<1>3. Len(log) > 0 /\ o2 = log[Len(log)]
  BY DEF IInv, ComingInOrder, SendNext
<1>4. o2 \in Messages
  BY <1>3, Types DEF IInv
<1> QED
  BY <1>2, <1>3, <1>4, RegisteredHaveQueues DEF SendNext

\* A client that reads has a key and a queue.
LEMMA ReadersHaveQueues ==
    ASSUME IInv, NEW c \in Clients, pc[c] \in {"sendInit", "awaitId", "chatting"}
    PROVE  key[c] \in Keys /\ queues[key[c]] # None
BY Types DEF IInv, KeysApart

\* Queues and keys stay.
LEMMA KeysStay ==
    ASSUME IInv, Next
    PROVE  /\ \A c \in Clients : key[c] # None => key'[c] = key[c]
           /\ \A k \in Keys : queues[k] # None => queues'[k] # None
<1>1. CASE UNCHANGED <<key, queues>>
  BY <1>1
<1>2. CASE SendId
  <2>1. UNCHANGED key
    BY <1>2 DEF SendId, clientVars
  <2> QED
    BY <1>2, <2>1, SendIdFacts, PutFacts, NoneAssumption DEF IInv
<1>3. CASE SendNext
  <2>1. UNCHANGED key
    BY <1>3 DEF SendNext, clientVars
  <2> QED
    BY <1>3, <2>1, SendNextFacts, PutFacts, NoneAssumption DEF IInv
<1>4. ASSUME NEW c \in Clients, MakeQueue(c)
      PROVE  /\ \A d \in Clients : key[d] # None => key'[d] = key[d]
             /\ \A k \in Keys : queues[k] # None => queues'[k] # None
  <2>1. key[c] = None /\ key \in [Clients -> Keys \cup {None}]
    BY <1>4 DEF IInv, KeysApart, MakeQueue, TypeOK
  <2>2. queues \in [Keys -> Seq(Messages) \cup {None}]
    BY DEF IInv, TypeOK
  <2> QED
    BY <1>4, <2>1, <2>2 DEF MakeQueue
<1>5. ASSUME NEW c \in Clients, ReceiveId(c) \/ Hear(c)
      PROVE  /\ \A d \in Clients : key[d] # None => key'[d] = key[d]
             /\ \A k \in Keys : queues[k] # None => queues'[k] # None
  <2>1. /\ pc[c] \in {"awaitId", "chatting"}
        /\ queues[key[c]] # <<>>
        /\ queues' = [queues EXCEPT ![key[c]] = Tail(@)]
        /\ UNCHANGED key
    BY <1>5 DEF ReceiveId, Hear
  <2>2. key[c] \in Keys /\ queues[key[c]] # None
    BY <2>1, ReadersHaveQueues
  <2>3. /\ queues'[key[c]] \in Seq(Messages)
        /\ \A j \in Keys \ {key[c]} : queues'[j] = queues[j]
    BY <2>1, <2>2, ReceiveFacts DEF IInv
  <2> QED
    BY <2>1, <2>2, <2>3, NoneAssumption
<1>6. \/ UNCHANGED <<key, queues>> \/ SendId \/ SendNext
      \/ \E c \in Clients : MakeQueue(c) \/ ReceiveId(c) \/ Hear(c)
  BY DEF Next, Server, Client, TakeInit, NoInit, TakeMessage, NoMessage, EndBroadcast,
         SendInit, Say, Kill, clientVars
<1> QED
  BY <1>1, <1>2, <1>3, <1>4, <1>5, <1>6

-----------------------------------------------------------------------------
\* Each part of the invariant is kept.

\* A key that is free is nobody's, and no other step gives a client a key.
LEMMA KeysApartStep == ASSUME IInv, Next PROVE KeysApart'
<1> USE ChatQueuesAssumption
<1>1. ASSUME NEW c \in Clients, MakeQueue(c) PROVE KeysApart'
  <2>1. PICK k \in Keys :
           IF queues[k] = None
           THEN /\ key' = [key EXCEPT ![c] = k]
                /\ queues' = [queues EXCEPT ![k] = <<>>]
                /\ pc' = [pc EXCEPT ![c] = "sendInit"]
           ELSE /\ pc' = [pc EXCEPT ![c] = "gone"]
                /\ UNCHANGED <<key, queues>>
    BY <1>1 DEF MakeQueue
  <2>2. /\ key \in [Clients -> Keys \cup {None}] /\ DOMAIN pc = Clients
        /\ queues \in [Keys -> Seq(Messages) \cup {None}]
        /\ KeysApart
        /\ <<>> # None
    <3>1. <<>> \in Seq(Messages)
      OBVIOUS
    <3> QED
      BY <3>1, NoneAssumption DEF IInv, TypeOK
  <2>3. CASE queues[k] = None
    <3>0. /\ key' = [key EXCEPT ![c] = k]
          /\ queues' = [queues EXCEPT ![k] = <<>>]
          /\ pc' = [pc EXCEPT ![c] = "sendInit"]
      BY <2>1, <2>3
    <3>1. /\ \A d \in Clients : key'[d] = IF d = c THEN k ELSE key[d]
          /\ \A j \in Keys : queues'[j] = IF j = k THEN <<>> ELSE queues[j]
          /\ \A d \in Clients : pc'[d] = IF d = c THEN "sendInit" ELSE pc[d]
      BY <2>2, <3>0
    <3>2. \A d \in Clients : key[d] # None => key[d] \in Keys /\ key[d] # k
      BY <2>2, <2>3 DEF KeysApart
    <3>3. \A d \in Clients : key'[d] # None => queues'[key'[d]] # None
      BY <2>2, <3>1, <3>2 DEF KeysApart
    <3>4. \A d, e \in Clients : key'[d] # None /\ key'[d] = key'[e] => d = e
      BY <2>2, <3>1, <3>2 DEF KeysApart
    <3>5. \A d \in Clients :
              /\ pc'[d] \in {"sendInit", "awaitId", "chatting"} => key'[d] # None
              /\ pc'[d] = "off" => key'[d] = None
      BY <2>2, <3>1 DEF KeysApart
    <3> QED
      BY <3>3, <3>4, <3>5 DEF KeysApart
  <2>4. CASE queues[k] # None
    BY <2>1, <2>2, <2>4 DEF KeysApart
  <2> QED
    BY <2>3, <2>4
<1>2. ASSUME UNCHANGED key,
             \A c \in Clients : pc'[c] = "off" => pc[c] = "off",
             \A c \in Clients : pc'[c] \in {"sendInit", "awaitId", "chatting"} =>
                                pc[c] \in {"sendInit", "awaitId", "chatting"}
      PROVE  KeysApart'
  <2>1. \A c \in Clients : key[c] # None => key[c] \in Keys
    BY Types DEF IInv
  <2> QED
    BY <1>2, <2>1, KeysStay DEF IInv, KeysApart
<1>3. ASSUME NEW c \in Clients, SendInit(c) \/ ReceiveId(c) \/ Kill(c) PROVE KeysApart'
  <2>1. DOMAIN pc = Clients
    BY DEF IInv, TypeOK
  <2> QED
    BY <1>2, <1>3, <2>1 DEF SendInit, ReceiveId, Kill
<1>4. \/ UNCHANGED <<key, pc>>
      \/ \E c \in Clients : MakeQueue(c) \/ SendInit(c) \/ ReceiveId(c) \/ Kill(c)
  BY DEF Next, Server, Client, TakeInit, NoInit, SendId, TakeMessage, NoMessage, SendNext,
         EndBroadcast, Say, Hear, clientVars
<1> QED
  BY <1>1, <1>2, <1>3, <1>4

\* The server registers a key that asks for it, which no registered client has.
LEMMA RegisteredOnceStep == ASSUME IInv, Next PROVE RegisteredOnce'
<1>1. CASE TakeInit
  <2>1. PICK n \in DOMAIN serverQueue :
           /\ IsInit(serverQueue[n])
           /\ klienci' = Append(klienci, serverQueue[n].id)
    BY <1>1 DEF TakeInit, IsOldest, IsInit
  <2> DEFINE k == serverQueue[n].id
  <2>2. n \in 1 .. Len(serverQueue)
    BY LenProperties DEF IInv, TypeOK
  <2>3. k \in Keys
    BY <2>1, <2>2, Types DEF IInv, Inits
  <2>4. (\E c \in Clients : key[c] = k) /\ ~Registered(k)
    BY <2>1, <2>2 DEF IInv, AskedOnce
  <2>5. /\ last_id \in Nat /\ last_id' = last_id + 1
        /\ \A i \in 1 .. last_id : klienci'[i] = klienci[i]
        /\ klienci'[last_id + 1] = k
    BY <2>1, <2>3, Types, AppendProperties DEF IInv, TypeOK, last_id
  <2>6. UNCHANGED key
    BY <1>1 DEF TakeInit, clientVars
  <2> HIDE DEF k
  <2>7. ASSUME NEW i \in 1 .. last_id' PROVE \E c \in Clients : key'[c] = klienci'[i]
    <3>1. i \in 1 .. last_id \/ i = last_id + 1
      BY <2>5
    <3> QED
      BY <2>4, <2>5, <2>6, <3>1 DEF IInv, RegisteredOnce
  <2>8. ASSUME NEW i \in 1 .. last_id', NEW j \in 1 .. last_id', klienci'[i] = klienci'[j]
        PROVE  i = j
    <3>1. /\ i \in 1 .. last_id \/ i = last_id + 1
          /\ j \in 1 .. last_id \/ j = last_id + 1
      BY <2>5
    <3>2. \A m \in 1 .. last_id : klienci[m] # k
      BY <2>4 DEF Registered
    <3> QED
      BY <2>5, <2>8, <3>1, <3>2 DEF IInv, RegisteredOnce
  <2> QED
    BY <2>7, <2>8 DEF RegisteredOnce
<1>2. CASE UNCHANGED klienci
  <2>1. last_id' = last_id
    BY <1>2 DEF last_id
  <2>2. ASSUME NEW i \in 1 .. last_id PROVE \E c \in Clients : key'[c] = klienci[i]
    <3>1. PICK c \in Clients : key[c] = klienci[i]
      BY DEF IInv, RegisteredOnce
    <3>2. klienci[i] # None
      BY RegisteredHaveQueues, ChatQueuesAssumption
    <3> QED
      BY <3>1, <3>2, KeysStay
  <2> QED
    BY <1>2, <2>1, <2>2 DEF IInv, RegisteredOnce
<1>3. TakeInit \/ UNCHANGED klienci
  BY DEF Next, Server, Client, NoInit, SendId, TakeMessage, NoMessage, SendNext,
         EndBroadcast, MakeQueue, SendInit, ReceiveId, Say, Hear, Kill, serverVars
<1> QED
  BY <1>1, <1>2, <1>3


\* A client that chats has an id of the server's, and may say one thing more.
LEMMA SayFacts ==
    ASSUME IInv, NEW c \in Clients, Say(c)
    PROVE  /\ id[c] # None
           /\ said[c] \in Nat
           /\ Connected(id[c], said[c] + 1) \in Messages
<1>1. pc[c] = "chatting" /\ said[c] < MaxSaid
  BY DEF Say
<1>2. id[c] # None
  BY <1>1 DEF IInv, IdsOnce
<1>3. id[c] \in 0 .. Cardinality(Clients) - 1
  BY <1>2 DEF IInv, TypeOK
<1>4. said[c] \in Nat /\ said[c] + 1 \in 0 .. MaxSaid
  BY <1>1, ChatQueuesAssumption DEF IInv, TypeOK
<1> QED
  BY <1>2, <1>3, <1>4 DEF Connected, Messages

\* A client asks once, and is no longer asking when it is registered.
LEMMA AskedOnceStep == ASSUME IInv, Next PROVE AskedOnce'
<1>1. /\ Len(serverQueue) \in Nat
      /\ \A n \in 1 .. Len(serverQueue) : IsInit(serverQueue[n]) => serverQueue[n].id \in Keys
      /\ None \notin Keys
  BY Types, ChatQueuesAssumption DEF IInv, Inits
<1>2. AskedOnce /\ DOMAIN pc = Clients
  BY DEF IInv, TypeOK
<1>3. ASSUME NEW n \in 1 .. Len(serverQueue), IsInit(serverQueue[n])
      PROVE  \E c \in Clients : key'[c] = serverQueue[n].id
  BY <1>1, <1>2, <1>3, KeysStay DEF AskedOnce
<1>4. CASE TakeInit
  <2>1. PICK n \in DOMAIN serverQueue :
           /\ IsInit(serverQueue[n])
           /\ serverQueue' = RemoveAt(serverQueue, n)
           /\ klienci' = Append(klienci, serverQueue[n].id)
    BY <1>4 DEF TakeInit, IsOldest, IsInit
  <2>2. /\ n \in 1 .. Len(serverQueue)
        /\ \A i \in 1 .. Len(serverQueue') :
              /\ i \in Nat
              /\ Skip(i, n) \in 1 .. Len(serverQueue) \ {n}
              /\ serverQueue'[i] = serverQueue[Skip(i, n)]
    BY <2>1, Take DEF IInv
  <2>3. UNCHANGED <<key, pc>>
    BY <1>4 DEF TakeInit, clientVars
  <2>4. \A j \in 1 .. last_id' : Registered(klienci'[j]) \/ klienci'[j] = serverQueue[n].id
    <3>1. /\ last_id \in Nat /\ last_id' = last_id + 1
          /\ \A i \in 1 .. last_id : klienci'[i] = klienci[i]
          /\ klienci'[last_id + 1] = serverQueue[n].id
      BY <1>1, <2>1, <2>2, Types, AppendProperties DEF IInv, TypeOK, last_id
    <3>2. \A j \in 1 .. last_id' : j \in 1 .. last_id \/ j = last_id + 1
      BY <3>1
    <3> QED
      BY <3>1, <3>2 DEF Registered
  <2>5. ASSUME NEW i \in 1 .. Len(serverQueue'), IsInit(serverQueue'[i])
        PROVE  /\ \E c \in Clients : key'[c] = serverQueue'[i].id
               /\ \A j \in 1 .. last_id' : klienci'[j] # serverQueue'[i].id
    <3>1. serverQueue[Skip(i, n)].id # serverQueue[n].id
      BY <1>2, <2>1, <2>2, <2>5 DEF AskedOnce
    <3> QED
      BY <1>2, <1>3, <2>2, <2>4, <2>5, <3>1 DEF AskedOnce
  <2>6. ASSUME NEW i \in 1 .. Len(serverQueue'), NEW j \in 1 .. Len(serverQueue'),
               IsInit(serverQueue'[i]), IsInit(serverQueue'[j]),
               serverQueue'[i].id = serverQueue'[j].id
        PROVE  i = j
    <3>1. Skip(i, n) = Skip(j, n)
      BY <1>2, <2>2, <2>6 DEF AskedOnce
    <3> QED
      BY <2>2, <3>1, SkipFacts
  <2>7. ASSUME NEW c \in Clients, pc'[c] = "sendInit"
        PROVE  /\ \A j \in 1 .. last_id' : klienci'[j] # key'[c]
               /\ \A i \in 1 .. Len(serverQueue') :
                     IsInit(serverQueue'[i]) => serverQueue'[i].id # key'[c]
    <3>1. ~Registered(key[c]) /\ ~Asking(key[c])
      BY <1>2, <2>3, <2>7 DEF AskedOnce
    <3> QED
      BY <2>1, <2>2, <2>3, <2>4, <3>1 DEF Asking
  <2> QED
    BY <2>3, <2>5, <2>6, <2>7 DEF AskedOnce, Registered, Asking
<1>5. CASE TakeMessage
  <2>1. PICK n \in DOMAIN serverQueue : serverQueue' = RemoveAt(serverQueue, n)
    BY <1>5 DEF TakeMessage
  <2>2. /\ n \in 1 .. Len(serverQueue)
        /\ \A i \in 1 .. Len(serverQueue') :
              /\ i \in Nat
              /\ Skip(i, n) \in 1 .. Len(serverQueue) \ {n}
              /\ serverQueue'[i] = serverQueue[Skip(i, n)]
    BY <2>1, Take DEF IInv
  <2>3. UNCHANGED <<key, pc, klienci>>
    BY <1>5 DEF TakeMessage, clientVars
  <2>4. last_id' = last_id
    BY <2>3 DEF last_id
  <2>5. ASSUME NEW c \in Clients, pc[c] = "sendInit", NEW i \in 1 .. Len(serverQueue'),
               IsInit(serverQueue'[i])
        PROVE  serverQueue'[i].id # key[c]
    <3>1. ~Asking(key[c])
      BY <1>2, <2>5 DEF AskedOnce
    <3>2. Skip(i, n) \in 1 .. Len(serverQueue) /\ IsInit(serverQueue[Skip(i, n)])
      BY <2>2, <2>5
    <3> QED
      BY <2>2, <3>1, <3>2 DEF Asking
  <2>6. ASSUME NEW i \in 1 .. Len(serverQueue'), NEW j \in 1 .. Len(serverQueue'),
               IsInit(serverQueue'[i]), IsInit(serverQueue'[j]),
               serverQueue'[i].id = serverQueue'[j].id
        PROVE  i = j
    <3>1. Skip(i, n) = Skip(j, n)
      BY <1>2, <2>2, <2>6 DEF AskedOnce
    <3> QED
      BY <2>2, <3>1, SkipFacts
  <2>7. ASSUME NEW i \in 1 .. Len(serverQueue'), IsInit(serverQueue'[i])
        PROVE  /\ \E c \in Clients : key'[c] = serverQueue'[i].id
               /\ \A j \in 1 .. last_id' : klienci'[j] # serverQueue'[i].id
    BY <1>2, <1>3, <2>2, <2>3, <2>4, <2>7 DEF AskedOnce, Registered
  <2>8. ASSUME NEW c \in Clients, pc'[c] = "sendInit", NEW j \in 1 .. last_id'
        PROVE  klienci'[j] # key'[c]
    BY <1>2, <2>3, <2>4, <2>8 DEF AskedOnce, Registered
  <2> QED
    BY <2>3, <2>5, <2>6, <2>7, <2>8 DEF AskedOnce, Registered, Asking
<1>6. ASSUME NEW c \in Clients, SendInit(c) PROVE AskedOnce'
  <2> DEFINE m == InitMessage(key[c])
  <2>1. /\ pc[c] = "sendInit" /\ PutToServer(m)
        /\ pc' = [pc EXCEPT ![c] = "awaitId"]
        /\ UNCHANGED <<key, klienci>>
    BY <1>6 DEF SendInit, serverVars
  <2>2. key[c] \in Keys /\ ~Registered(key[c]) /\ ~Asking(key[c])
    BY <1>2, <2>1, ReadersHaveQueues DEF AskedOnce
  <2>3. m \in Messages \cup Inits /\ m.id = key[c]
    BY <2>2 DEF InitMessage, Inits
  <2> HIDE DEF m
  <2>4. /\ Len(serverQueue') = Len(serverQueue) + 1
        /\ \A i \in 1 .. Len(serverQueue) : serverQueue'[i] = serverQueue[i]
        /\ serverQueue'[Len(serverQueue) + 1] = m
    BY <2>1, <2>3, PutToServerFacts DEF IInv
  <2>5. last_id' = last_id
    BY <2>1 DEF last_id
  <2>6. \A i \in 1 .. Len(serverQueue') : i \in 1 .. Len(serverQueue) \/ i = Len(serverQueue) + 1
    BY <1>1, <2>4
  <2>7. \A i \in 1 .. Len(serverQueue) :
            IsInit(serverQueue[i]) => serverQueue[i].id # key[c]
    BY <2>2 DEF Asking
  <2>8. ASSUME NEW i \in 1 .. Len(serverQueue'), IsInit(serverQueue'[i])
        PROVE  /\ \E d \in Clients : key'[d] = serverQueue'[i].id
               /\ \A j \in 1 .. last_id' : klienci'[j] # serverQueue'[i].id
    BY <1>2, <2>1, <2>2, <2>3, <2>4, <2>5, <2>6, <2>8 DEF AskedOnce, Registered
  <2>9. ASSUME NEW i \in 1 .. Len(serverQueue'), NEW j \in 1 .. Len(serverQueue'),
               IsInit(serverQueue'[i]), IsInit(serverQueue'[j]),
               serverQueue'[i].id = serverQueue'[j].id
        PROVE  i = j
    BY <1>2, <2>3, <2>4, <2>6, <2>7, <2>9 DEF AskedOnce
  <2>10. ASSUME NEW d \in Clients, pc'[d] = "sendInit"
         PROVE  /\ \A j \in 1 .. last_id' : klienci'[j] # key'[d]
                /\ \A i \in 1 .. Len(serverQueue') :
                      IsInit(serverQueue'[i]) => serverQueue'[i].id # key'[d]
    <3>1. d # c /\ pc[d] = "sendInit"
      BY <1>2, <2>1, <2>10
    <3>2. ~Registered(key[d]) /\ ~Asking(key[d]) /\ key[d] # key[c]
      BY <1>2, <1>1, <2>2, <3>1 DEF AskedOnce, IInv, KeysApart
    <3> QED
      BY <2>1, <2>3, <2>4, <2>5, <2>6, <3>2 DEF Registered, Asking
  <2> QED
    BY <2>1, <2>8, <2>9, <2>10 DEF AskedOnce, Registered, Asking
<1>7. ASSUME NEW c \in Clients, Say(c) PROVE AskedOnce'
  <2> DEFINE m == Connected(id[c], said[c] + 1)
  <2>1. PutToServer(m) /\ UNCHANGED <<key, pc, klienci>>
    BY <1>7 DEF Say, serverVars
  <2>2. m \in Messages /\ ~IsInit(m)
    BY <1>7, SayFacts DEF Connected, IsInit
  <2> HIDE DEF m
  <2>3. /\ Len(serverQueue') = Len(serverQueue) + 1
        /\ \A i \in 1 .. Len(serverQueue) : serverQueue'[i] = serverQueue[i]
        /\ serverQueue'[Len(serverQueue) + 1] = m
    BY <2>1, <2>2, PutToServerFacts DEF IInv
  <2>4. last_id' = last_id
    BY <2>1 DEF last_id
  <2>5. \A i \in 1 .. Len(serverQueue') :
            IsInit(serverQueue'[i]) => i \in 1 .. Len(serverQueue)
    BY <1>1, <2>2, <2>3
  <2> QED
    BY <1>2, <2>1, <2>3, <2>4, <2>5 DEF AskedOnce, Registered, Asking
<1>8. ASSUME NEW c \in Clients, MakeQueue(c) PROVE AskedOnce'
  <2>1. UNCHANGED <<serverQueue, klienci>>
    BY <1>8 DEF MakeQueue, serverVars
  <2>2. ASSUME NEW d \in Clients, pc'[d] = "sendInit"
        PROVE  /\ \A j \in 1 .. last_id : klienci[j] # key'[d]
               /\ \A i \in 1 .. Len(serverQueue) :
                     IsInit(serverQueue[i]) => serverQueue[i].id # key'[d]
    <3>1. CASE d = c
      <4>1. queues[key'[c]] = None /\ key'[c] \in Keys
        BY <1>2, <1>8, <2>2, <3>1 DEF MakeQueue, IInv, TypeOK
      <4>2. \A e \in Clients : key[e] # key'[c]
        BY <1>1, <4>1 DEF IInv, KeysApart
      <4> QED
        BY <1>2, <3>1, <4>2 DEF AskedOnce, IInv, RegisteredOnce
    <3>2. CASE d # c
      <4>1. pc[d] = "sendInit" /\ key'[d] = key[d]
        BY <1>2, <1>8, <2>2, <3>2 DEF MakeQueue, IInv, TypeOK
      <4> QED
        BY <1>2, <4>1 DEF AskedOnce, Registered, Asking
    <3> QED
      BY <3>1, <3>2
  <2> QED
    BY <1>2, <1>3, <2>1, <2>2 DEF AskedOnce, Registered, Asking, last_id
<1>9. ASSUME UNCHANGED <<serverQueue, klienci, key>>,
             \A c \in Clients : pc'[c] = "sendInit" => pc[c] = "sendInit"
      PROVE  AskedOnce'
  BY <1>2, <1>9 DEF AskedOnce, Registered, Asking, last_id
<1>10. ASSUME NEW c \in Clients, ReceiveId(c) \/ Kill(c) PROVE AskedOnce'
  BY <1>2, <1>9, <1>10 DEF ReceiveId, Kill, serverVars
<1>11. \/ UNCHANGED <<serverQueue, klienci, key, pc>> \/ TakeInit \/ TakeMessage
       \/ \E c \in Clients : \/ MakeQueue(c) \/ SendInit(c) \/ ReceiveId(c) \/ Say(c)
                             \/ Kill(c)
  BY DEF Next, Server, Client, NoInit, SendId, NoMessage, SendNext, EndBroadcast, Hear,
         clientVars, serverVars
<1> QED
  BY <1>4, <1>5, <1>6, <1>7, <1>8, <1>9, <1>10, <1>11


\* A client that has an id keeps its key, and the server its registration.
LEMMA OldIdsMatch ==
    ASSUME IInv, Next, NEW c \in Clients, id[c] # None
    PROVE  /\ id[c] < last_id' /\ klienci'[id[c] + 1] = key'[c]
           /\ klienci[id[c] + 1] = key[c] /\ id[c] + 1 \in 1 .. last_id
           /\ \A d \in Clients \ {c} : id[d] # id[c]
<1>1. /\ id[c] \in Nat /\ last_id \in Nat
      /\ id[c] < last_id /\ klienci[id[c] + 1] = key[c]
      /\ \A d \in Clients \ {c} : id[d] # id[c]
  <2>1. id[c] \in 0 .. Cardinality(Clients) - 1
    BY DEF IInv, TypeOK
  <2>2. last_id \in Nat /\ Cardinality(Clients) \in Nat
    BY Types DEF IInv
  <2> QED
    BY <2>1, <2>2 DEF IInv, IdsMatch
<1>2. id[c] + 1 \in 1 .. last_id
  BY <1>1
<1>3. key'[c] = key[c]
  <2>1. key[c] # None
    BY <1>1, <1>2, RegisteredHaveQueues, ChatQueuesAssumption
  <2> QED
    BY <2>1, KeysStay
<1>4. /\ last_id' \in Nat /\ last_id' >= last_id
      /\ \A i \in 1 .. last_id : klienci'[i] = klienci[i]
  <2>1. CASE UNCHANGED klienci
    BY <1>1, <2>1 DEF last_id
  <2>2. CASE TakeInit
    <3>1. PICK n \in DOMAIN serverQueue :
             /\ IsInit(serverQueue[n])
             /\ klienci' = Append(klienci, serverQueue[n].id)
      BY <2>2 DEF TakeInit, IsOldest, IsInit
    <3>2. n \in 1 .. Len(serverQueue)
      BY LenProperties DEF IInv, TypeOK
    <3>3. serverQueue[n].id \in Keys
      BY <3>1, <3>2, Types DEF IInv, Inits
    <3>4. /\ last_id' = last_id + 1
          /\ \A i \in 1 .. last_id : klienci'[i] = klienci[i]
      BY <3>1, <3>3, AppendProperties DEF IInv, TypeOK, last_id
    <3> QED
      BY <1>1, <3>4
  <2>3. TakeInit \/ UNCHANGED klienci
    BY DEF Next, Server, Client, NoInit, SendId, TakeMessage, NoMessage, SendNext,
           EndBroadcast, MakeQueue, SendInit, ReceiveId, Say, Hear, Kill, serverVars
  <2> QED
    BY <2>1, <2>2, <2>3
<1>5. id[c] < last_id'
  BY <1>1, <1>4
<1> QED
  BY <1>1, <1>2, <1>3, <1>4, <1>5

\* The answer comes to an empty queue, since the broadcast writes to registered
\* clients only and the server answers before it broadcasts again.
LEMMA AnswersFirstStep == ASSUME IInv, Next PROVE AnswersFirst'
<1>1. /\ AnswersFirst
      /\ DOMAIN pc = Clients
      /\ last_id \in Nat
      /\ \A i \in 1 .. last_id : klienci[i] \in Keys /\ queues[klienci[i]] # None
      /\ \A c \in Clients : key[c] # None => key[c] \in Keys
  BY RegisteredHaveQueues, Types DEF IInv, TypeOK
<1>2. CASE TakeInit
  <2>1. PICK n \in DOMAIN serverQueue :
           /\ IsInit(serverQueue[n])
           /\ klienci' = Append(klienci, serverQueue[n].id)
    BY <1>2 DEF TakeInit, IsOldest, IsInit
  <2> DEFINE k == serverQueue[n].id
  <2>2. n \in 1 .. Len(serverQueue)
    BY LenProperties DEF IInv, TypeOK
  <2>3. k \in Keys /\ ~Registered(k) /\ \E c \in Clients : key[c] = k
    BY <2>1, <2>2, Types DEF IInv, Inits, AskedOnce
  <2>4. queues[k] = <<>>
    BY <1>1, <2>3, ChatQueuesAssumption DEF IInv, KeysApart, AnswersFirst
  <2>5. /\ last_id' = last_id + 1
        /\ \A i \in 1 .. last_id : klienci'[i] = klienci[i]
        /\ klienci'[last_id + 1] = k
    BY <2>1, <2>3, AppendProperties DEF IInv, TypeOK, last_id
  <2>6. /\ serverPc = "pollInit" /\ serverPc' = "sendId"
        /\ o2' = Connected(last_id, 0)
        /\ UNCHANGED <<queues, key, pc, id>>
    BY <1>2 DEF TakeInit, clientVars
  <2> HIDE DEF k
  <2>7. \A j \in Keys : queues'[j] # None /\ ~Registered(j)' => queues'[j] = <<>>
    <3>1. \A j \in Keys : Registered(j) => \E i \in 1 .. last_id' : klienci'[i] = j
      BY <1>1, <2>5 DEF Registered
    <3> QED
      BY <1>1, <2>6, <3>1 DEF AnswersFirst, Registered
  <2>8. /\ last_id' > 0
        /\ o2' = Connected(last_id' - 1, 0)
        /\ queues'[klienci'[last_id']] = <<>>
        /\ \A c \in Clients : id'[c] # None => key'[c] # klienci'[last_id']
    <3>1. last_id' - 1 = last_id
      BY <1>1, <2>5
    <3>2. \A c \in Clients : id[c] # None => key[c] # k
      BY <2>3, OldIdsMatch DEF Registered
    <3> QED
      BY <1>1, <2>4, <2>5, <2>6, <3>1, <3>2
  <2>9. ASSUME NEW c \in Clients, pc[c] = "awaitId", NEW i \in 1 .. last_id',
               klienci'[i] = key[c], i # last_id'
        PROVE  queues[key[c]] # <<>> /\ Head(queues[key[c]]).id = i - 1
    <3>1. i \in 1 .. last_id
      BY <1>1, <2>5, <2>9
    <3> QED
      BY <1>1, <2>5, <2>6, <2>9, <3>1 DEF AnswersFirst, Unanswered
  <2> QED
    BY <2>6, <2>7, <2>8, <2>9 DEF AnswersFirst, Unanswered
<1>3. CASE SendId
  <2> DEFINE k == klienci[last_id]
  <2>1. /\ k \in Keys /\ queues[k] # None /\ o2 \in Messages /\ Put(k)
        /\ last_id \in 1 .. last_id
    BY <1>3, SendIdFacts
  <2>2. /\ serverPc = "sendId" /\ serverPc' = "pollMessage"
        /\ UNCHANGED <<klienci, key, pc>>
        /\ queues[k] = <<>> /\ o2 = Connected(last_id - 1, 0)
    BY <1>1, <1>3 DEF SendId, AnswersFirst, clientVars
  <2>3. last_id' = last_id
    BY <2>2 DEF last_id
  <2>4. /\ queues'[k] = Append(<<>>, o2)
        /\ \A j \in Keys \ {k} : queues'[j] = queues[j]
    BY <2>1, <2>2, PutFacts DEF IInv
  <2>5. queues'[k] # <<>> /\ Head(queues'[k]).id = last_id - 1
    <3>1. Append(<<>>, o2) # <<>> /\ Head(Append(<<>>, o2)) = o2
      BY <2>1
    <3> QED
      BY <2>2, <2>4, <3>1 DEF Connected
  <2>6. Registered(k)
    BY <2>1 DEF Registered
  <2> HIDE DEF k
  <2>7. \A j \in Keys : queues'[j] # None /\ ~Registered(j)' => queues'[j] = <<>>
    BY <1>1, <2>2, <2>3, <2>4, <2>6 DEF AnswersFirst, Registered
  <2>8. ASSUME NEW c \in Clients, pc[c] = "awaitId", NEW i \in 1 .. last_id,
               klienci[i] = key[c]
        PROVE  queues'[key[c]] # <<>> /\ Head(queues'[key[c]]).id = i - 1
    <3>1. CASE i = last_id
      BY <2>5, <2>8, <3>1 DEF k
    <3>2. CASE i # last_id
      <4>1. key[c] \in Keys \ {k}
        BY <1>1, <2>1, <2>8, <3>2 DEF IInv, RegisteredOnce, k
      <4> QED
        BY <1>1, <2>4, <2>8, <3>2, <4>1 DEF AnswersFirst, Unanswered
    <3> QED
      BY <3>1, <3>2
  <2> QED
    BY <2>2, <2>3, <2>7, <2>8 DEF AnswersFirst, Unanswered
<1>4. CASE SendNext
  <2> DEFINE k == klienci[next + 1]
  <2>1. /\ k \in Keys /\ queues[k] # None /\ o2 \in Messages /\ Put(k)
        /\ next + 1 \in 1 .. last_id
    BY <1>4, SendNextFacts
  <2>2. /\ serverPc = "broadcast" /\ serverPc' = "broadcast"
        /\ UNCHANGED <<klienci, key, pc>>
    BY <1>4 DEF SendNext, clientVars
  <2>3. last_id' = last_id
    BY <2>2 DEF last_id
  <2>4. /\ queues[k] \in Seq(Messages)
        /\ \/ queues'[k] = queues[k] /\ queues[k] # <<>>
           \/ queues'[k] = Append(queues[k], o2)
        /\ \A j \in Keys \ {k} : queues'[j] = queues[j]
    BY <2>1, PutFacts DEF IInv
  <2>5. queues[k] # <<>> => queues'[k] # <<>> /\ Head(queues'[k]) = Head(queues[k])
    BY <2>1, <2>4
  <2>6. Registered(k)
    BY <2>1 DEF Registered
  <2> HIDE DEF k
  <2>7. \A j \in Keys : queues'[j] # None /\ ~Registered(j)' => queues'[j] = <<>>
    BY <1>1, <2>2, <2>3, <2>4, <2>6 DEF AnswersFirst, Registered
  <2>8. ASSUME NEW c \in Clients, pc[c] = "awaitId", NEW i \in 1 .. last_id,
               klienci[i] = key[c]
        PROVE  queues'[key[c]] # <<>> /\ Head(queues'[key[c]]).id = i - 1
    <3>1. queues[key[c]] # <<>> /\ Head(queues[key[c]]).id = i - 1 /\ key[c] \in Keys
      BY <1>1, <2>2, <2>8 DEF AnswersFirst, Unanswered
    <3> QED
      BY <2>4, <2>5, <3>1
  <2> QED
    BY <2>2, <2>3, <2>7, <2>8 DEF AnswersFirst, Unanswered
<1>5. ASSUME NEW c \in Clients, MakeQueue(c) PROVE AnswersFirst'
  <2>1. UNCHANGED <<klienci, serverPc, o2>>
    BY <1>5 DEF MakeQueue, serverVars
  <2>2. last_id' = last_id
    BY <2>1 DEF last_id
  <2>3. \A k \in Keys : \/ queues'[k] = queues[k]
                        \/ queues[k] = None /\ queues'[k] = <<>>
    <3>1. queues \in [Keys -> Seq(Messages) \cup {None}]
      BY DEF IInv, TypeOK
    <3> QED
      BY <1>5, <3>1 DEF MakeQueue
  <2>4. \A i \in 1 .. last_id : queues'[klienci[i]] = queues[klienci[i]]
    BY <1>1, <2>3
  <2>5. ASSUME NEW d \in Clients, pc'[d] = "awaitId"
        PROVE  pc[d] = "awaitId" /\ key'[d] = key[d] /\ queues'[key[d]] = queues[key[d]]
    <3>1. pc[d] = "awaitId" /\ key'[d] = key[d]
      BY <1>1, <1>5, <2>5 DEF MakeQueue, IInv, TypeOK
    <3> QED
      BY <1>1, <2>3, <3>1, ReadersHaveQueues
  <2>6. \A k \in Keys : queues'[k] # None /\ ~Registered(k)' => queues'[k] = <<>>
    BY <1>1, <2>1, <2>2, <2>3 DEF AnswersFirst, Registered
  <2>7. serverPc' = "sendId" =>
            /\ last_id' > 0
            /\ o2' = Connected(last_id' - 1, 0)
            /\ queues'[klienci'[last_id']] = <<>>
            /\ \A d \in Clients : id'[d] # None => key'[d] # klienci'[last_id']
    <3>1. \A d \in Clients : id[d] # None => key'[d] = key[d]
      BY OldIdsMatch, KeysStay, RegisteredHaveQueues, ChatQueuesAssumption
    <3>2. UNCHANGED id
      BY <1>5 DEF MakeQueue
    <3> QED
      BY <1>1, <2>1, <2>2, <2>4, <3>1, <3>2 DEF AnswersFirst
  <2>8. ASSUME NEW d \in Clients, pc'[d] = "awaitId", NEW i \in 1 .. last_id',
               klienci'[i] = key'[d], ~(serverPc' = "sendId" /\ i = last_id')
        PROVE  queues'[key'[d]] # <<>> /\ Head(queues'[key'[d]]).id = i - 1
    BY <1>1, <2>1, <2>2, <2>5, <2>8 DEF AnswersFirst, Unanswered
  <2> QED
    BY <2>6, <2>7, <2>8 DEF AnswersFirst, Unanswered
<1>6. ASSUME NEW c \in Clients, ReceiveId(c) \/ Hear(c) PROVE AnswersFirst'
  <2> DEFINE k == key[c]
  <2>1. /\ pc[c] \in {"awaitId", "chatting"} /\ pc' = [pc EXCEPT ![c] = "chatting"]
        /\ queues[k] # <<>>
        /\ queues' = [queues EXCEPT ![k] = Tail(@)]
        /\ UNCHANGED <<klienci, serverPc, o2, key>>
    BY <1>1, <1>6 DEF ReceiveId, Hear, serverVars, IInv, TypeOK
  <2>2. k \in Keys /\ queues[k] # None
    BY <2>1, ReadersHaveQueues
  <2>3. \A j \in Keys \ {k} : queues'[j] = queues[j]
    BY <2>1, <2>2, ReceiveFacts DEF IInv
  <2>4. Registered(k)
    BY <1>1, <2>1, <2>2 DEF AnswersFirst
  <2>5. last_id' = last_id
    BY <2>1 DEF last_id
  <2>6. \A d \in Clients : pc'[d] = "awaitId" => pc[d] = "awaitId" /\ key[d] # k /\ key[d] # None
    BY <1>1, <2>1, <2>2, ChatQueuesAssumption DEF IInv, KeysApart
  <2> HIDE DEF k
  <2>7. \A j \in Keys : queues'[j] # None /\ ~Registered(j)' => queues'[j] = <<>>
    BY <1>1, <2>1, <2>3, <2>4, <2>5 DEF AnswersFirst, Registered
  <2>8. serverPc' = "sendId" =>
            /\ last_id' > 0
            /\ o2' = Connected(last_id' - 1, 0)
            /\ queues'[klienci'[last_id']] = <<>>
            /\ \A d \in Clients : id'[d] # None => key'[d] # klienci'[last_id']
    <3>1. ASSUME serverPc = "sendId"
          PROVE  /\ last_id > 0
                 /\ o2 = Connected(last_id - 1, 0)
                 /\ queues'[klienci[last_id]] = <<>>
                 /\ \A d \in Clients : id'[d] # None => key[d] # klienci[last_id]
      <4>1. /\ last_id > 0 /\ o2 = Connected(last_id - 1, 0)
            /\ queues[klienci[last_id]] = <<>>
            /\ \A d \in Clients : id[d] # None => key[d] # klienci[last_id]
        BY <1>1, <3>1 DEF AnswersFirst
      <4>2. klienci[last_id] \in Keys \ {k}
        BY <1>1, <2>1, <4>1
      <4>3. \A d \in Clients \ {c} : id'[d] = id[d]
        BY <1>6 DEF ReceiveId, Hear, IInv, TypeOK
      <4> QED
        BY <2>3, <4>1, <4>2, <4>3 DEF k
    <3> QED
      BY <2>1, <2>5, <3>1
  <2>9. ASSUME NEW d \in Clients, pc'[d] = "awaitId", NEW i \in 1 .. last_id',
               klienci'[i] = key'[d], ~(serverPc' = "sendId" /\ i = last_id')
        PROVE  queues'[key'[d]] # <<>> /\ Head(queues'[key'[d]]).id = i - 1
    BY <1>1, <2>1, <2>3, <2>5, <2>6, <2>9 DEF AnswersFirst, Unanswered
  <2> QED
    BY <2>7, <2>8, <2>9 DEF AnswersFirst, Unanswered
<1>7. ASSUME NEW c \in Clients, SendInit(c) PROVE AnswersFirst'
  <2>1. /\ pc[c] = "sendInit" /\ pc' = [pc EXCEPT ![c] = "awaitId"]
        /\ UNCHANGED <<klienci, serverPc, o2, key, queues, id>>
    BY <1>7 DEF SendInit, serverVars
  <2>2. ~Registered(key[c])
    BY <2>1 DEF IInv, AskedOnce
  <2>3. \A d \in Clients : pc'[d] = "awaitId" => d = c \/ pc[d] = "awaitId"
    BY <1>1, <2>1
  <2> QED
    BY <1>1, <2>1, <2>2, <2>3 DEF AnswersFirst, Registered, Unanswered, last_id
<1>8. ASSUME UNCHANGED <<klienci, queues, key>>,
             \A c \in Clients : pc'[c] = "awaitId" => pc[c] = "awaitId",
             serverPc # "sendId", serverPc' # "sendId"
      PROVE  AnswersFirst'
  BY <1>1, <1>8 DEF AnswersFirst, Registered, Unanswered, last_id
<1>9. ASSUME UNCHANGED <<klienci, queues, key, id, o2, serverPc>>,
             \A c \in Clients : pc'[c] = "awaitId" => pc[c] = "awaitId"
      PROVE  AnswersFirst'
  BY <1>1, <1>9 DEF AnswersFirst, Registered, Unanswered, last_id
<1>10. CASE NoInit \/ TakeMessage \/ NoMessage \/ EndBroadcast
  BY <1>8, <1>10 DEF NoInit, TakeMessage, NoMessage, EndBroadcast, clientVars
<1>11. ASSUME NEW c \in Clients, Say(c) \/ Kill(c) PROVE AnswersFirst'
  BY <1>1, <1>9, <1>11 DEF Say, Kill, serverVars
<1> QED
  BY <1>2, <1>3, <1>4, <1>5, <1>6, <1>7, <1>10, <1>11 DEF Next, Server, Client


\* The id a client reads is the one it is registered under.
LEMMA ReceiveIdFacts ==
    ASSUME IInv, NEW c \in Clients, ReceiveId(c)
    PROVE  \E i \in 1 .. last_id :
               /\ klienci[i] = key[c]
               /\ id' = [id EXCEPT ![c] = i - 1]
<1>1. /\ pc[c] = "awaitId" /\ queues[key[c]] # <<>>
      /\ id' = [id EXCEPT ![c] = Head(queues[key[c]]).id]
  BY DEF ReceiveId
<1>2. key[c] \in Keys /\ queues[key[c]] # None
  BY <1>1, ReadersHaveQueues
<1>3. PICK i \in 1 .. last_id : klienci[i] = key[c]
  BY <1>1, <1>2 DEF IInv, AnswersFirst, Registered
<1>4. ~Unanswered(i)
  BY <1>1, <1>3 DEF IInv, AnswersFirst, Unanswered
<1>5. Head(queues[key[c]]).id = i - 1
  BY <1>1, <1>3, <1>4 DEF IInv, AnswersFirst
<1> QED
  BY <1>1, <1>3, <1>5

\* klienci[] has room for one more because each of its entries is another client's.
LEMMA TypeStep == ASSUME IInv, Next, RegisteredOnce' PROVE TypeOK'
<1> USE ChatQueuesAssumption
<1>1. TypeOK /\ Cardinality(Clients) \in Nat /\ last_id \in Nat
  BY Types DEF IInv
<1>2. CASE TakeInit
  <2>1. PICK n \in DOMAIN serverQueue :
           /\ IsInit(serverQueue[n])
           /\ serverQueue' = RemoveAt(serverQueue, n)
           /\ klienci' = Append(klienci, serverQueue[n].id)
    BY <1>2 DEF TakeInit, IsOldest, IsInit
  <2>2. /\ n \in 1 .. Len(serverQueue)
        /\ serverQueue' \in Seq(Messages \cup Inits)
        /\ Len(serverQueue') = Len(serverQueue) - 1
    BY <1>1, <2>1, Take
  <2>3. serverQueue[n].id \in Keys
    BY <1>1, <2>1, <2>2, Types DEF Inits
  <2>4. klienci' \in Seq(Keys) /\ last_id' = last_id + 1
    BY <2>1, <2>3, AppendProperties DEF IInv, TypeOK, last_id
  <2>5. /\ o2' = Connected(last_id, 0) /\ serverPc' = "sendId"
        /\ UNCHANGED <<queues, next, log, key, id, said, pc, heard>>
    BY <1>2 DEF TakeInit, clientVars
  <2>6. last_id' <= Cardinality(Clients)
    <3>1. key' \in [Clients -> Keys \cup {None}]
      BY <1>1, <2>5 DEF TypeOK
    <3>2. /\ \A i \in 1 .. Len(klienci') : \E c \in Clients : key'[c] = klienci'[i]
          /\ \A i, j \in 1 .. Len(klienci') : klienci'[i] = klienci'[j] => i = j
      BY DEF RegisteredOnce, last_id
    <3> QED
      BY <2>4, <3>1, <3>2, OneKeyEach DEF last_id
  <2>7. o2' \in Messages
    BY <1>1, <2>4, <2>5, <2>6 DEF Connected, Messages
  <2>8. Len(serverQueue') <= ServerRoom /\ next' \in 0 .. last_id'
    <3>1. Len(serverQueue) \in Nat /\ Len(serverQueue) <= ServerRoom /\ next \in 0 .. last_id
      BY <1>1, Types DEF TypeOK
    <3> QED
      BY <1>1, <2>2, <2>4, <2>5, <3>1
  <2> QED
    BY <1>1, <2>2, <2>4, <2>5, <2>6, <2>7, <2>8 DEF TypeOK
<1>3. CASE TakeMessage
  <2>1. PICK n \in DOMAIN serverQueue :
           /\ serverQueue[n].typ = "CONNECTED"
           /\ serverQueue' = RemoveAt(serverQueue, n)
           /\ o2' = serverQueue[n]
           /\ log' = Append(log, serverQueue[n])
    BY <1>3 DEF TakeMessage, IsOldest
  <2>2. /\ n \in 1 .. Len(serverQueue)
        /\ serverQueue' \in Seq(Messages \cup Inits)
        /\ Len(serverQueue') = Len(serverQueue) - 1
    BY <1>1, <2>1, Take
  <2>3. serverQueue[n] \in Messages
    BY <1>1, <2>1, <2>2, Types DEF IsInit
  <2>4. log' \in Seq(Messages)
    BY <1>1, <2>1, <2>3 DEF TypeOK
  <2>5. /\ next' = 0 /\ serverPc' = "broadcast"
        /\ UNCHANGED <<queues, klienci, key, id, said, pc, heard>>
    BY <1>3 DEF TakeMessage, clientVars
  <2>6. Len(serverQueue') <= ServerRoom
    <3>1. Len(serverQueue) \in Nat /\ Len(serverQueue) <= ServerRoom
      BY <1>1, Types DEF TypeOK
    <3> QED
      BY <2>2, <3>1
  <2>7. last_id' = last_id /\ next' \in 0 .. last_id'
    BY <1>1, <2>5 DEF last_id
  <2> QED
    BY <1>1, <2>1, <2>2, <2>3, <2>4, <2>5, <2>6, <2>7 DEF TypeOK
<1>4. ASSUME queues' \in [Keys -> Seq(Messages) \cup {None}],
             \A k \in Keys : queues'[k] # None => Len(queues'[k]) <= ClientRoom,
             UNCHANGED <<serverQueue, klienci, o2, key, id, said, pc, heard, log>>,
             next' \in 0 .. last_id,
             serverPc' \in {"pollInit", "sendId", "pollMessage", "broadcast"}
      PROVE  TypeOK'
  BY <1>1, <1>4 DEF TypeOK, last_id
<1>5. CASE SendId
  <2>1. /\ queues' \in [Keys -> Seq(Messages) \cup {None}]
        /\ \A k \in Keys : queues'[k] # None => Len(queues'[k]) <= ClientRoom
    BY <1>1, <1>5, SendIdFacts, PutFacts DEF TypeOK
  <2> QED
    BY <1>1, <1>4, <1>5, <2>1 DEF SendId, clientVars, TypeOK
<1>6. CASE SendNext
  <2>1. /\ queues' \in [Keys -> Seq(Messages) \cup {None}]
        /\ \A k \in Keys : queues'[k] # None => Len(queues'[k]) <= ClientRoom
    BY <1>1, <1>6, SendNextFacts, PutFacts DEF TypeOK
  <2>2. next' \in 0 .. last_id
    BY <1>1, <1>6 DEF SendNext, TypeOK
  <2> QED
    BY <1>1, <1>4, <1>6, <2>1, <2>2 DEF SendNext, clientVars, TypeOK
<1>7. CASE NoInit \/ NoMessage \/ EndBroadcast
  BY <1>1, <1>4, <1>7 DEF NoInit, NoMessage, EndBroadcast, clientVars, TypeOK
<1>8. ASSUME NEW c \in Clients, MakeQueue(c) PROVE TypeOK'
  <2>1. PICK k \in Keys :
           IF queues[k] = None
           THEN /\ key' = [key EXCEPT ![c] = k]
                /\ queues' = [queues EXCEPT ![k] = <<>>]
                /\ pc' = [pc EXCEPT ![c] = "sendInit"]
           ELSE /\ pc' = [pc EXCEPT ![c] = "gone"]
                /\ UNCHANGED <<key, queues>>
    BY <1>8 DEF MakeQueue
  <2>2. UNCHANGED <<serverQueue, klienci, o2, next, serverPc, id, said, heard, log>>
    BY <1>8 DEF MakeQueue, serverVars
  <2>3. /\ pc' \in [Clients -> {"off", "sendInit", "awaitId", "chatting", "gone"}]
        /\ key' \in [Clients -> Keys \cup {None}]
    <3>1. /\ pc \in [Clients -> {"off", "sendInit", "awaitId", "chatting", "gone"}]
          /\ key \in [Clients -> Keys \cup {None}]
      BY <1>1 DEF TypeOK
    <3>2. /\ \/ pc' = [pc EXCEPT ![c] = "sendInit"]
             \/ pc' = [pc EXCEPT ![c] = "gone"]
          /\ key' = [key EXCEPT ![c] = k] \/ key' = key
      BY <2>1
    <3> QED
      BY <3>1, <3>2
  <2>4. /\ queues' \in [Keys -> Seq(Messages) \cup {None}]
        /\ \A j \in Keys : queues'[j] # None => Len(queues'[j]) <= ClientRoom
    <3>1. <<>> \in Seq(Messages) /\ Len(<<>>) <= ClientRoom
      BY EmptySeq
    <3>2. queues' = queues \/ queues' = [queues EXCEPT ![k] = <<>>]
      BY <2>1
    <3>3. /\ queues \in [Keys -> Seq(Messages) \cup {None}]
          /\ \A j \in Keys : queues[j] # None => Len(queues[j]) <= ClientRoom
      BY <1>1 DEF TypeOK
    <3> QED
      BY <3>1, <3>2, <3>3
  <2> QED
    BY <1>1, <2>2, <2>3, <2>4 DEF TypeOK, last_id
<1>9. ASSUME NEW c \in Clients, SendInit(c) PROVE TypeOK'
  <2>1. key[c] \in Keys
    BY <1>9, ReadersHaveQueues DEF SendInit
  <2>2. InitMessage(key[c]) \in Messages \cup Inits
    BY <2>1 DEF InitMessage, Inits
  <2>3. serverQueue' \in Seq(Messages \cup Inits) /\ Len(serverQueue') <= ServerRoom
    BY <1>1, <1>9, <2>2, PutToServerFacts DEF SendInit
  <2> QED
    BY <1>1, <1>9, <2>3 DEF SendInit, serverVars, TypeOK, last_id
<1>10. ASSUME NEW c \in Clients, ReceiveId(c) PROVE TypeOK'
  <2>1. /\ key[c] \in Keys /\ queues[key[c]] # None /\ queues[key[c]] # <<>>
        /\ queues' = [queues EXCEPT ![key[c]] = Tail(@)]
    BY <1>10, ReadersHaveQueues DEF ReceiveId
  <2>2. /\ queues' \in [Keys -> Seq(Messages) \cup {None}]
        /\ \A k \in Keys : queues'[k] # None => Len(queues'[k]) <= ClientRoom
    BY <1>1, <2>1, ReceiveFacts DEF TypeOK
  <2>3. PICK i \in 1 .. last_id : id' = [id EXCEPT ![c] = i - 1]
    BY <1>10, ReceiveIdFacts
  <2>4. i - 1 \in 0 .. Cardinality(Clients) - 1
    BY <1>1 DEF TypeOK
  <2>5. id' \in [Clients -> 0 .. Cardinality(Clients) - 1 \cup {None}]
    BY <1>1, <2>3, <2>4 DEF TypeOK
  <2> QED
    BY <1>1, <1>10, <2>2, <2>5 DEF ReceiveId, serverVars, TypeOK, last_id
<1>11. ASSUME NEW c \in Clients, Say(c) PROVE TypeOK'
  <2>1. serverQueue' \in Seq(Messages \cup Inits) /\ Len(serverQueue') <= ServerRoom
    BY <1>1, <1>11, SayFacts, PutToServerFacts DEF Say
  <2>2. said' \in [Clients -> 0 .. MaxSaid]
    BY <1>1, <1>11 DEF Say, TypeOK
  <2> QED
    BY <1>1, <1>11, <2>1, <2>2 DEF Say, serverVars, TypeOK, last_id
<1>12. ASSUME NEW c \in Clients, Hear(c) PROVE TypeOK'
  <2>1. /\ key[c] \in Keys /\ queues[key[c]] # None /\ queues[key[c]] # <<>>
        /\ queues' = [queues EXCEPT ![key[c]] = Tail(@)]
        /\ heard' = [heard EXCEPT ![c] = Append(@, Head(queues[key[c]]))]
    BY <1>12, ReadersHaveQueues DEF Hear
  <2>2. /\ queues' \in [Keys -> Seq(Messages) \cup {None}]
        /\ \A k \in Keys : queues'[k] # None => Len(queues'[k]) <= ClientRoom
        /\ Head(queues[key[c]]) \in Messages
    BY <1>1, <2>1, ReceiveFacts DEF TypeOK
  <2>3. heard' \in [Clients -> Seq(Messages)]
    BY <1>1, <2>1, <2>2 DEF TypeOK
  <2> QED
    BY <1>1, <1>12, <2>2, <2>3 DEF Hear, serverVars, TypeOK, last_id
<1>13. ASSUME NEW c \in Clients, Kill(c) PROVE TypeOK'
  BY <1>1, <1>13 DEF Kill, serverVars, TypeOK, last_id
<1> QED
  BY <1>2, <1>3, <1>5, <1>6, <1>7, <1>8, <1>9, <1>10, <1>11, <1>12, <1>13
     DEF Next, Server, Client


\* A client gets an id once.
LEMMA IdsOnceStep == ASSUME IInv, Next PROVE IdsOnce'
<1>1. IdsOnce /\ DOMAIN pc = Clients /\ DOMAIN id = Clients
  BY DEF IInv, TypeOK
<1>2. ASSUME NEW c \in Clients, ReceiveId(c) PROVE IdsOnce'
  <2>1. PICK i \in 1 .. last_id : id' = [id EXCEPT ![c] = i - 1]
    BY <1>2, ReceiveIdFacts
  <2>2. i - 1 # None
    BY Types, NoneAssumption DEF IInv
  <2>3. pc' = [pc EXCEPT ![c] = "chatting"]
    BY <1>2 DEF ReceiveId
  <2> QED
    BY <1>1, <2>1, <2>2, <2>3 DEF IdsOnce
<1>3. ASSUME NEW c \in Clients, MakeQueue(c) \/ SendInit(c) \/ Kill(c) PROVE IdsOnce'
  <2>1. /\ UNCHANGED id
        /\ \/ pc[c] = "off" /\ pc' = [pc EXCEPT ![c] = "sendInit"]
           \/ pc[c] = "sendInit" /\ pc' = [pc EXCEPT ![c] = "awaitId"]
           \/ pc' = [pc EXCEPT ![c] = "gone"]
    BY <1>3 DEF MakeQueue, SendInit, Kill
  <2> QED
    BY <1>1, <2>1 DEF IdsOnce
<1>4. CASE UNCHANGED <<pc, id>>
  BY <1>1, <1>4 DEF IdsOnce
<1>5. \/ UNCHANGED <<pc, id>>
      \/ \E c \in Clients : MakeQueue(c) \/ SendInit(c) \/ ReceiveId(c) \/ Kill(c)
  BY DEF Next, Server, Client, TakeInit, NoInit, SendId, TakeMessage, NoMessage, SendNext,
         EndBroadcast, Say, Hear, clientVars
<1> QED
  BY <1>2, <1>3, <1>4, <1>5

\* The id that is read is the one the client is registered under.
LEMMA IdsMatchStep == ASSUME IInv, Next PROVE IdsMatch'
<1>1. ASSUME NEW c \in Clients, ReceiveId(c) PROVE IdsMatch'
  <2>1. PICK i \in 1 .. last_id : klienci[i] = key[c] /\ id' = [id EXCEPT ![c] = i - 1]
    BY <1>1, ReceiveIdFacts
  <2>2. /\ id'[c] = i - 1
        /\ \A d \in Clients \ {c} : id'[d] = id[d]
    BY <2>1 DEF IInv, TypeOK
  <2>3. last_id \in Nat /\ i - 1 < last_id /\ i - 1 + 1 = i
    BY Types DEF IInv
  <2>4. UNCHANGED <<key, klienci>> /\ last_id' = last_id
    BY <1>1 DEF ReceiveId, serverVars, last_id
  <2>5. ASSUME NEW d \in Clients \ {c} PROVE id[d] # i - 1
    <3>1. SUFFICES ASSUME id[d] = i - 1 PROVE FALSE
      OBVIOUS
    <3>2. id[d] # None
      BY <2>3, <3>1, NoneAssumption
    <3>3. key[d] = key[c]
      BY <2>1, <2>3, <3>1, <3>2, OldIdsMatch
    <3>4. key[c] # None
      BY <1>1, ReadersHaveQueues, ChatQueuesAssumption DEF ReceiveId
    <3> QED
      BY <3>3, <3>4 DEF IInv, KeysApart
  <2>6. ASSUME NEW d \in Clients, id'[d] # None
        PROVE  /\ id'[d] < last_id'
               /\ klienci'[id'[d] + 1] = key'[d]
               /\ \A e \in Clients \ {d} : id'[e] # id'[d]
    <3>1. CASE d = c
      BY <2>1, <2>2, <2>3, <2>4, <2>5, <3>1
    <3>2. CASE d # c
      BY <2>2, <2>5, <2>6, <3>2, OldIdsMatch
    <3> QED
      BY <3>1, <3>2
  <2> QED
    BY <2>6 DEF IdsMatch
<1>2. CASE UNCHANGED id
  BY <1>2, OldIdsMatch DEF IdsMatch
<1>3. UNCHANGED id \/ \E c \in Clients : ReceiveId(c)
  BY DEF Next, Server, Client, TakeInit, NoInit, SendId, TakeMessage, NoMessage, SendNext,
         EndBroadcast, MakeQueue, SendInit, Say, Hear, Kill, clientVars
<1> QED
  BY <1>1, <1>2, <1>3

\* Who has sent a message has sent it for good.
LEMMA SentStays ==
    ASSUME IInv, Next, NEW m \in Messages, Sent(m)
    PROVE  \E c \in Clients : id'[c] = m.id /\ m.text <= said'[c]
<1>1. PICK c \in Clients : id[c] = m.id /\ m.text <= said[c]
  BY DEF Sent
<1>2. /\ m.id \in Nat /\ m.text \in Nat
      /\ said \in [Clients -> 0 .. MaxSaid] /\ MaxSaid \in Nat
      /\ DOMAIN id = Clients
  BY Types, ChatQueuesAssumption DEF IInv, TypeOK, Messages
<1>3. id[c] # None
  BY <1>1, <1>2, NoneAssumption
<1>4. id'[c] = id[c]
  <2>1. ASSUME NEW d \in Clients, ReceiveId(d) PROVE id'[c] = id[c]
    <3>1. d # c
      BY <1>3, <2>1 DEF ReceiveId, IInv, IdsOnce
    <3> QED
      BY <1>2, <2>1, <3>1 DEF ReceiveId
  <2>2. UNCHANGED id \/ \E d \in Clients : ReceiveId(d)
    BY DEF Next, Server, Client, TakeInit, NoInit, SendId, TakeMessage, NoMessage,
           SendNext, EndBroadcast, MakeQueue, SendInit, Say, Hear, Kill, clientVars
  <2> QED
    BY <2>1, <2>2
<1>5. m.text <= said'[c]
  <2>1. ASSUME NEW d \in Clients, Say(d) PROVE m.text <= said'[c]
    <3>1. said'[c] = IF c = d THEN said[c] + 1 ELSE said[c]
      BY <1>2, <2>1 DEF Say
    <3>2. said[c] \in Nat
      BY <1>2
    <3> QED
      BY <1>1, <1>2, <3>1, <3>2
  <2>2. UNCHANGED said \/ \E d \in Clients : Say(d)
    BY DEF Next, Server, Client, TakeInit, NoInit, SendId, TakeMessage, NoMessage,
           SendNext, EndBroadcast, MakeQueue, SendInit, ReceiveId, Hear, Kill, clientVars
  <2> QED
    BY <1>1, <2>1, <2>2
<1> QED
  BY <1>1, <1>4, <1>5


\* The server's queue and the log keep the order in which each client has sent.
LEMMA SentInOrderStep == ASSUME IInv, Next PROVE SentInOrder'
<1>0. TypeOK
  BY DEF IInv
<1>1. /\ Len(serverQueue) \in Nat /\ Len(log) \in Nat
      /\ \A n \in 1 .. Len(serverQueue) :
            ~IsInit(serverQueue[n]) => serverQueue[n] \in Messages
      /\ \A n \in 1 .. Len(log) : log[n] \in Messages
      /\ SentInOrder
  BY Types DEF IInv
<1>2. /\ \A n \in 1 .. Len(serverQueue) : ~IsInit(serverQueue[n]) =>
            \E c \in Clients : id'[c] = serverQueue[n].id /\ serverQueue[n].text <= said'[c]
      /\ \A n \in 1 .. Len(log) :
            \E c \in Clients : id'[c] = log[n].id /\ log[n].text <= said'[c]
  BY <1>1, SentStays DEF SentInOrder
<1>3. CASE TakeInit
  <2>1. PICK n \in DOMAIN serverQueue : serverQueue' = RemoveAt(serverQueue, n)
    BY <1>3 DEF TakeInit
  <2>2. \A i \in 1 .. Len(serverQueue') :
            /\ i \in Nat
            /\ Skip(i, n) \in 1 .. Len(serverQueue)
            /\ serverQueue'[i] = serverQueue[Skip(i, n)]
    BY <1>0, <2>1, Take
  <2>3. UNCHANGED log
    BY <1>3 DEF TakeInit
  <2>4. \A i, j \in 1 .. Len(serverQueue') : i < j => Skip(i, n) < Skip(j, n)
    BY <1>0, <2>1, Take
  <2>5. ASSUME NEW i \in 1 .. Len(serverQueue'), ~IsInit(serverQueue'[i])
        PROVE  \E c \in Clients :
                   id'[c] = serverQueue'[i].id /\ serverQueue'[i].text <= said'[c]
    BY <1>2, <2>2, <2>5
  <2>6. ASSUME NEW i \in 1 .. Len(serverQueue'), NEW j \in 1 .. Len(serverQueue'), i < j,
               ~IsInit(serverQueue'[i]), ~IsInit(serverQueue'[j]),
               serverQueue'[i].id = serverQueue'[j].id
        PROVE  serverQueue'[i].text < serverQueue'[j].text
    BY <1>1, <2>2, <2>4, <2>6 DEF SentInOrder
  <2>7. ASSUME NEW i \in 1 .. Len(log), NEW j \in 1 .. Len(serverQueue'),
               ~IsInit(serverQueue'[j]), log[i].id = serverQueue'[j].id
        PROVE  log[i].text < serverQueue'[j].text
    BY <1>1, <2>2, <2>7 DEF SentInOrder
  <2> QED
    BY <1>1, <1>2, <2>3, <2>5, <2>6, <2>7 DEF SentInOrder, Sent
<1>4. CASE TakeMessage
  <2>1. PICK n \in DOMAIN serverQueue :
           /\ IsOldest(n, "CONNECTED")
           /\ serverQueue' = RemoveAt(serverQueue, n)
           /\ log' = Append(log, serverQueue[n])
    BY <1>4 DEF TakeMessage
  <2>2. /\ n \in 1 .. Len(serverQueue)
        /\ \A i \in 1 .. Len(serverQueue') :
              /\ i \in Nat
              /\ Skip(i, n) \in 1 .. Len(serverQueue) \ {n}
              /\ serverQueue'[i] = serverQueue[Skip(i, n)]
    BY <1>0, <2>1, Take
  <2>3. \A i, j \in 1 .. Len(serverQueue') : i < j => Skip(i, n) < Skip(j, n)
    BY <1>0, <2>1, Take
  <2>4. ~IsInit(serverQueue[n]) /\ serverQueue[n] \in Messages
    BY <1>1, <2>1, <2>2 DEF IsOldest, IsInit
  <2>5. /\ Len(log') = Len(log) + 1
        /\ \A i \in 1 .. Len(log) : log'[i] = log[i]
        /\ log'[Len(log) + 1] = serverQueue[n]
    BY <2>1, <2>4, AppendProperties DEF IInv, TypeOK
  <2>6. \A i \in 1 .. Len(log') : i \in 1 .. Len(log) \/ i = Len(log) + 1
    BY <1>1, <2>5
  <2>7. ASSUME NEW i \in 1 .. Len(serverQueue'), ~IsInit(serverQueue'[i]) PROVE n < Skip(i, n)
    <3>1. ~(Skip(i, n) \in 1 .. n - 1)
      BY <1>1, <2>1, <2>2, <2>7 DEF IsOldest, IsInit, Messages
    <3> QED
      BY <1>1, <2>2, <3>1
  <2>8. ASSUME NEW i \in 1 .. Len(serverQueue'), ~IsInit(serverQueue'[i])
        PROVE  \E c \in Clients :
                   id'[c] = serverQueue'[i].id /\ serverQueue'[i].text <= said'[c]
    BY <1>2, <2>2, <2>8
  <2>9. ASSUME NEW i \in 1 .. Len(log')
        PROVE  \E c \in Clients : id'[c] = log'[i].id /\ log'[i].text <= said'[c]
    BY <1>2, <2>2, <2>4, <2>5, <2>6
  <2>10. ASSUME NEW i \in 1 .. Len(serverQueue'), NEW j \in 1 .. Len(serverQueue'), i < j,
                ~IsInit(serverQueue'[i]), ~IsInit(serverQueue'[j]),
                serverQueue'[i].id = serverQueue'[j].id
         PROVE  serverQueue'[i].text < serverQueue'[j].text
    BY <1>1, <2>2, <2>3, <2>10 DEF SentInOrder
  <2>11. ASSUME NEW i \in 1 .. Len(log'), NEW j \in 1 .. Len(serverQueue'),
                ~IsInit(serverQueue'[j]), log'[i].id = serverQueue'[j].id
         PROVE  log'[i].text < serverQueue'[j].text
    <3>1. CASE i \in 1 .. Len(log)
      BY <1>1, <2>2, <2>5, <2>11, <3>1 DEF SentInOrder
    <3>2. CASE i = Len(log) + 1
      <4>1. n < Skip(j, n)
        BY <2>7, <2>11
      <4> QED
        BY <1>1, <2>2, <2>4, <2>5, <2>11, <3>2, <4>1 DEF SentInOrder
    <3> QED
      BY <2>6, <3>1, <3>2
  <2>12. ASSUME NEW i \in 1 .. Len(log'), NEW j \in 1 .. Len(log'), i < j,
                log'[i].id = log'[j].id
         PROVE  log'[i].text < log'[j].text
    <3>1. i \in 1 .. Len(log)
      BY <1>1, <2>5, <2>6, <2>12
    <3>2. CASE j \in 1 .. Len(log)
      BY <1>1, <2>5, <2>12, <3>1, <3>2 DEF SentInOrder
    <3>3. CASE j = Len(log) + 1
      BY <1>1, <2>2, <2>4, <2>5, <2>12, <3>1, <3>3 DEF SentInOrder
    <3> QED
      BY <2>6, <3>2, <3>3
  <2> QED
    BY <2>8, <2>9, <2>10, <2>11, <2>12 DEF SentInOrder, Sent
<1>5. ASSUME NEW c \in Clients, SendInit(c) PROVE SentInOrder'
  <2> DEFINE m == InitMessage(key[c])
  <2>1. m \in Messages \cup Inits /\ IsInit(m)
    BY <1>5, ReadersHaveQueues DEF SendInit, InitMessage, Inits, IsInit
  <2>2. PutToServer(m) /\ UNCHANGED log
    BY <1>5 DEF SendInit, serverVars
  <2> HIDE DEF m
  <2>3. /\ Len(serverQueue') = Len(serverQueue) + 1
        /\ \A i \in 1 .. Len(serverQueue) : serverQueue'[i] = serverQueue[i]
        /\ serverQueue'[Len(serverQueue) + 1] = m
    BY <2>1, <2>2, PutToServerFacts DEF IInv
  <2>4. \A i \in 1 .. Len(serverQueue') :
            ~IsInit(serverQueue'[i]) => i \in 1 .. Len(serverQueue)
    BY <1>1, <2>1, <2>3
  <2> QED
    <3>1. ASSUME NEW i \in 1 .. Len(serverQueue'), ~IsInit(serverQueue'[i])
          PROVE  i \in 1 .. Len(serverQueue) /\ serverQueue'[i] = serverQueue[i]
      BY <2>3, <2>4, <3>1
    <3> QED
      BY <1>1, <1>2, <2>2, <3>1 DEF SentInOrder, Sent
<1>6. ASSUME NEW c \in Clients, Say(c) PROVE SentInOrder'
  <2> DEFINE m == Connected(id[c], said[c] + 1)
  <2>1. /\ m \in Messages /\ m.id = id[c] /\ m.text = said[c] + 1
        /\ id[c] # None /\ said[c] \in Nat
    BY <1>6, SayFacts DEF Connected
  <2>2. PutToServer(m) /\ UNCHANGED <<log, id>>
    BY <1>6 DEF Say, serverVars
  <2> HIDE DEF m
  <2>3. /\ Len(serverQueue') = Len(serverQueue) + 1
        /\ \A i \in 1 .. Len(serverQueue) : serverQueue'[i] = serverQueue[i]
        /\ serverQueue'[Len(serverQueue) + 1] = m
    BY <2>1, <2>2, PutToServerFacts DEF IInv
  <2>4. \A i \in 1 .. Len(serverQueue') :
            i \in 1 .. Len(serverQueue) \/ i = Len(serverQueue) + 1
    BY <1>1, <2>3
  <2>5. ASSUME NEW x \in Messages, Sent(x), x.id = m.id PROVE x.text < m.text
    <3>1. PICK d \in Clients : id[d] = x.id /\ x.text <= said[d]
      BY <2>5 DEF Sent
    <3>2. d = c
      BY <2>1, <2>5, <3>1, OldIdsMatch
    <3>3. x.text \in Int
      BY ChatQueuesAssumption DEF Messages
    <3> QED
      BY <2>1, <3>1, <3>2, <3>3
  <2>6. id'[c] = m.id /\ m.text <= said'[c]
    <3>1. said'[c] = said[c] + 1
      BY <1>6 DEF Say, IInv, TypeOK
    <3> QED
      BY <2>1, <2>2, <3>1
  <2>7. ASSUME NEW i \in 1 .. Len(serverQueue'), ~IsInit(serverQueue'[i])
        PROVE  \E d \in Clients :
                   id'[d] = serverQueue'[i].id /\ serverQueue'[i].text <= said'[d]
    BY <1>2, <2>3, <2>4, <2>6, <2>7
  <2>8. ASSUME NEW i \in 1 .. Len(serverQueue'), NEW j \in 1 .. Len(serverQueue'), i < j,
               ~IsInit(serverQueue'[i]), ~IsInit(serverQueue'[j]),
               serverQueue'[i].id = serverQueue'[j].id
        PROVE  serverQueue'[i].text < serverQueue'[j].text
    <3>1. i \in 1 .. Len(serverQueue)
      BY <1>1, <2>3, <2>4, <2>8
    <3>2. CASE j \in 1 .. Len(serverQueue)
      BY <1>1, <2>3, <2>8, <3>1, <3>2 DEF SentInOrder
    <3>3. CASE j = Len(serverQueue) + 1
      <4>1. serverQueue[i] \in Messages /\ Sent(serverQueue[i]) /\ serverQueue[i].id = m.id
        BY <1>1, <2>3, <2>8, <3>1, <3>3 DEF SentInOrder
      <4> QED
        BY <2>3, <2>5, <3>1, <3>3, <4>1
    <3> QED
      BY <2>4, <3>2, <3>3
  <2>9. ASSUME NEW i \in 1 .. Len(log), NEW j \in 1 .. Len(serverQueue'),
               ~IsInit(serverQueue'[j]), log[i].id = serverQueue'[j].id
        PROVE  log[i].text < serverQueue'[j].text
    <3>1. CASE j \in 1 .. Len(serverQueue)
      BY <1>1, <2>3, <2>9, <3>1 DEF SentInOrder
    <3>2. CASE j = Len(serverQueue) + 1
      BY <1>1, <2>3, <2>5, <2>9, <3>2 DEF SentInOrder
    <3> QED
      BY <2>4, <3>1, <3>2
  <2> QED
    BY <1>1, <1>2, <2>2, <2>7, <2>8, <2>9 DEF SentInOrder, Sent
<1>7. CASE UNCHANGED <<serverQueue, log>>
  BY <1>1, <1>2, <1>7 DEF SentInOrder, Sent
<1>8. \/ UNCHANGED <<serverQueue, log>> \/ TakeInit \/ TakeMessage
      \/ \E c \in Clients : SendInit(c) \/ Say(c)
  BY DEF Next, Server, Client, NoInit, SendId, NoMessage, SendNext, EndBroadcast,
         MakeQueue, ReceiveId, Hear, Kill, serverVars
<1> QED
  BY <1>3, <1>4, <1>5, <1>6, <1>7, <1>8


\* What is coming to a client: it grows at its end, and loses nothing.
LEMMA InOrderAppend ==
    ASSUME NEW s \in Seq(Messages), NEW l \in Seq(Messages), Len(l) > 0,
           InOrder(s, l), Within(s, l, Len(l) - 1)
    PROVE  /\ InOrder(Append(s, l[Len(l)]), l)
           /\ Within(Append(s, l[Len(l)]), l, Len(l))
<1> DEFINE t == Append(s, l[Len(l)])
<1>1. /\ Len(l) \in Nat /\ Len(s) \in Nat
      /\ l[Len(l)] \in Messages
  BY LenProperties, ElementOfSeq
<1>2. /\ Len(t) = Len(s) + 1
      /\ \A i \in 1 .. Len(s) : t[i] = s[i]
      /\ t[Len(s) + 1] = l[Len(l)]
  BY <1>1, AppendProperties
<1> HIDE DEF t
<1>3. \A i \in 1 .. Len(t) : i \in 1 .. Len(s) \/ i = Len(s) + 1
  BY <1>1, <1>2
<1>4. \A i \in 1 .. Len(s) : \E m \in 1 .. Len(l) : m < Len(l) /\ l[m] = t[i]
  <2> SUFFICES ASSUME NEW i \in 1 .. Len(s)
               PROVE  \E m \in 1 .. Len(l) : m < Len(l) /\ l[m] = t[i]
    OBVIOUS
  <2>1. PICK m \in 1 .. Len(l) - 1 : l[m] = s[i]
    BY DEF Within
  <2>2. m \in 1 .. Len(l) /\ m < Len(l)
    BY <1>1
  <2> QED
    BY <1>2, <2>1, <2>2
<1>5. ASSUME NEW i \in 1 .. Len(t), NEW j \in 1 .. Len(t), i < j
      PROVE  \E m, n \in 1 .. Len(l) : m < n /\ l[m] = t[i] /\ l[n] = t[j]
  <2>1. i \in 1 .. Len(s)
    BY <1>1, <1>2, <1>3, <1>5
  <2>2. CASE j \in 1 .. Len(s)
    <3>1. PICK m \in 1 .. Len(l), n \in 1 .. Len(l) : m < n /\ l[m] = s[i] /\ l[n] = s[j]
      BY <1>5, <2>1, <2>2 DEF InOrder
    <3> QED
      BY <1>2, <2>1, <2>2, <3>1
  <2>3. CASE j = Len(s) + 1
    <3>1. t[j] = l[Len(l)] /\ Len(l) \in 1 .. Len(l)
      BY <1>1, <1>2, <2>3
    <3>2. PICK m \in 1 .. Len(l) : m < Len(l) /\ l[m] = t[i]
      BY <1>4, <2>1
    <3> QED
      BY <3>1, <3>2
  <2> QED
    BY <1>3, <2>2, <2>3
<1>6. ASSUME NEW i \in 1 .. Len(t) PROVE \E m \in 1 .. Len(l) : l[m] = t[i]
  BY <1>1, <1>2, <1>3, <1>4
<1> QED
  BY <1>5, <1>6 DEF InOrder, Within, t

\* ... the log grows too ...
LEMMA InOrderGrow ==
    ASSUME NEW s \in Seq(Messages), NEW l \in Seq(Messages), NEW x \in Messages,
           InOrder(s, l), Within(s, l, Len(l))
    PROVE  /\ InOrder(s, Append(l, x))
           /\ Within(s, Append(l, x), Len(Append(l, x)))
           /\ Within(s, Append(l, x), Len(Append(l, x)) - 1)
<1> DEFINE t == Append(l, x)
<1>1. Len(l) \in Nat
  BY LenProperties
<1>2. Len(t) = Len(l) + 1 /\ \A i \in 1 .. Len(l) : t[i] = l[i]
  BY AppendProperties
<1> HIDE DEF t
<1>3. /\ 1 .. Len(l) \subseteq 1 .. Len(t)
      /\ Len(t) - 1 = Len(l)
  BY <1>1, <1>2
<1>4. InOrder(s, t)
  BY <1>2, <1>3 DEF InOrder
<1>5. Within(s, t, Len(t)) /\ Within(s, t, Len(t) - 1)
  BY <1>2, <1>3 DEF Within
<1> QED
  BY <1>4, <1>5 DEF t

\* ... and what is left of it when the rest is lost is still in order.
LEMMA InOrderPrefix ==
    ASSUME NEW s \in Seq(Messages), NEW r \in Seq(Messages), NEW l, NEW b,
           InOrder(s \o r, l), Within(s \o r, l, b)
    PROVE  InOrder(s, l) /\ Within(s, l, b)
<1>1. Len(s) \in Nat /\ Len(r) \in Nat
  BY LenProperties
<1>2. /\ Len(s \o r) = Len(s) + Len(r)
      /\ \A i \in 1 .. Len(s) + Len(r) : (s \o r)[i] = IF i <= Len(s) THEN s[i] ELSE r[i - Len(s)]
  BY ConcatProperties
<1>3. /\ 1 .. Len(s) \subseteq 1 .. Len(s \o r)
      /\ \A i \in 1 .. Len(s) : (s \o r)[i] = s[i]
  BY <1>1, <1>2
<1>4. ASSUME NEW i \in 1 .. Len(s), NEW j \in 1 .. Len(s), i < j
      PROVE  \E m, n \in 1 .. Len(l) : m < n /\ l[m] = s[i] /\ l[n] = s[j]
  <2>1. i \in 1 .. Len(s \o r) /\ j \in 1 .. Len(s \o r)
    BY <1>3
  <2>2. PICK m \in 1 .. Len(l), n \in 1 .. Len(l) :
           m < n /\ l[m] = (s \o r)[i] /\ l[n] = (s \o r)[j]
    BY <1>4, <2>1 DEF InOrder
  <2> QED
    BY <1>3, <2>2
<1>5. ASSUME NEW i \in 1 .. Len(s) PROVE \E m \in 1 .. b : l[m] = s[i]
  <2>1. PICK m \in 1 .. b : l[m] = (s \o r)[i]
    BY <1>3 DEF Within
  <2> QED
    BY <1>3, <2>1
<1> QED
  BY <1>4, <1>5 DEF InOrder, Within

\* Reading takes a message from what is unread to what is read.
LEMMA ReadingKeeps ==
    ASSUME NEW h \in Seq(Messages), NEW q \in Seq(Messages), q # <<>>
    PROVE  Append(h, Head(q)) \o Tail(q) = h \o q
<1>1. /\ Head(q) \in Messages /\ Tail(q) \in Seq(Messages)
      /\ <<Head(q)>> \in Seq(Messages)
  BY HeadTailProperties
<1>2. Append(h, Head(q)) = h \o <<Head(q)>>
  BY <1>1, AppendIsConcat
<1>3. <<Head(q)>> \o Tail(q) = q
  BY <1>1
<1> QED
  BY <1>1, <1>2, <1>3, ConcatAssociative

\* Appending to what is unread appends to what is coming.
LEMMA AppendingKeeps ==
    ASSUME NEW h \in Seq(Messages), NEW q \in Seq(Messages), NEW x \in Messages
    PROVE  /\ h \o Append(q, x) = Append(h \o q, x)
           /\ q # <<>> => Append(q, x) # <<>> /\ Tail(Append(q, x)) = Append(Tail(q), x)
           /\ Tail(Append(<<>>, x)) = <<>>
<1>1. h \o Append(q, x) = Append(h \o q, x)
  <2>1. <<x>> \in Seq(Messages) /\ h \o q \in Seq(Messages)
    BY ConcatProperties
  <2>2. Append(q, x) = q \o <<x>> /\ Append(h \o q, x) = (h \o q) \o <<x>>
    BY <2>1, AppendIsConcat
  <2> QED
    BY <2>1, <2>2, ConcatAssociative
<1>2. q # <<>> => Append(q, x) # <<>> /\ Tail(Append(q, x)) = Append(Tail(q), x)
  BY HeadTailAppend
<1>3. Tail(Append(<<>>, x)) = <<>>
  OBVIOUS
<1> QED
  BY <1>1, <1>2, <1>3


\* What a client has still to read is a sequence of messages.
LEMMA ComingType ==
    ASSUME IInv, NEW c \in Clients
    PROVE  /\ heard[c] \in Seq(Messages)
           /\ Unread(c) \in Seq(Messages)
           /\ Coming(c) \in Seq(Messages)
<1>1. heard[c] \in Seq(Messages)
  BY DEF IInv, TypeOK
<1>2. Unread(c) \in Seq(Messages)
  <2>1. CASE pc[c] \in {"awaitId", "chatting"}
    <3>1. key[c] \in Keys /\ queues[key[c]] # None
      BY <2>1, ReadersHaveQueues
    <3>2. queues[key[c]] \in Seq(Messages)
      BY <3>1 DEF IInv, TypeOK
    <3>3. queues[key[c]] # <<>> => Tail(queues[key[c]]) \in Seq(Messages)
      BY <3>2, HeadTailProperties
    <3> QED
      BY <2>1, <3>2, <3>3 DEF Unread
  <2>2. CASE ~(pc[c] \in {"awaitId", "chatting"})
    BY <2>2 DEF Unread
  <2> QED
    BY <2>1, <2>2
<1> QED
  BY <1>1, <1>2, ConcatProperties DEF Coming

\* What is coming to a client none of whose state changes is the same.
LEMMA ComingStays ==
    ASSUME IInv, NEW c \in Clients, UNCHANGED <<heard[c], pc[c], key[c]>>,
           pc[c] \in {"awaitId", "chatting"} => UNCHANGED queues[key[c]]
    PROVE  UNCHANGED Coming(c)
BY DEF Coming, Unread

\* The clients a write to the k-th queue does not reach, and the one it does.
LEMMA PutComing ==
    ASSUME IInv, NEW k \in Keys, queues[k] # None, o2 \in Messages, Put(k),
           UNCHANGED <<heard, pc, key>>, NEW c \in Clients,
           pc[c] = "awaitId" /\ key[c] = k => queues[k] # <<>>
    PROVE  \/ UNCHANGED Coming(c)
           \/ key[c] = k /\ Coming(c)' = Append(Coming(c), o2)
<1>1. /\ queues[k] \in Seq(Messages)
      /\ \A j \in Keys \ {k} : queues'[j] = queues[j]
      /\ \/ queues'[k] = queues[k] /\ queues[k] # <<>>
         \/ queues'[k] = Append(queues[k], o2)
  BY PutFacts DEF IInv
<1>2. heard[c] \in Seq(Messages)
  BY ComingType
<1>3. CASE pc[c] \in {"awaitId", "chatting"} /\ key[c] = k /\ queues'[k] = Append(queues[k], o2)
  <2>1. CASE pc[c] = "chatting"
    <3>1. /\ Coming(c) = heard[c] \o queues[k]
          /\ Coming(c)' = heard[c] \o Append(queues[k], o2)
      BY <1>3, <2>1 DEF Coming, Unread
    <3>2. heard[c] \o Append(queues[k], o2) = Append(heard[c] \o queues[k], o2)
      BY <1>1, <1>2, AppendingKeeps
    <3> QED
      BY <1>3, <3>1, <3>2
  <2>2. CASE pc[c] = "awaitId"
    <3>1. queues[k] # <<>> /\ Tail(queues[k]) \in Seq(Messages)
      BY <1>1, <1>3, <2>2, HeadTailProperties
    <3>2. Append(queues[k], o2) # <<>> /\ Tail(Append(queues[k], o2)) = Append(Tail(queues[k]), o2)
      BY <1>1, <3>1, AppendingKeeps
    <3>3. /\ Coming(c) = heard[c] \o Tail(queues[k])
          /\ Coming(c)' = heard[c] \o Append(Tail(queues[k]), o2)
      BY <1>3, <2>2, <3>1, <3>2 DEF Coming, Unread
    <3>4. heard[c] \o Append(Tail(queues[k]), o2) = Append(heard[c] \o Tail(queues[k]), o2)
      BY <1>2, <3>1, AppendingKeeps
    <3> QED
      BY <1>3, <3>3, <3>4
  <2> QED
    BY <1>3, <2>1, <2>2
<1>4. CASE ~(pc[c] \in {"awaitId", "chatting"} /\ key[c] = k /\ queues'[k] = Append(queues[k], o2))
  <2>1. pc[c] \in {"awaitId", "chatting"} => queues'[key[c]] = queues[key[c]]
    BY <1>1, <1>4, ReadersHaveQueues
  <2> QED
    BY <2>1, ComingStays
<1> QED
  BY <1>3, <1>4

\* The broadcast appends the newest message to a queue that has not got it yet.
LEMMA ComingInOrderStep == ASSUME IInv, Next PROVE ComingInOrder'
<1>1. /\ ComingInOrder
      /\ log \in Seq(Messages) /\ last_id \in Nat
      /\ \A c \in Clients : Coming(c) \in Seq(Messages)
      /\ \A i \in 1 .. last_id : klienci[i] \in Keys
      /\ None \notin Keys
  BY ComingType, Types, ChatQueuesAssumption DEF IInv, TypeOK
<1>2. ASSUME UNCHANGED log, serverPc' # "broadcast", \A c \in Clients : UNCHANGED Coming(c)
      PROVE  ComingInOrder'
  BY <1>1, <1>2 DEF ComingInOrder, Due
<1>3. ASSUME UNCHANGED <<log, serverPc, o2, next, klienci>>,
             \A c \in Clients :
                 /\ UNCHANGED Coming(c) \/ Coming(c)' = heard[c]
                 /\ UNCHANGED key[c] \/ \A i \in 1 .. last_id : klienci[i] # key'[c]
      PROVE  ComingInOrder'
  <2>1. last_id' = last_id /\ next \in Nat
    BY <1>3 DEF last_id, IInv, TypeOK
  <2>2. ASSUME NEW c \in Clients PROVE Due(c)' => Due(c)
    BY <1>1, <1>3, <2>1 DEF Due
  <2>3. ASSUME NEW c \in Clients, NEW b, Within(Coming(c), log, b)
        PROVE  Within(Coming(c)', log, b)
    BY <1>1, <1>3, <2>3, ComingType, InOrderPrefix DEF ComingInOrder, Coming
  <2>4. ASSUME NEW c \in Clients PROVE InOrder(Coming(c)', log)
    BY <1>1, <1>3, ComingType, InOrderPrefix DEF ComingInOrder, Coming
  <2> QED
    BY <1>1, <1>3, <2>2, <2>3, <2>4 DEF ComingInOrder
<1>4. CASE TakeInit \/ NoInit \/ NoMessage \/ EndBroadcast
  BY <1>2, <1>4, ComingStays DEF TakeInit, NoInit, NoMessage, EndBroadcast, clientVars
<1>5. CASE TakeMessage
  <2>1. PICK n \in DOMAIN serverQueue :
           /\ serverQueue[n].typ = "CONNECTED"
           /\ o2' = serverQueue[n]
           /\ log' = Append(log, serverQueue[n])
    BY <1>5 DEF TakeMessage, IsOldest
  <2>2. serverQueue[n] \in Messages
    BY <2>1, LenProperties, Types DEF IInv, TypeOK, IsInit
  <2>3. Len(log') > 0 /\ o2' = log'[Len(log')]
    <3>1. Len(log) \in Nat /\ Len(log') = Len(log) + 1 /\ log'[Len(log) + 1] = serverQueue[n]
      BY <1>1, <2>1, <2>2, AppendProperties, LenProperties
    <3> QED
      BY <2>1, <3>1
  <2>4. ASSUME NEW c \in Clients
        PROVE  /\ UNCHANGED Coming(c)
               /\ InOrder(Coming(c), log')
               /\ Within(Coming(c), log', Len(log'))
               /\ Within(Coming(c), log', Len(log') - 1)
    <3>1. UNCHANGED Coming(c)
      BY <1>5, ComingStays DEF TakeMessage, clientVars
    <3>2. InOrder(Coming(c), log) /\ Within(Coming(c), log, Len(log))
      BY <1>1 DEF ComingInOrder
    <3> QED
      BY <1>1, <2>1, <2>2, <3>1, <3>2, InOrderGrow
  <2> QED
    BY <2>3, <2>4 DEF ComingInOrder
<1>6. CASE SendId
  <2> DEFINE k == klienci[last_id]
  <2>1. /\ k \in Keys /\ queues[k] # None /\ o2 \in Messages /\ Put(k)
        /\ last_id \in 1 .. last_id
    BY <1>6, SendIdFacts
  <2>2. /\ serverPc = "sendId" /\ serverPc' = "pollMessage"
        /\ UNCHANGED <<heard, pc, key, log>>
        /\ queues[k] = <<>>
        /\ \A c \in Clients : id[c] # None => key[c] # k
    BY <1>6 DEF SendId, clientVars, IInv, AnswersFirst
  <2>3. /\ queues'[k] = Append(<<>>, o2)
        /\ \A j \in Keys \ {k} : queues'[j] = queues[j]
    BY <2>1, <2>2, PutFacts DEF IInv
  <2> HIDE DEF k
  <2>4. ASSUME NEW c \in Clients PROVE UNCHANGED Coming(c)
    <3>1. CASE pc[c] = "awaitId" /\ key[c] = k
      <4>1. Tail(Append(<<>>, o2)) = <<>>
        BY <2>1
      <4> QED
        BY <2>2, <2>3, <3>1, <4>1 DEF Coming, Unread
    <3>2. CASE ~(pc[c] = "awaitId" /\ key[c] = k)
      <4>1. pc[c] \in {"awaitId", "chatting"} => key[c] \in Keys \ {k}
        BY <2>2, <3>2, ReadersHaveQueues DEF IInv, IdsOnce
      <4> QED
        BY <2>2, <2>3, <4>1, ComingStays
    <3> QED
      BY <3>1, <3>2
  <2> QED
    BY <1>2, <2>2, <2>4
<1>7. CASE SendNext
  <2> DEFINE k == klienci[next + 1]
  <2>1. /\ k \in Keys /\ queues[k] # None /\ Put(k)
        /\ o2 \in Messages /\ o2 = log[Len(log)] /\ Len(log) > 0
        /\ next + 1 \in 1 .. last_id
    BY <1>7, SendNextFacts
  <2>2. /\ serverPc = "broadcast" /\ serverPc' = "broadcast" /\ next' = next + 1
        /\ UNCHANGED <<heard, pc, key, log, klienci, o2>>
    BY <1>7 DEF SendNext, clientVars
  <2>3. last_id' = last_id /\ next \in Nat
    BY <2>2 DEF last_id, IInv, TypeOK
  <2>4. ASSUME NEW c \in Clients, pc[c] = "awaitId", key[c] = k PROVE queues[k] # <<>>
    BY <2>1, <2>2, <2>4 DEF IInv, AnswersFirst, Unanswered
  <2>5. ASSUME NEW c \in Clients, Due(c)' PROVE key[c] # k /\ Due(c)
    <3>1. PICK i \in next' + 1 .. last_id' : klienci'[i] = key'[c]
      BY <2>5 DEF Due
    <3>2. i \in next + 1 .. last_id /\ i \in 1 .. last_id /\ i # next + 1
      BY <1>1, <2>2, <2>3
    <3> QED
      BY <2>1, <2>2, <3>1, <3>2 DEF Due, IInv, RegisteredOnce
  <2> HIDE DEF k
  <2>6. ASSUME NEW c \in Clients
        PROVE  /\ InOrder(Coming(c)', log)
               /\ Within(Coming(c)', log, Len(log))
               /\ Due(c)' => Within(Coming(c)', log, Len(log) - 1)
    <3>1. CASE UNCHANGED Coming(c)
      BY <1>1, <2>5, <3>1 DEF ComingInOrder
    <3>2. CASE key[c] = k /\ Coming(c)' = Append(Coming(c), o2)
      <4>1. Due(c)
        <5>1. next + 1 \in next + 1 .. last_id
          BY <1>1, <2>1, <2>3
        <5> QED
          BY <2>2, <3>2, <5>1 DEF Due, k
      <4>2. InOrder(Coming(c), log) /\ Within(Coming(c), log, Len(log) - 1)
        BY <1>1, <4>1 DEF ComingInOrder
      <4>3. /\ InOrder(Append(Coming(c), log[Len(log)]), log)
            /\ Within(Append(Coming(c), log[Len(log)]), log, Len(log))
        BY <1>1, <2>1, <4>2, InOrderAppend
      <4> QED
        BY <2>1, <2>5, <3>2, <4>3
    <3> QED
      BY <2>1, <2>2, <2>4, <3>1, <3>2, PutComing
  <2> QED
    BY <2>1, <2>2, <2>6 DEF ComingInOrder
<1>8. ASSUME NEW c \in Clients, MakeQueue(c) PROVE ComingInOrder'
  <2>1. /\ pc[c] = "off" /\ UNCHANGED <<heard, log, serverPc, o2, next, klienci>>
    BY <1>8 DEF MakeQueue, serverVars
  <2>2. /\ pc' = [pc EXCEPT ![c] = "sendInit"] \/ pc' = [pc EXCEPT ![c] = "gone"]
        /\ DOMAIN pc = Clients /\ DOMAIN key = Clients
        /\ queues \in [Keys -> Seq(Messages) \cup {None}]
    BY <1>8 DEF MakeQueue, IInv, TypeOK
  <2>3. \A d \in Clients \ {c} : UNCHANGED <<pc[d], key[d]>>
    BY <1>8, <2>2 DEF MakeQueue
  <2>4. \A k \in Keys : queues[k] # None => UNCHANGED queues[k]
    BY <1>8, <2>2 DEF MakeQueue
  <2>5. \A d \in Clients \ {c} : UNCHANGED Coming(d)
    BY <2>1, <2>3, <2>4, ReadersHaveQueues, ComingStays
  <2>6. UNCHANGED Coming(c)
    BY <2>1, <2>2 DEF Coming, Unread
  <2>7. UNCHANGED key[c] \/ \A i \in 1 .. last_id : klienci[i] # key'[c]
    <3>1. \/ UNCHANGED key[c]
          \/ key'[c] \in Keys /\ queues[key'[c]] = None
      BY <1>8, <2>2 DEF MakeQueue
    <3> QED
      BY <3>1, RegisteredHaveQueues
  <2> QED
    BY <1>3, <2>1, <2>3, <2>5, <2>6, <2>7
<1>9. ASSUME NEW c \in Clients, SendInit(c) PROVE ComingInOrder'
  <2>1. /\ pc[c] = "sendInit" /\ pc' = [pc EXCEPT ![c] = "awaitId"] /\ DOMAIN pc = Clients
        /\ UNCHANGED <<heard, log, serverPc, o2, next, klienci, key, queues>>
    BY <1>9 DEF SendInit, serverVars, IInv, TypeOK
  <2>2. queues[key[c]] = <<>>
    BY <2>1, ReadersHaveQueues DEF IInv, AskedOnce, AnswersFirst
  <2>3. ASSUME NEW d \in Clients PROVE UNCHANGED Coming(d)
    BY <2>1, <2>2 DEF Coming, Unread
  <2> QED
    BY <1>3, <2>1, <2>3
<1>10. ASSUME NEW c \in Clients, ReceiveId(c) \/ Hear(c) PROVE ComingInOrder'
  <2> DEFINE k == key[c]
  <2>1. /\ pc[c] \in {"awaitId", "chatting"} /\ pc'[c] = "chatting"
        /\ queues[k] # <<>>
        /\ queues' = [queues EXCEPT ![k] = Tail(@)]
        /\ UNCHANGED <<log, serverPc, o2, next, klienci, key>>
        /\ \A d \in Clients \ {c} : UNCHANGED <<heard[d], pc[d]>>
    BY <1>10 DEF ReceiveId, Hear, serverVars, IInv, TypeOK
  <2>2. k \in Keys /\ queues[k] # None
    BY <2>1, ReadersHaveQueues
  <2>3. /\ queues[k] \in Seq(Messages)
        /\ queues'[k] = Tail(queues[k])
        /\ \A j \in Keys \ {k} : queues'[j] = queues[j]
    BY <2>1, <2>2, ReceiveFacts DEF IInv
  <2>4. UNCHANGED Coming(c)
    <3>1. CASE ReceiveId(c)
      <4>1. pc[c] = "awaitId" /\ UNCHANGED heard
        BY <3>1 DEF ReceiveId
      <4> QED
        BY <2>1, <2>3, <4>1 DEF Coming, Unread
    <3>2. CASE Hear(c)
      <4>1. pc[c] = "chatting" /\ heard'[c] = Append(heard[c], Head(queues[k]))
        BY <3>2 DEF Hear, IInv, TypeOK
      <4>2. Append(heard[c], Head(queues[k])) \o Tail(queues[k]) = heard[c] \o queues[k]
        BY <2>1, <2>3, ComingType, ReadingKeeps
      <4> QED
        BY <2>1, <2>3, <4>1, <4>2 DEF Coming, Unread
    <3> QED
      BY <1>10, <3>1, <3>2
  <2>5. ASSUME NEW d \in Clients \ {c} PROVE UNCHANGED Coming(d)
    <3>1. pc[d] \in {"awaitId", "chatting"} => key[d] \in Keys \ {k}
      BY <2>2, ReadersHaveQueues, ChatQueuesAssumption DEF IInv, KeysApart
    <3> QED
      BY <2>1, <2>3, <3>1, ComingStays
  <2> QED
    BY <1>3, <2>1, <2>4, <2>5
<1>11. ASSUME NEW c \in Clients, Say(c) PROVE ComingInOrder'
  <2>1. UNCHANGED <<heard, pc, key, queues, log, serverPc, o2, next, klienci>>
    BY <1>11 DEF Say, serverVars
  <2> QED
    BY <1>3, <2>1, ComingStays
<1>12. ASSUME NEW c \in Clients, Kill(c) PROVE ComingInOrder'
  <2>1. /\ pc' = [pc EXCEPT ![c] = "gone"] /\ DOMAIN pc = Clients
        /\ UNCHANGED <<heard, key, queues, log, serverPc, o2, next, klienci>>
    BY <1>12 DEF Kill, serverVars, IInv, TypeOK
  <2>2. Coming(c)' = heard[c]
    BY <2>1, ComingType DEF Coming, Unread
  <2>3. ASSUME NEW d \in Clients \ {c} PROVE UNCHANGED Coming(d)
    BY <2>1, ComingStays
  <2> QED
    BY <1>3, <2>1, <2>2, <2>3
<1> QED
  BY <1>4, <1>5, <1>6, <1>7, <1>8, <1>9, <1>10, <1>11, <1>12 DEF Next, Server, Client


-----------------------------------------------------------------------------
\* Every step keeps the inductive invariant.
LEMMA StepInv == IInv /\ [Next]_vars => IInv'
<1> SUFFICES ASSUME IInv, [Next]_vars PROVE IInv'
  OBVIOUS
<1>1. CASE Next
  BY <1>1, RegisteredOnceStep, TypeStep, KeysApartStep, AskedOnceStep, AnswersFirstStep,
     IdsOnceStep, IdsMatchStep, SentInOrderStep, ComingInOrderStep DEF IInv
<1>2. CASE UNCHANGED vars
  <2>1. UNCHANGED <<serverQueue, queues, klienci, o2, next, serverPc, log>>
    BY <1>2 DEF vars, serverVars
  <2>2. UNCHANGED <<key, id, said, pc, heard>>
    BY <1>2 DEF vars, clientVars
  <2>3. last_id' = last_id
    BY <2>1 DEF last_id
  <2>4. TypeOK' /\ KeysApart' /\ RegisteredOnce' /\ IdsOnce' /\ IdsMatch'
    BY <2>1, <2>2, <2>3
       DEF IInv, TypeOK, KeysApart, RegisteredOnce, IdsOnce, IdsMatch
  <2>5. AskedOnce' /\ AnswersFirst'
    BY <2>1, <2>2, <2>3
       DEF IInv, AskedOnce, AnswersFirst, Registered, Asking, Unanswered
  <2>6. SentInOrder' /\ ComingInOrder'
    BY <2>1, <2>2, <2>3 DEF IInv, SentInOrder, Sent, ComingInOrder, Coming, Unread, Due
  <2> QED
    BY <2>4, <2>5, <2>6 DEF IInv
<1> QED
  BY <1>1, <1>2

\* The inductive invariant holds in every reachable state: what any client has
\* printed, still has to read or has sent is what its registration allows.
THEOREM Invariance == Spec => []IInv
BY InitInv, StepInv, PTL DEF Spec

\* The type invariant: queues within their room, no client registered twice,
\* so that klienci[] never holds more entries than there are clients.
THEOREM TypeCorrect == Spec => []TypeOK
<1>1. IInv => TypeOK
  BY DEF IInv
<1> QED
  BY <1>1, Invariance, PTL

\* A client that reads an id (klient.c:50) reads its own, and no other's.
THEOREM IdsCorrect == Spec => []IdsMatch
<1>1. IInv => IdsMatch
  BY DEF IInv
<1> QED
  BY <1>1, Invariance, PTL

\* All clients see the messages in the order of the broadcasts, each once, and
\* those of one client in the order it sent them, whatever is dropped.
THEOREM OneOrderForAll == Spec => []OneOrder
<1>1. IInv => OneOrder
  <2> SUFFICES ASSUME IInv PROVE OneOrder
    OBVIOUS
  <2>1. ASSUME NEW c \in Clients PROVE InOrder(Seen(c), log)
    <3>1. InOrder(Coming(c), log) /\ Within(Coming(c), log, Len(log))
      BY DEF IInv, ComingInOrder
    <3>2. InOrder(heard[c], log)
      BY <3>1, ComingType, InOrderPrefix DEF Coming
    <3>3. heard[c] \o <<>> = heard[c]
      BY ComingType, ConcatEmptySeq
    <3> QED
      BY <3>1, <3>2, <3>3 DEF Seen, Coming, Unread
  <2>2. DOMAIN log = 1 .. Len(log)
    BY LenProperties DEF IInv, TypeOK
  <2>3. ASSUME NEW c \in Clients PROVE DOMAIN Seen(c) = 1 .. Len(Seen(c))
    <3>1. /\ heard[c] \in Seq(Messages) /\ <<>> \in Seq(Messages)
          /\ pc[c] = "chatting" => queues[key[c]] \in Seq(Messages)
      BY ComingType DEF Unread
    <3>2. Seen(c) \in Seq(Messages)
      BY <3>1, ConcatProperties DEF Seen
    <3> QED
      BY <3>2, LenProperties
  <2>4. \A m, n \in 1 .. Len(log) :
            m < n /\ log[m].id = log[n].id => log[m].text < log[n].text
    BY DEF IInv, SentInOrder
  <2> QED
    BY <2>1, <2>2, <2>3, <2>4 DEF OneOrder, InOrder
<1> QED
  BY <1>1, Invariance, PTL


=============================================================================
