---------------------------- MODULE UdpChatProofs ----------------------------
(***************************************************************************)
(* Proofs, for every set of addresses, every size of clients[] and any     *)
(* number of datagrams, of the invariants of UdpChat.                      *)
(***************************************************************************)
EXTENDS UdpChat, TLAPS

(***************************************************************************)
(* The inductive invariant.  That the ping thread sends its PINGs to       *)
(* addresses needs ActiveNamed, and EntriesKept needs that an entry is     *)
(* written only by a receiver that has no index in hand, which is how the  *)
(* code is sequenced.                                                      *)
(***************************************************************************)
ActiveNamed == \A i \in Slots : active[i] => addr[i] # Nobody

IInv == TypeOK /\ ActiveNamed /\ EntriesKept

\* The initial states satisfy the inductive invariant.
LEMMA InitInv == Init => IInv
  BY UdpChatAssumption
     DEF Init, IInv, TypeOK, ActiveNamed, EntriesKept, Slots, Requests, ReceiverPc, MaxAge

\* What clients do leaves the server's table and its locals alone.
LEMMA ClientStep ==
    ASSUME IInv, NEW a \in Addrs, Client(a)
    PROVE  IInv'
<1> USE UdpChatAssumption DEF IInv, TypeOK, ActiveNamed, EntriesKept, table, locals
<1>1. CASE Start(a)
  BY <1>1 DEF Start, Send, Requests
<1>2. CASE Type(a)
  BY <1>2 DEF Type, Send, Requests
<1>3. CASE Leave(a)
  BY <1>3 DEF Leave, Send, Requests
<1>4. CASE Crash(a)
  BY <1>4 DEF Crash
<1>5. CASE AnswerPing(a)
  BY <1>5 DEF AnswerPing, Requests
<1> QED
  BY <1>1, <1>2, <1>3, <1>4, <1>5 DEF Client

\* A datagram taken from the network: it may be there again later.
LEMMA ReceiveTyped ==
    ASSUME TypeOK, NEW a, NEW what, Receive(a, what)
    PROVE  /\ a \in Addrs /\ what \in Requests
           /\ net' \subseteq Addrs \X Requests /\ sent' \in 0 .. MaxSent
  BY UdpChatAssumption DEF TypeOK, Receive

\* A registration writes to an entry, but not while one is in use.
LEMMA RegisterStep ==
    ASSUME IInv, NEW a \in Addrs, Register(a)
    PROVE  IInv'
<1>1. TypeOK /\ Receive(a, "REGISTER") /\ receiver = "recvfrom"
  BY DEF IInv, Register, Receive
<1>2. /\ active' \in [Slots -> BOOLEAN]
      /\ addr' \in [Slots -> Addrs \cup {Nobody}]
      /\ age' \in [Slots -> 0 .. MaxAge]
      /\ \A i \in Slots : active'[i] => addr'[i] # Nobody
  <2>1. CASE UNCHANGED table
    BY <1>1, <2>1 DEF IInv, TypeOK, ActiveNamed, table
  <2>2. CASE \E i \in Slots : /\ active' = [active EXCEPT ![i] = TRUE]
                             /\ addr' = [addr EXCEPT ![i] = a]
                             /\ age' = [age EXCEPT ![i] = 0]
    BY <1>1, <2>2, UdpChatAssumption DEF IInv, TypeOK, ActiveNamed, MaxAge
  <2> QED
    BY <2>1, <2>2 DEF Register
<1>3. TypeOK' /\ ActiveNamed'
  BY <1>1, <1>2, ReceiveTyped DEF Register, TypeOK, ActiveNamed, locals
<1>4. EntriesKept'
  BY <1>1 DEF Register, EntriesKept, locals
<1> QED
  BY <1>3, <1>4 DEF IInv

\* The index a datagram's sender is found at is that of an entry of its own.
LEMMA FindStep ==
    ASSUME IInv, NEW a \in Addrs, NEW what \in Requests \ {"REGISTER"}, Find(a, what)
    PROVE  IInv'
<1>1. TypeOK /\ Receive(a, what) /\ receiver = "recvfrom"
  BY DEF IInv, Find, Receive
<1>2. CASE EntriesOf(a) = {}
  BY <1>1, <1>2, ReceiveTyped
     DEF Find, IInv, TypeOK, ActiveNamed, EntriesKept, table, locals
<1>3. CASE EntriesOf(a) # {}
  <2>1. /\ slot' \in Slots /\ addr[slot'] = a
        /\ sender' = a /\ request' = what /\ receiver' = "refresh"
        /\ target' = target /\ meant' = meant
    BY <1>3 DEF Find, EntriesOf
  <2>2. addr' = addr /\ active' = active /\ age' = age
    BY DEF Find, table
  <2>3. TypeOK' /\ ActiveNamed'
    BY <1>1, <2>1, <2>2, ReceiveTyped
       DEF Find, IInv, TypeOK, ActiveNamed, ReceiverPc
  <2>4. EntriesKept'
    BY <2>1, <2>2 DEF EntriesKept
  <2> QED
    BY <2>3, <2>4 DEF IInv
<1> QED
  BY <1>2, <1>3

\* The steps between find_client_by_addr and the next recvfrom.
LEMMA HandlingStep ==
    ASSUME IInv, Handling
    PROVE  IInv'
<1> USE UdpChatAssumption DEF IInv, TypeOK, ActiveNamed, EntriesKept, table, outside
<1>1. CASE Refresh
  BY <1>1 DEF Refresh, ReceiverPc, MaxAge
<1>2. ASSUME Done, UNCHANGED <<addr, age, outside, server_running>>,
             active' \in [Slots -> BOOLEAN], \A i \in Slots : active'[i] => active[i]
      PROVE  IInv'
  BY <1>2 DEF Done, ReceiverPc, Requests, Slots
<1>3. CASE Answer
  BY <1>2, <1>3 DEF Answer
<1>4. CASE Stop
  BY <1>2, <1>4 DEF Stop
<1>5. ASSUME NEW i \in Slots, LookUp(i)
      PROVE  IInv'
  BY <1>5 DEF LookUp, Handle, ReceiverPc
<1>6. CASE NoTarget
  BY <1>2, <1>6 DEF NoTarget
<1>7. CASE SendToOne
  BY <1>2, <1>7 DEF SendToOne
<1> QED
  BY <1>1, <1>3, <1>4, <1>5, <1>6, <1>7 DEF Handling

\* A round of the ping thread frees entries but gives none away, and leaves no
\* active entry unanswered for longer than MaxAge.
LEMMA PingStep ==
    ASSUME IInv, Ping
    PROVE  IInv'
<1>1. PICK given_up \in SUBSET {i \in Slots : active[i]} :
        /\ \A i \in Slots : active[i] /\ Overdue(i) => i \in given_up
        /\ active' = [i \in Slots |-> active[i] /\ i \notin given_up]
        /\ pinged' = pinged \cup {addr[i] : i \in {j \in Slots : active[j]} \ given_up}
  BY DEF Ping
<1>2. /\ age' = [i \in Slots |-> IF active'[i] THEN AgeAfterPing(i) ELSE 0]
      /\ UNCHANGED <<addr, locals, up, net, sent, server_running>>
  BY DEF Ping
<1>3. TypeOK /\ ActiveNamed
  BY DEF IInv
<1>4. active' \in [Slots -> BOOLEAN] /\ \A i \in Slots : active'[i] => active[i]
  BY <1>1
<1>5. age' \in [Slots -> 0 .. MaxAge]
  <2>1. ASSUME NEW i \in Slots, active'[i]
        PROVE  AgeAfterPing(i) \in 0 .. MaxAge
    <3>1. ~Overdue(i) /\ age[i] \in 0 .. 3
      BY <1>1, <1>3, <2>1 DEF TypeOK, MaxAge
    <3> QED
      BY <3>1 DEF Overdue, AgeAfterPing, MaxAge
  <2> QED
    BY <1>2, <2>1 DEF MaxAge
<1>6. pinged' \subseteq Addrs
  BY <1>1, <1>3 DEF TypeOK, ActiveNamed
<1>7. TypeOK' /\ ActiveNamed'
  BY <1>2, <1>3, <1>4, <1>5, <1>6 DEF TypeOK, ActiveNamed, locals
<1>8. EntriesKept'
  BY <1>2 DEF IInv, EntriesKept, locals
<1> QED
  BY <1>7, <1>8 DEF IInv

\* Every step keeps the inductive invariant.
LEMMA InductiveStep == IInv /\ [Next]_vars => IInv'
<1> SUFFICES ASSUME IInv, [Next]_vars PROVE IInv'
  OBVIOUS
<1>1. ASSUME NEW a \in Addrs, Datagram(a) PROVE IInv'
  BY <1>1, RegisterStep, FindStep DEF Datagram
<1>2. CASE Shutdown
  BY <1>2
     DEF Shutdown, IInv, TypeOK, ActiveNamed, EntriesKept, table, locals, outside
<1>3. CASE UNCHANGED vars
  BY <1>3 DEF vars, IInv, TypeOK, ActiveNamed, EntriesKept, table, locals, outside
<1> QED
  BY <1>1, <1>2, <1>3, ClientStep, HandlingStep, PingStep DEF Next

-----------------------------------------------------------------------------
\* IInv holds in every reachable state.
THEOREM Invariance == Spec => []IInv
<1>1. Init => IInv
  BY InitInv
<1>2. IInv /\ [Next]_vars => IInv'
  BY InductiveStep
<1> QED
  BY <1>1, <1>2, PTL DEF Spec

(***************************************************************************)
(* The server's tables stay of their type: above all, no active entry goes *)
(* unanswered for more than MaxAge rounds of the ping thread, because the  *)
(* round that finds it so gives it up (lab-12/serwer.c:318).               *)
(***************************************************************************)
THEOREM TypeCorrect == Spec => []TypeOK
<1>1. IInv => TypeOK
  BY DEF IInv
<1> QED
  BY <1>1, Invariance, PTL

(***************************************************************************)
(* The indices the receiver keeps across sections of clients_mutex still   *)
(* are the entries of the clients they were found for, whatever the ping   *)
(* thread frees in between (lab-12/serwer.c:130 and 196).                  *)
(***************************************************************************)
THEOREM IndicesStayValid == Spec => []EntriesKept
<1>1. IInv => EntriesKept
  BY DEF IInv
<1> QED
  BY <1>1, Invariance, PTL
=============================================================================
