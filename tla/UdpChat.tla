------------------------------- MODULE UdpChat -------------------------------
(***************************************************************************)
(* The chat server lab-12/serwer.c with its clients, klient.c: a thread    *)
(* that receives datagrams, a ping thread and a console thread over the    *)
(* table clients[], guarded by clients_mutex.  A section under the mutex   *)
(* is one action.                                                          *)
(*                                                                         *)
(* Datagrams in flight are a set, so they arrive in any order; one that    *)
(* stays in flight for ever is lost, and the network may deliver one       *)
(* twice.  What the server sends is printed by its clients; only its PINGs *)
(* are answered, and only they are in the model.                           *)
(***************************************************************************)
EXTENDS Naturals, FiniteSets

CONSTANTS Addrs,        \* addresses with port; one klient.c at a time has each
          Nobody,       \* no address
          MAX_CLIENTS,  \* entries of clients[]
          MaxSent       \* bound: datagrams sent or copied, answers to PING aside

ASSUME UdpChatAssumption ==
    /\ Nobody \notin Addrs
    /\ MAX_CLIENTS \in Nat \ {0}
    /\ MaxSent \in Nat

VARIABLES active,    \* clients[i].active
          addr,      \* clients[i].addr
          age,       \* clients[i].last_response: rounds of the ping thread since
          receiver,  \* next statement of fun_clients
          sender,    \* client_addr of the datagram in hand
          request,   \* what it asks for
          slot,      \* the client_id found for it
          target,    \* target_id of a private message
          meant,     \* history: whose entry that was when it was found active
          up,        \* addresses that have a running klient.c
          net,       \* datagrams to the server
          pinged,    \* addresses with a PING under way
          sent,      \* datagrams sent or copied, for MaxSent
          server_running

table   == <<active, addr, age>>
locals  == <<receiver, sender, request, slot, target, meant>>
outside == <<up, net, pinged, sent>>
vars    == <<table, locals, outside, server_running>>

Slots == 0 .. MAX_CLIENTS - 1

\* What a datagram asks for.  PING, LIST, 2ALL and whatever else is unknown
\* leave the table as it is, once last_response is refreshed: "other".
Requests == {"REGISTER", "STOP", "2ONE", "other"}
ReceiverPc == {"recvfrom", "refresh", "handle", "sendToOne"}

Init ==
    /\ active = [i \in Slots |-> FALSE]
    /\ addr = [i \in Slots |-> Nobody]
    /\ age = [i \in Slots |-> 0]
    /\ receiver = "recvfrom"
    /\ sender = Nobody
    /\ request = "other"
    /\ slot = 0
    /\ target = 0
    /\ meant = Nobody
    /\ up = {}
    /\ net = {}
    /\ pinged = {}
    /\ sent = 0
    /\ server_running = TRUE

-----------------------------------------------------------------------------
\* klient.c.  A client started again may get the port of an earlier one.  What
\* clients do once the server has ended is left out.

Send(a, what) ==
    /\ sent < MaxSent
    /\ sent' = sent + 1
    /\ net' = net \cup {<<a, what>>}

Start(a) ==
    /\ server_running /\ a \notin up
    /\ Send(a, "REGISTER")
    /\ up' = up \cup {a}
    /\ UNCHANGED <<table, locals, pinged, server_running>>

\* A line of the user's is sent as it is, REGISTER:name too.  One that only
\* begins with STOP is a STOP for the server and does not end the client.
Type(a) ==
    /\ server_running /\ a \in up
    /\ \E what \in Requests : Send(a, what)
    /\ UNCHANGED <<table, locals, up, pinged, server_running>>

\* The user types STOP or presses Ctrl+C.
Leave(a) ==
    /\ server_running /\ a \in up
    /\ Send(a, "STOP")
    /\ up' = up \ {a}
    /\ UNCHANGED <<table, locals, pinged, server_running>>

Crash(a) ==
    /\ server_running /\ a \in up
    /\ up' = up \ {a}
    /\ UNCHANGED <<table, locals, net, pinged, sent, server_running>>

AnswerPing(a) ==
    /\ server_running /\ a \in up \cap pinged
    /\ pinged' = pinged \ {a}
    /\ net' = net \cup {<<a, "other">>}
    /\ UNCHANGED <<table, locals, up, sent, server_running>>

-----------------------------------------------------------------------------
\* fun_clients.  recvfrom belongs to the section that follows it: no other
\* thread can tell whether the datagram has been read already.

Receive(a, what) ==
    /\ server_running
    /\ receiver = "recvfrom"
    /\ <<a, what>> \in net
    /\ \/ net' = net \ {<<a, what>>} /\ sent' = sent
       \/ net' = net /\ sent < MaxSent /\ sent' = sent + 1

\* register_client: the first free entry, whether or not the address has one.
Register(a) ==
    /\ Receive(a, "REGISTER")
    /\ IF \A i \in Slots : active[i]
       THEN UNCHANGED table
       ELSE \E i \in Slots :
            /\ ~active[i] /\ \A j \in 0 .. i - 1 : active[j]
            /\ active' = [active EXCEPT ![i] = TRUE]
            /\ addr' = [addr EXCEPT ![i] = a]
            /\ age' = [age EXCEPT ![i] = 0]
    /\ UNCHANGED <<locals, up, pinged, server_running>>

EntriesOf(a) == {i \in Slots : active[i] /\ addr[i] = a}

\* A fault: hosts are compared, and ports are not.
FindHost(a, what) ==
    /\ Receive(a, what)
    /\ IF \A i \in Slots : ~active[i]
       THEN UNCHANGED locals
       ELSE /\ \E i \in Slots : active[i] /\ (\A j \in 0 .. i - 1 : ~active[j]) /\ slot' = i
            /\ sender' = a
            /\ request' = what
            /\ receiver' = "refresh"
            /\ UNCHANGED <<target, meant>>
    /\ UNCHANGED <<table, up, pinged, server_running>>

\* find_client_by_addr: the first entry, or the datagram is dropped.
Find(a, what) ==
    /\ Receive(a, what)
    /\ IF EntriesOf(a) = {}
       THEN UNCHANGED locals
       ELSE /\ \E i \in EntriesOf(a) : (\A j \in EntriesOf(a) : i <= j) /\ slot' = i
            /\ sender' = a
            /\ request' = what
            /\ receiver' = "refresh"
            /\ UNCHANGED <<target, meant>>
    /\ UNCHANGED <<table, up, pinged, server_running>>

\* A fault: every entry of the address is refreshed.
RefreshAll ==
    /\ server_running /\ receiver = "refresh"
    /\ receiver' = "handle"
    /\ age' = [i \in Slots |-> IF addr[i] = sender THEN 0 ELSE age[i]]
    /\ UNCHANGED <<active, addr, sender, request, slot, target, meant, outside, server_running>>

\* The mutex has been released in between: the entry may be free by now.
Refresh ==
    /\ server_running /\ receiver = "refresh"
    /\ receiver' = "handle"
    /\ age' = [age EXCEPT ![slot] = 0]
    /\ UNCHANGED <<active, addr, sender, request, slot, target, meant, outside, server_running>>

Handle(what) == server_running /\ receiver = "handle" /\ request = what

\* The locals are not read again after the datagram has been dealt with.
Done ==
    /\ receiver' = "recvfrom"
    /\ sender' = Nobody /\ request' = "other" /\ slot' = 0 /\ target' = 0 /\ meant' = Nobody

Answer ==
    /\ Handle("other")
    /\ Done
    /\ UNCHANGED <<table, outside, server_running>>

Stop ==
    /\ Handle("STOP")
    /\ active' = [active EXCEPT ![slot] = FALSE]
    /\ Done
    /\ UNCHANGED <<addr, age, outside, server_running>>

\* 2ONE: the target is active; sscanf may leave target_id unset.
LookUp(i) ==
    /\ Handle("2ONE")
    /\ active[i]
    /\ target' = i
    /\ meant' = addr[i]
    /\ receiver' = "sendToOne"
    /\ UNCHANGED <<table, sender, request, slot, outside, server_running>>

\* 2ONE with the index of no active entry.
NoTarget ==
    /\ Handle("2ONE")
    /\ Done
    /\ UNCHANGED <<table, outside, server_running>>

\* send_to_client, which looks at the entry again, and the confirmation.
SendToOne ==
    /\ server_running /\ receiver = "sendToOne"
    /\ Done
    /\ UNCHANGED <<table, outside, server_running>>

-----------------------------------------------------------------------------
(***************************************************************************)
(* ping_clients: a round under the mutex.  Rounds are 30 seconds apart or  *)
(* a little more, and times are whole seconds: an entry last refreshed     *)
(* before the previous round may have been silent for more than 60         *)
(* seconds, one refreshed three rounds ago has been.  sendto may fail,     *)
(* which ends a client too.  Nobody reads the age of a free entry.         *)
(***************************************************************************)
MaxAge == 3

\* A fault: silence is compared with the limit one round too late.
OverdueLate(i) == age[i] > MaxAge

Overdue(i) == age[i] = MaxAge

\* A fault: that a PING could be sent counts as a response.
AgeAfterPingZero(i) == 0

AgeAfterPing(i) == age[i] + 1

Ping ==
    /\ server_running
    /\ \E given_up \in SUBSET {i \in Slots : active[i]} :
        /\ \A i \in Slots : active[i] /\ Overdue(i) => i \in given_up
        /\ active' = [i \in Slots |-> active[i] /\ i \notin given_up]
        /\ pinged' = pinged \cup {addr[i] : i \in {j \in Slots : active[j]} \ given_up}
    /\ age' = [i \in Slots |-> IF active'[i] THEN AgeAfterPing(i) ELSE 0]
    /\ UNCHANGED <<addr, locals, up, net, sent, server_running>>

\* STOP on the console (fun_IO), after which main() ends the process.  The
\* console's other commands read the table and change nothing.
Shutdown ==
    /\ server_running
    /\ server_running' = FALSE
    /\ UNCHANGED <<table, locals, outside>>

-----------------------------------------------------------------------------
Client(a) == Start(a) \/ Type(a) \/ Leave(a) \/ Crash(a) \/ AnswerPing(a)

Datagram(a) == Register(a) \/ \E what \in Requests \ {"REGISTER"} : Find(a, what)

Handling ==
    Refresh \/ Answer \/ Stop \/ (\E i \in Slots : LookUp(i)) \/ NoTarget \/ SendToOne

Next ==
    \/ \E a \in Addrs : Client(a) \/ Datagram(a)
    \/ Handling
    \/ Ping
    \/ Shutdown

Spec == Init /\ [][Next]_vars

\* The server's threads run.  No datagram need arrive, no client answer.
FairSpec == Spec /\ WF_vars(Handling) /\ WF_vars(Ping)
-----------------------------------------------------------------------------
\* The type invariant.
TypeOK ==
    /\ active \in [Slots -> BOOLEAN]
    /\ addr \in [Slots -> Addrs \cup {Nobody}]
    /\ age \in [Slots -> 0 .. MaxAge]
    /\ receiver \in ReceiverPc
    /\ sender \in Addrs \cup {Nobody}
    /\ request \in Requests
    /\ slot \in Slots
    /\ target \in Slots
    /\ meant \in Addrs \cup {Nobody}
    /\ up \subseteq Addrs
    /\ net \subseteq Addrs \X Requests
    /\ pinged \subseteq Addrs
    /\ sent \in 0 .. MaxSent
    /\ server_running \in BOOLEAN

(***************************************************************************)
(* find_client_by_addr and the check of a target's entry release the       *)
(* mutex, and the index is used later.  The ping thread may have freed the *)
(* entry by then, but nobody else has it: the refresh, STOP, the sender's  *)
(* name and the private message still concern the client that was found.   *)
(***************************************************************************)
EntriesKept ==
    /\ receiver # "recvfrom" => addr[slot] = sender
    /\ receiver = "sendToOne" => addr[target] = meant

(***************************************************************************)
(* A client that is gone loses its entries, although nobody may have told  *)
(* the server (STOP lost, a crash) and datagrams of its may still arrive,  *)
(* unless a klient.c starts again at its address.                          *)
(***************************************************************************)
GoneAreRemoved ==
    \A a \in Addrs :
        (a \notin up /\ EntriesOf(a) # {})
            ~> (a \in up \/ EntriesOf(a) = {} \/ ~server_running)

(***************************************************************************)
(* A client registered twice does not keep two entries, even one that      *)
(* answers every PING: its answers refresh the first entry only, and the   *)
(* other is given up.                                                      *)
(***************************************************************************)
DuplicatesAreRemoved ==
    \A a \in Addrs :
        Cardinality(EntriesOf(a)) > 1
            ~> (Cardinality(EntriesOf(a)) <= 1 \/ ~server_running)
=============================================================================
