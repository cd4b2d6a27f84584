# Verification of operating-systems-in-c

The repository holds the solutions of a course on operating systems: small C
programs, one directory per topic. Most are sequential. The ones below are
concurrent, and this project models those: a print queue of processes over
shared memory and semaphores, a clinic of threads over mutexes and condition
variables, a chat over System V message queues, chat servers over TCP and over
UDP, and two programs that talk by signals.

Contents: [inventory](#inventory), [plan](#plan), [modules](#modules),
[runs](#runs), [disagreements found](#disagreements-found),
[fairness](#fairness), [proofs](#proofs),
[what is not modelled](#what-is-not-modelled), [running it](#running-it).

## Inventory

| component | state | operations | who interacts, how | hard part |
|---|---|---|---|---|
| print queue, `lab-8/zad.c` | ring `queue`, `head`, `tail`, `count` in shared memory; semaphores `sem_queue`, `sem_empty`, `sem_full` | user loop: make, wait, copy in, post; printer loop: wait, copy out, post, print | N + M forked processes, through shared memory | each statement of one process interleaves with all others; the semaphore of places is taken before the lock and given back after it |
| print programs, `lab-8/user.c`, `printer.c` | the same, in named objects that outlive the programs | start (clears the ring, opens semaphores that keep their values), the two loops, death by a signal | any number of programs started at any time | a start clears a ring in use; a program dies with a place or with the lock |
| clinic, `lab-10/zad.c` | `oczekujacy_pacjenci`, `id_pacjentow_w_kolejce`, `leki`, `farmaceuta_czeka`; three mutexes that matter, three condition variables | patient: sit, wake the doctor, wait; pharmacist: wait, ring, wait; doctor: consult, restock | threads, through mutexes and conditions | conditions read without their mutexes, a condition waited for under a mutex the signallers do not hold, two mutexes at once |
| queue chat, `lab-7/serwer.c`, `klient.c` | a kernel queue per program, table `klienci` | register, broadcast; make a queue, ask for an id, say, hear | processes, through message queues | messages dropped when a queue is full, queues that outlive their programs, replies and broadcasts of one type |
| TCP chat, `lab-11/serwer.c`, `klient.c` | table `clients[]`, descriptors | accept and register, a thread per client, ping, console | threads of one process, through the table and a mutex; clients, through TCP | entries and descriptors are reused while threads of earlier clients still use them |
| UDP chat, `lab-12` | table `clients[]` by address | register, commands, ping, console | threads of one process; clients, through datagrams | loss, duplication and reordering; an index used after its mutex is released |
| signals, `lab-5` | `mode`, `count`, dispositions, masks | handler, mode switch; send and await the confirmation | two processes, through queued signals | a handler between any two statements |
| integration, `lab-6`, `lab-9` | pipes, FIFOs, `wynik[]` | fork or create, compute, collect | fork and join | failure of one part |
| flipper `lab-3`, Collatz `lab-2`, fork and exec `lab-4`, countdown `lab-1` | none that is shared | sequential | none | boundaries |

What makes each correct:

* **Print queue**: one process at a time in the ring; no task overwritten
  before it is taken, none taken twice or from an empty slot; tasks leave in the
  order they came; each is taken in the end. All of it rests on three semaphores
  and three integers agreeing at every statement.
* **Print programs**: exclusion and the account of places survive death and
  restart; what does not survive is stated and shown.
* **Clinic**: seats, ids and the counter agree; the doctor acts only when what it
  saw still holds; patients who were seen go home; the doctor never hangs while
  it holds two mutexes.
* **Queue chat**: ids are the clients' own; all clients see one order; a dead or
  slow client stops nobody.
* **TCP chat**: descriptors are neither leaked nor shared; every entry has a
  thread; a client that leaves loses its entry.
* **UDP chat**: what is done for a datagram is done to the entry of the client it
  came from; nobody keeps an entry by being gone, or two by registering twice.
* **Signals**: a sender that is told its signal arrived is told the truth, and none
  misses the answer; `count` is the number of modes carried out.

The hazards behind these, each at its line, are in `PROJECT.json`.

## Plan

Done, in this order: `PrintSpool` and `PrintQueue` (the clearest protocol, and the
one to prove about first), `PrintPrograms` (its environment), `PrintQueueProofs`,
`Clinic`, `ChatQueues`, `TcpChat`, `UdpChat`, `Signals`, and `ClinicCare`, the
abstract specification of the clinic; then the proofs of every safety invariant and
of both refinements: `PrintSpoolProofs`, `UdpChatProofs`, `SignalsProofs`,
`PrintProgramsProofs`, `ClinicProofs`, `TcpChatProofs`, `ChatQueuesProofs`.

Left: theorems on what single steps may never do, from the same inductive
invariants (a descriptor is closed only by its owner or, as `tcp_chat_own` shows, by
a thread whose entry was given away; a registered client of the queue chat is never
renumbered). Liveness stays with TLC.

Modules are written for both tools: constants carry named assumptions, one action
per operation, invariants are conjunctions of named parts, and no module declares
a RECURSIVE operator.

## Modules

Conventions: names of variables are those of the C code. `pc` (or `thread`,
`acceptor`, `serverPc`) is the statement a process executes next, and its values
name that statement. An action is one statement that touches shared state, or a
section under one mutex when everything it touches is only ever touched under
that mutex. Operators introduced by "A fault:" are variants of the definition
after them, each with a plausible bug; `PROJECT.json` says which property finds
which. MC modules only give TLC a root module; the constants are in the `.cfg`
files.

### `PrintSpool`, `PrintQueue`

`PrintQueue` is `lab-8/zad.c` after the forks. `queue`, `head`, `tail`, `count` are
the struct in shared memory, `semQueue`, `semEmpty`, `semFull` the values of the
semaphores, `task[p]` the local buffer of a process. Each statement of the two
loops is an action: `MakeTask`, `WaitEmpty`, `LockQueue`, `PutTask`, `AdvanceTail`,
`IncCount`, `UnlockQueue`, `PostFull` for a user; `WaitFull`, `LockQueue`, `TakeTask`,
`AdvanceHead`, `DecCount`, `UnlockQueue`, `PostEmpty`, `PrintTask` for a printer.
`count++` and the like are one step: two processes never execute them at once, which
`MutualExclusion` shows of the statements themselves. A task, ten random letters in
the code, is a member of `Tasks`.

`PrintSpool` is what the loops promise: a sequence of at most `Capacity` jobs, filled
at one end and emptied at the other. The refinement mapping reads the spool off the
ring: it starts at `head` (one further while a printer has copied its task and not
moved `head`) and is as long as `count`, corrected for the processes between their
copy and their `count++` or `count--`.

### `PrintPrograms`

`lab-8/user.c` and `printer.c` run the loops of `zad.c` (the lines are the same) and
differ in how they begin and end. `Start` maps the memory, `ResetHead`, `ResetTail`,
`ResetCount` are its three stores of 0 made without the lock; `sem_open(O_CREAT)`
leaves an existing semaphore alone, so the semaphores keep their values. A store of 0
and a read-modify-write of another program on the same variable are a data race: the
store may be lost, and the model leaves both outcomes open (`Racing`). `Kill` is a
signal at any statement; the clean-up after the endless loop is unreachable in the
code and has no action. `lost` is a history variable, the number of programs that died
between their two semaphores.

### `Clinic`

`lab-10/zad.c`. A thread that blocks in `pthread_cond_wait` has released the mutex and
is at a label of its own; a signal, a broadcast or a spurious wakeup moves it to the
statement that takes the mutex back. `mutex_lekarz` has no variable: only the doctor
locks it, so it excludes nobody, and this is why the check (`Check`) and the wait
(`FallAsleep`) are two steps with anything in between. The doctor's reads are without
the mutexes of what it reads; each check is one step although it reads several
variables, because the doctor alone writes `leki`, and the value of `leki` decides
which one of the other two the outcome depends on. `SEATS` is the 3 of the code, which
is also the medicine of one consultation; a delivery fills the cabinet to 6, `2 * SEATS`.
`consulted` is a history variable: the patients the seats named when the doctor cleared them.
`cond_konsultacja` is initialised with the mutex initialiser (line 17); both are
zeros with the library the programs are built for, and the model takes it for
initialised.

### `ChatQueues`

`lab-7/serwer.c` and `klient.c`. Queues hold a bounded number of messages, all of one
size. The server polls its queue for INIT, then for CONNECTED, never waiting; `msgrcv`
takes the oldest message of a type from anywhere in the queue. `Put` is `msgsnd` with
`IPC_NOWAIT`: a message that does not fit is dropped. A client makes its queue with
`IPC_EXCL` under a key of `ftok`, whose values (`Keys`) may be fewer than the clients;
its INIT and its messages wait for room in the server's queue. Parent and child are
two actions, `Say` and `Hear`, that may interleave. `Kill` ends both and leaves the
queue. `None` is neither a queue nor an id (`NoneAssumption`). In `Spec`, `MaxSaid` ends what a
client says. In `EndlessSpec` it bounds what is remembered instead: when no message of a
client is in the server's queue, in the server's hands or in the queue of a client that may
yet read it (`OnItsWay`), its messages may be taken out of the count and the histories
(`Forget`), and it goes on. The code has no such step and no guard of it reads these variables. The branch for an INIT with
id -1 (line 43) is left out: the client exits before it could send one. `heard` and `log`
are history variables.

### `TcpChat`

`lab-11/serwer.c` with what it can notice of `klient.c`. `active` and `socket` are the
fields of `clients[]`; `fds` maps descriptor numbers to connections, and `accept` returns
the lowest free one, as the kernel does. A section under `clients_mutex` is one action;
what `fun_client` does outside of it is not: it evaluates `clients[client_id].socket`
(`FetchSocket`) and calls `read` (`CallRead`) in two steps, for the entry and then the
descriptor may change hands in between, and `read` keeps the connection it was called on
even when the descriptor is closed under it. `read` returns a prefix of what has
arrived, of which only the first command is obeyed. `2ONE` compares a `target_id` that
is never assigned: any number. The ping thread may find any client silent for two
intervals. A write to a connection that has ended is answered with a reset; the next
one raises SIGPIPE, which nobody handles, and `running` becomes FALSE, as it does when the
console stops the server. PING and LIST are one command, answered to the sender.

### `UdpChat`

`lab-12/serwer.c` and what reaches it from `klient.c`. `active`, `addr` and `age` are the
fields of `clients[]`; `net` is the set of datagrams under way to the server. A datagram
may be received whenever it is in the set, in any order, never (it is lost) or again (the
network made a copy). `fun_clients` looks the sender up under the mutex (`Find`), takes it
again to set `last_response` (`Refresh`), and then deals with the request (`Answer`, `Stop`,
`LookUp`, `SendToOne`); the ping thread's round may fall between any two of these. A
registration (`Register`) is one section. `last_response` is seconds in the code; the only
use of it is the comparison with 60 in rounds 30 seconds apart, so `age` counts rounds. An
entry may be found overdue from the second round after its refresh, by rounding and by
rounds that start late, and is certainly overdue in the fourth (`Overdue`); a `sendto` that
fails ends a client at any age. The bodies of texts are left out: PING, LIST, 2ALL and
unknown requests do the same to the table once the sender is refreshed. Of the
console thread `STOP` is modelled, which ends the server; its other commands read the table. A
line that begins with STOP without being STOP is one for the server (`strncmp`, line 144) and
not for the client that typed it (`strcmp`, `klient.c:111`), which runs on (`Type`).

### `Signals`

`lab-5/zad2catcher.c` and any number of runs of `zad2sender.c`. The catcher is a loop
(`catcher`) and a handler (`handling`): while the handler is at work the loop stands still,
and the handler may begin before any statement of the loop. SIGUSR1 is not queued: one that
finds another pending is merged into it (`Merge`), though `sigqueue` reports success. The
handler's two assignments are one step, `Take`, since nothing of the catcher runs in
between; its `kill` is `Confirm`. A sender blocks SIGUSR1 and sends (`Queue`, one step:
nobody signals it before it has sent), installs its handler, and calls `sigsuspend`, which
alone lets the confirmation in. Before a handler is installed SIGUSR1 kills, the catcher
as well as a sender. `sa_flags` of the SIGINT handler is assigned after `sigaction` was
called and holds anything at the call: the handler may be for one signal only
(`SetSigint`). `merged`, `idle`, `busy`, `doing` and `obeyed` are history variables.

### `ClinicCare`

What the clinic promises: a waiting room of at most `RoomSize`, emptied by treating all who
are in it, at once and each patient once, with medicine for all of them; a cabinet that is
filled to twice that when it holds less. `Clinic` implements it (`ImplementsCare`): who waits is
read off the patients and the seats, who has been treated is `consulted`; sitting down, the
consultation and the restocking map to its three steps, every other statement to a stutter.

## Runs

| run | instance | states | shows |
|---|---|---|---|
| `print_queue` | 2 users, 2 printers, 2 slots, 2 tasks | 128,115 | `TypeOK`, `MutualExclusion`, `RingConsistent`, `IndicesApart`; that the loops implement the spool (`ImplementsSpool`); that each task on offer is taken (`TasksAreTaken`) |
| `print_programs` | 2 users, 1 printer, 2 slots | 176,976 | `ProgramsTypeOK` (which bounds how far lost updates move `count`, not that it is right); `RestartsExclude`; `PlacesAccounted`; `WedgedForever` |
| `print_programs_task` | the same | | finds `PrinterFindsTask` violated |
| `clinic` | 4 patients, 2 pharmacists, 2 seats | 1,832,262 | `TypeOK`, `SeatsMatch`, `ChoiceStillHolds`; that the threads implement the rounds of care (`ImplementsCare`) |
| `clinic_live` | 3 patients, 1 pharmacist, 2 seats | 12,724 | `ConsultedGoHome`, `CareCompletes` |
| `clinic_room` | 2 patients, 1 pharmacist, 2 seats | | finds `FullRoomIsSeen` violated |
| `clinic_cabinet` | 2 patients, 2 pharmacists, 1 seat | | finds `EmptyingIsNoticed` violated |
| `chat_queues` | 2 clients, 2 keys, queues of 2, 2 messages of each remembered | 519,470 | `TypeOK`, `IdsMatch`, `OneOrder`, `EveryMessageIsBroadcast`, `ClientsGetIds`, under `EndlessSpec` |
| `tcp_chat` | 2 connections, 1 entry, 1 command each | 710,770 | `TypeOK`, `FdsAccounted`, `EntriesServed`, `LeaversAreRemoved` |
| `tcp_chat_own` | the same | | finds `ClosesItsOwn` violated |
| `udp_chat` | 2 addresses, 2 entries, 3 datagrams | 297,218 | `TypeOK`, `EntriesKept`, `GoneAreRemoved`, `DuplicatesAreRemoved` |
| `signals` | 3 senders | 439,102 | `TypeOK`, `ObeyedOnce`, `ConfirmedWereTaken`, `SendersAreConfirmed` |

What they say, property by property:

* `MutualExclusion`, `RingConsistent`, `IndicesApart`: at no statement of any process do
  the semaphores, `count` and the indices disagree by more than the processes between
  two of their statements account for; so a user never copies onto a waiting task and a
  printer never copies from an empty ring.
* `ImplementsSpool`: tasks leave in the order they came, each once.
* `TasksAreTaken`: under weak fairness only. Users and printers may overtake each other
  at the semaphores, but the ring is bounded.
* `RestartsExclude`, `PlacesAccounted`, `WedgedForever`: restarts cost exclusion nothing,
  precisely because the semaphores are not initialised again; the price is that a place
  dies with its holder and that a lock whose holder died is never free again.
* `SeatsMatch`: the first `oczekujacy_pacjenci` seats hold different patients who know
  their own seat, and all other seats are empty; and a patient misses its id in its seat, or
  has gone home, exactly when the doctor has called it in (`consulted`). So the loop a patient
  leaves when its seat holds another id (`zad.c:69`) lets it go after its consultation and
  never before, whoever sits in that seat by then.
* `ChoiceStillHolds`: what the doctor decides on unlocked reads is still true under the
  locks. It holds because only the doctor lowers the waiting room, resets the bell and
  touches the cabinet, and a full room admits nobody.
* `ConsultedGoHome`: all consulted patients leave, although the broadcast comes after the
  unlock and their seats may be taken again by then.
* `CareCompletes`: the doctor gets both of its mutexes.
* `IdsMatch`: a client's id is its own, the entry that holds the client's queue; it depends on
  `IPC_EXCL` and on the id being the first message of the queue.
* `OneOrder`: what a client has heard and will hear is a subsequence of the server's log,
  and the messages of one client are logged in the order it sent them.
* `EveryMessageIsBroadcast`: clients that die or stop reading do not stop the server.
* `ClientsGetIds`: talkers do not starve newcomers, though they may talk for ever: the server
  polls for INIT between every two broadcasts. A server that took messages as long as there
  are any would break it. The stream is endless where its listeners read, or are dead; a living
  client that never reads is in the run with two messages of each client.
* `FdsAccounted`: an open descriptor belongs to exactly one active entry or to the
  connection the acceptor holds, and no connection has two, whichever of the four
  closing places runs.
* `EntriesServed`: the connection of an active entry has a thread at work for that entry,
  or about to be made.
* `LeaversAreRemoved`: the thread of a client that leaves finds out and frees its entry.
* `ImplementsCare`: a round treats exactly the patients who wait, none twice, and never
  without the medicine, although the doctor looks at the room, at the cabinet and at the
  bell without their mutexes and patients come and go between the statements.
* `EntriesKept`: the index that `find_client_by_addr` returns is used after the mutex is
  released, and the ping thread may free the entry in between; it cannot come to belong to
  another client, because the thread that holds the index is the only one that gives
  entries away.
* `GoneAreRemoved`: a client whose STOP is lost, or that crashed, loses its entries, though
  its datagrams may still arrive late or twice and register it again or refresh it.
* `DuplicatesAreRemoved`: an address that registered twice ends with at most one entry, even
  when it answers all PINGs: both entries are pinged, but every answer refreshes the first.
* `ObeyedOnce`: a mode is carried out at most once and counted when it is, and only one that
  was taken between two others; one that came while another was carried out has been
  confirmed all the same.
* `ConfirmedWereTaken`: a sender that ends with success had its own signal taken, not the
  one its signal was merged into.
* `SendersAreConfirmed`: with SIGUSR1 blocked from before `sigqueue` to `sigsuspend`, an
  answer that comes before the sender waits for it is not missed.

**Bounds.** Two slots are the least ring in which the indices differ, wrap and collide;
with two users and two printers each semaphore has contenders of both kinds and of one
kind. Every safety property and both refinements are proved for all bounds (see
[proofs](#proofs)); the runs check what the proofs do not cover, liveness, find the
disagreements below, and exercise every action. Two seats, with more patients than seats,
reach a full room, a patient turned away and a seat reused by another patient, and the
four patients take two consultations, after which the cabinet is empty again; two
pharmacists reach a delivery that finds the cabinet full. Client queues of two messages
overflow when a client does not read two messages of each of two clients. One entry for
two connections makes every reuse of an entry and of a descriptor happen, and the
refusal of a client; the cost is that a broadcast to *other* clients has no receiver in this
instance (the console's broadcast and the ping do write to the entry). `MaxSent` bounds only how
much UDP clients send, `MaxSaid` how much of what is said in the queue chat is remembered: a
stream that ends would hide starvation, so `chat_queues` checks `EndlessSpec`.

Two addresses and two entries of the UDP chat reach a full table, a duplicate
registration with and without room for another client, and an entry reused by another
address; three datagrams are enough for a registration that is lost, one that arrives after
the STOP sent later, one that arrives twice, and a private message between two registered
clients; answers to PING are not counted, so a client can stay for ever. Three senders
reach a signal that is pending while another is taken and a third is merged into it.

**Deadlock** is checked for the print queue, the print programs and the queue chat, whose
loops never end. The clinic ends when everyone is home (and may hang, see below), and the
TCP and UDP servers end with `STOP`, and senders end, as the catcher does: their
configurations switch the check off.

## Disagreements found

* **A printer copies a slot no user has filled** (`print_programs_task`). `user.c:35` and
  `printer.c:40` clear `head` and `tail` of a ring in use. A printer that starts after a user
  has put a task into slot 0 moves `tail` back there; the user's next task overwrites the
  first one, `sem_full` lets a printer in for both, and the second copy is of slot 1, which
  nobody has filled.
* **The doctor can sleep for ever beside a full room** (`clinic_room`). The patient who fills
  the room signals `cond_lekarz` under another mutex than the one the doctor checks and
  waits under (`zad.c:63`, `116`, `117`): the signal may come between check and wait.
* **A pharmacist waiting for the cabinet to be emptied is not told** (`clinic_cabinet`).
  The consultation broadcasts `cond_konsultacja` only (`zad.c:140`).
* **A thread closes another client's socket** (`tcp_chat_own`). The ping thread frees the
  entry of a silent client whose thread is still in `read()`; the acceptor gives the entry
  to a new client; the old thread then ends and closes the entry's socket
  (`serwer.c:141`). `FdsAccounted`, `EntriesServed` and `LeaversAreRemoved` still hold: the
  new client is cut off, but nothing leaks.
Seen in the code while modelling, and not among the runs; but for the first two no text of the
repository says otherwise, and each is in `PROJECT.json` as a hazard:

* The UDP server answers "Wiadomość wysłana" (`lab-12/serwer.c:206`) to a private message that
  was not sent: it finds the target active (`191`), the ping thread frees the entry, and
  `send_to_client` (`38`) sends nothing. It is the worst that can happen there: the entry
  cannot be another client's (`EntriesKept`).
* The console's `2ONE` does the same beside the receiving thread: between the look-up
  (`263`–`267`) and the sending (`277`) the entry may be freed and given to a client that
  registers. That client gets the message, while the console prints the name of the first
  (`278`). `UdpChat` has neither the console's look-up nor the texts that are sent.
* A signal merged into another leaves its sender waiting for ever: `merged` is the exception
  in `SendersAreConfirmed`.
* A mode sent while mode 2 loops only ends the loop: it is confirmed and wiped out
  (`zad2catcher.c`), a request to end included. `ObeyedOnce` says so of every mode that comes
  while another is carried out.
* A pharmacist rings after it has released `mutex_leki` (`lab-10/zad.c:92`–`97`): another
  delivery may have filled the cabinet by then. The bell stays set, and the next time the
  cabinet is low the doctor fills it though nobody brings anything.

## Fairness

* Print queue: weak fairness of each process. The kernel schedules every process, but
  `sem_wait` promises no order among those who wait, so no strong fairness.
* Clinic: weak fairness of each thread's own steps, strong fairness of taking a mutex. Each
  holder but the doctor unlocks after a few statements and sleeps or waits before it locks
  again, and threads that wait for a mutex are woken when it is released; the doctor is a
  single thread and holds the mutexes while it sleeps, but returns only when there is new
  work. Spurious wakeups happen but are never relied on.
* Queue chat: weak fairness of the server, which polls for ever, and of a client woken by
  its id. No client is assumed to read, to speak or to live.
* TCP chat: weak fairness of the client threads and of making a thread for a registered
  client. No fairness of clients, of the clock (ping) or of the console. The model's writes
  do not block: `LeaversAreRemoved` is about clients that leave, not about one that lets
  its receive buffer fill up while the server writes to it under the mutex.
* UDP chat: weak fairness of the receiving thread once it holds a datagram, and of the ping
  thread, which runs in rounds for ever. No fairness of the network, of the clients or of
  the console: the liveness properties hold when every datagram is lost.
* Signals: weak fairness of the handler (a pending signal is delivered), of the catcher's
  loop and of each sender. The user's Ctrl+C need not come.

## Proofs

Every safety invariant the runs check, the action property `WedgedForever` and both
refinements are theorems: they hold for every value of the constants that satisfies the
assumptions below, not only in the instances of the runs. Each inductive invariant was
checked by TLC before it was proved.

| module | theorem | states | with |
|---|---|---|---|
| `PrintQueueProofs` | `Invariance` | `Spec => []IInv` | any finite sets of users and printers, any tasks, any ring size |
| | `TypeCorrect` | `Spec => []TypeOK` | |
| | `CriticalAlone` | `Spec => []MutualExclusion` | |
| | `RingCorrect` | `Spec => []RingConsistent` | |
| | `NothingOverwritten` | `Spec => []IndicesApart` | |
| `PrintSpoolProofs` | `Implementation` | `Spec => ImplementsSpool` | the same |
| `PrintProgramsProofs` | `ProgramsInvariance` | `ProgramsSpec => []ProgramsInv` | the same |
| | `ProgramsTypeCorrect` | `ProgramsSpec => []ProgramsTypeOK` | |
| | `RestartsSafe` | `ProgramsSpec => []RestartsExclude` | |
| | `PlacesCorrect` | `ProgramsSpec => []PlacesAccounted` | |
| | `WedgedStays` | `ProgramsSpec => WedgedForever` | |
| `ClinicProofs` | `Invariance` | `Spec => []IInv` | any patients and pharmacists, any number of seats |
| | `TypeCorrect` | `Spec => []TypeOK` | |
| | `SeatsCorrect` | `Spec => []SeatsMatch` | |
| | `ChoicesHold` | `Spec => []ChoiceStillHolds` | |
| | `Implementation` | `Spec => ImplementsCare` | |
| `ChatQueuesProofs` | `Invariance` | `Spec => []IInv` | up to 100 clients (the size of `klienci`), any keys and sizes of queues |
| | `TypeCorrect` | `Spec => []TypeOK` | |
| | `IdsCorrect` | `Spec => []IdsMatch` | |
| | `OneOrderForAll` | `Spec => []OneOrder` | |
| `TcpChatProofs` | `Invariance` | `Spec => []IInv` | any connections, any size of the table |
| | `TypeCorrect` | `Spec => []TypeOK` | |
| | `FdsCorrect` | `Spec => []FdsAccounted` | |
| | `EntriesAreServed` | `Spec => []EntriesServed` | |
| `UdpChatProofs` | `Invariance` | `Spec => []IInv` | any addresses, any size of the table |
| | `TypeCorrect` | `Spec => []TypeOK` | |
| | `IndicesStayValid` | `Spec => []EntriesKept` | |
| `SignalsProofs` | `Invariance` | `Spec => []IInv` | any finite set of senders |
| | `TypeCorrect` | `Spec => []TypeOK` | |
| | `ModesObeyedOnce` | `Spec => []ObeyedOnce` | |
| | `SuccessIsTrue` | `Spec => []ConfirmedWereTaken` | |

**Assumptions.** Nothing but the named assumptions of the modules: `PrintQueueAssumption`,
`ClinicAssumption`, `ChatQueuesAssumption` and `NoneAssumption`, `TcpChatAssumption`,
`UdpChatAssumption`, `SignalsAssumption`. They say that sizes are positive numbers, that
kinds of threads are disjoint, that the markers for "nobody" and "nothing" are no thread, key,
message or number, and, where processes are counted, that there are finitely many. The
100 clients of `ChatQueuesAssumption` are the array `klienci[100]`, which the code does
not check. The bounds of the models, `MaxSaid` and `MaxSent`, may be any number.

Each proof has a lemma per kind of step and, under it, a step per action and one per
conjunct the action can disturb.

### Print queue

`IInv == TypeOK /\ MutualExclusion /\ RingConsistent`; no part is inductive
alone. The bounds of `TypeOK` on `count` and the semaphores are not guarded by anything in
the code: they follow from the equations of `RingConsistent`, in which every other term is a
number of processes. The equations survive a step of `head` or `tail` only because no other
process is between its index and its `count`, which is `MutualExclusion`. The argument has
three layers:

1. *Head counts.* A set of processes at some labels is finite, and a step of one process
   changes its cardinality by one or not at all (`HeadCount`, `UserMoves`, `PrinterMoves`).
   `UserCounts` and `PrinterCounts` say by how much, for each of the six counts in the
   equations and each action.
2. *Equations.* With the changes known, each action keeps the three equations by linear
   arithmetic; `StepInv` turns equations that hold in the next state into the bounds of the
   type invariant.
3. *Steps.* `UserStep` and `PrinterStep` have one step per action; `LockMutex`, `UnlockMutex`
   and `MutexKept` are the three ways a step treats the lock.

`NothingOverwritten` follows from `IInv`: a user at its copy holds a place, so fewer than
`QUEUE_SIZE` tasks wait, and `SlotsApart` shows that `tail` is none of the slots from `head` on.

### The loops implement the spool

On `IInv`, every step is a step of `PrintSpool` under the refinement mapping or leaves the
mapped spool alone (`SpoolStep`). Only two statements move it: `CopyIn`, the copy of a user,
appends (the slot it writes is none that waits, by `SlotsApart`), and `CopyOut`, the copy of
a printer, takes the first job, although `head` and `count` still say it is there. All
others are stutters (`UserQuiet`, `PrinterQuiet`): what they do to `head` or `count` is made
up for by the head counts in the mapping, as the process that copied is alone in the ring
until it has done both (`CopierAlone`, `MoverAlone`).

### Print programs

`ProgramsInv == ProgramsTypeOK /\ LabelsOK /\ RestartsExclude /\ PlacesAccounted /\
CountBounded`. The invariant of the print queue does not hold here: the lock may be 0 with
nobody inside, places are lost, and a restart clears `count` and the indices under the
others. What is left is the account of the semaphores, with `lost` in it, and
`CountBounded`: however often `count` is cleared, a program that is about to change it or
has changed it holds a place, so it drifts no further than the ring is large. The head
counts of `PrintQueueProofs` are used as they are.

### Clinic

`IInv == TypeOK /\ PcOK /\ SeatsMatch /\ RoomCounted /\ ChoiceStillHolds`. A seat stays with
its patient because a consultation finds the room full; the doctor finds it full because
only patients who took a free seat are counted (`RoomCounted`: the counter is the number of
patients who wait). `Cardinality` enters only where the doctor compares: with all seats taken,
those who wait are exactly those who sit. One lemma per kind of thread (`PatientStep`,
`PharmacistStep`, `DoctorStep`) shows `IInv'` and `Simulates` together: sitting down, the consultation
and the restocking are the three steps of `ClinicCare`, and a step that touches neither
patients' state nor seats changes nothing of it (`QuietStep`). That a consultation adds to
`consulted` exactly those who wait follows from the full room: every seat names a patient who
waits, and nobody waits without a seat. `SeatsMatch` then says what the refinement does not, that
only consulted patients go home.

### Queue chat

`IInv` has nine parts, in the order they are needed.

* For `IdsMatch`: no two clients have a key in common, since `IPC_EXCL` lets only one of them make
  the queue (`KeysApart`); each asks once and is registered once (`RegisteredOnce`, `AskedOnce`); and
  nothing is in a queue before its answer, since the server answers before it polls again
  and broadcasts to registered queues only (`AnswersFirst`, `IdsOnce`).
* For `OneOrder`: what one client said is in the server's queue, and after it in the log, in the
  order it was said (`SentInOrder`, which taking a message out of the middle of the queue
  preserves: `RemoveAtFacts`); and a client's printed and unread messages follow the log and hold its
  last message only when the broadcast has passed the client (`ComingInOrder`, where `Due` names
  those it has not). A message that is dropped, as the queue is full, leaves the order alone.
* `TypeOK` bounds `klienci[]`: its entries are different keys of different clients, so there
  are at most as many as clients. Nothing in the server checks it.

### TCP chat

`IInv == TypeOK /\ Accounted /\ EntriesServed`. `FdsAccounted` counts the owners of a
descriptor; that is not inductive, as a step must know which owner there is. `Accounted`
names them in six parts: active entries have open descriptors (`EntriesOpen`), no two of
them the same (`EntriesApart`), no connection has two (`ConnsApart`), the newcomer has one of its own
(`NewcomerOpen`), there are no others (`AllOwned`), and what was never accepted has none (`FreshClosed`).
`OwnersCounted` gives `FdsAccounted` from it. `EntriesServed` needs it in turn: a thread that ends gives up the entry at its index,
whosever it is by then (`tcp_chat_own`), but leaves none unserved, because its own connection can
be in no entry but that one (`EntriesDropped`, `CleanupStep`).

### UDP chat

`IInv == TypeOK /\ ActiveNamed /\ EntriesKept`. `EntriesKept` is inductive almost as it stands: an
entry is given away only by `Register`, a step of the thread that holds the index, at a
statement at which it holds none. The console's index, which the module leaves
out, has no such protection.

### Signals

`IInv == TypeOK /\ SignalOnce /\ ModeFresh /\ ObeyedOnce /\ ConfirmedWereTaken`. A signal is
unsent, pending, merged away or taken, and only one of these (`SignalOnce`), so what is
confirmed was taken. The mode the loop is about to carry out came while none was carried out
and is not carried out yet (`ModeFresh`), though the handler may replace it between any two statements.

### Only model-checked

* Liveness, which rests on fairness and `ENABLED`, out of the prover's reach: `TasksAreTaken`,
  `ConsultedGoHome`, `CareCompletes`, `EveryMessageIsBroadcast`, `ClientsGetIds`, `LeaversAreRemoved`,
  `GoneAreRemoved`, `DuplicatesAreRemoved`, `SendersAreConfirmed`.
* The four claims that are violated: a counterexample needs no proof.

## What is not modelled

* `lab-5/zad1.c`: a process and its children that set one disposition and raise one
  signal each; nothing interleaves.
* Integration by processes (`lab-6/zad1.c`) and by threads (`lab-9/zad.c`): every process
  writes its own pipe, every thread its own element of `wynik[]`, and the parent reads the
  pipes, or the elements after it has joined the threads: one outcome whatever the order,
  and a sum in floating point. More threads than elements are listed as a hazard.
* Integration over FIFOs (`lab-6/zad2*.c`): one message each way. The first run can fail,
  because the sender opens `potok2` before the catcher has made it and prints the 0.0 it
  started from as the result; this is listed as a hazard. The programs state no promise a
  run could hold this against.
* The text flipper (`lab-3`), Collatz (`lab-2`), the countdown (`lab-1`), `fork` and `exec`
  exercises (`lab-4`): sequential, or a fork that is joined at once.
* The commands of the UDP console but for `STOP`, the texts it and the clients print, and what a UDP client does after the
  server has ended.
* Starts on what an earlier run has left in the kernel, but for `user.c` and `printer.c`: the
  server of `lab-7` started again reuses its queue with the messages in it and numbers clients
  from 0 (`serwer.c:31`), and `lab-8/zad.c` started again keeps the values of its semaphores
  (`zad.c:45`–`47`). `ChatQueues` and `PrintQueue` begin with a first start; `PrintPrograms`
  shows what the latter does in the two programs with the same statements.
* Errors of the calls that make the objects (`shm_open`, `sem_open`, `socket`, `bind`,
  `listen`, `pthread_create`): the programs exit or do not check.
* Texts: what is printed, formatted and parsed, except where it decides a branch. The
  fixed buffers the texts are written to are left out with them.
* `klienci[100]`: the model assumes at most 100 clients ever.
* `send_to_client` of lab-11, which nothing calls, and the `intro` directories, which are given
  examples of the system calls.

## Running it

    tlc -workers 2 -config MCPrintQueue.cfg MCPrintQueue
    tlapm PrintQueueProofs.tla

and likewise for the other configurations and the other `*Proofs` modules; `PROJECT.json` lists
which module goes with which `.cfg`, and for each property a mutant of the code that it detects.
