# A TLA+ verification of LINUX_EXERCISES

The repository is a collection of Linux system-programming exercises in C. Three
of them are concurrent programs with a good deal of shared state:

* the **peer-to-peer chat** `S6_IPC_Socket/ex2_p2pchat` (threads, sockets, a heap
  and a descriptor table under one mutex),
* the **restaurant** `S10_IPC_Semafore` (processes, shared memory, semaphores,
  signals),
* the **producers and consumers** `S4_Thread/nConsumer.c` (one mutex, two
  condition variables, a ring buffer).

The others are small programs, each about one means of communication: signals
(S5), the four kinds of sockets (S6 ex1), a pipe (S7), a message queue (S8), shared
memory (S9), condition variable and locks (S4). They are modelled too.

Everything is plain TLA+ (no PlusCal). `PROJECT.json` lists the runs, the source
lines each definition models, the hazards, the findings and the theorems.

## 1. Inventory

| Part | State | Operations | Interacts through |
|---|---|---|---|
| Chat: `connection.c` | list `conn_head` of `PeerConn`, `next_conn_id` | `add_connection`, `conn_recv_thread`, `remove_node_locked`, `reap_connections` | `conn_mutex`, heap, descriptors |
| Chat: `listener.c` | local `p`, `newfd` | `listener_thread` | list, `running`, `server_sock` |
| Chat: `command.c`, `main_p2pchat.c` | `running`, `server_sock`, the command read | `cmd_connect`, `cmd_list`, `cmd_terminate`, `cmd_send`, `cmd_exit` | list, joins, sockets |
| Chat: `utils.c` | `print_mutex` | `safe_printf`, `get_local_ip` | – |
| Restaurant: `shared.*`, `chef.c`, `consumer.c` | two trays, six semaphores | the chefs, the customers, the one-shot functions of the tests | shared memory |
| Restaurant: `print_tray_status` | two counters | one unlocked pass over both trays | shared memory |
| Restaurant: `main.c` | `children[]`, `child_count`, the segment | forks, `cleanup_all`, `handle_sigint` | signals, `waitpid` |
| `nConsumer.c` | `buffer`, `count`, `in`, `out` | `producer`, `consumer`, `main` | mutex, condition variables |
| S4 `ex3_condition_variable.c` | one value, a flag | `producer`, `consumer`, `main` | mutex, one condition variable |
| S4 `ex2_race_condition_mutx.c`, `ex4_rw_lock.c` | one counter | writers, readers, `main` | nothing, or a read-write lock |
| S5 ex1 to ex4 | counts and flags set by handlers | loops around `pause()`, `select()` | signals, a timer |
| S6 ex1, stream (TCP, UNIX) | one accepted client; the port or the socket file | start, accept, echo; connect, ask | two byte streams |
| S6 ex1, datagram (UDP, UNIX) | the port or the socket files | receive and answer; ask | datagrams |
| S7 `ex1_pipe.c` | the open ends of a pipe | two forks, `dup2`, `exec`, `waitpid` | the pipe |
| S8 `task_dispatcher.c`, `task_worker.c` | a queue and its name | send; receive, work, clean up | a POSIX message queue, signals |
| S9 producer and consumer | an object and its name | write field by field; print and unlink | POSIX shared memory |
| S3; S4 `ex1_creat_thread.c`, `fun_thread_join.c` | none shared | fork, wait, create, join | not modelled (section 8) |

What is hard in this code, and what makes each part correct:

* **Chat.** A `PeerConn` is created by one thread, read without the mutex by a
  second and freed by a third. `reap_connections` and `cmd_terminate` give up the
  mutex in the middle of their work to join a thread. Descriptor numbers are
  closed by one thread while another passes them to `recv`. Correctness: no list
  scan meets freed memory; a receive thread never outlives its node; each
  connection goes once through create, start, close, free; an address is not
  dialled twice; a peer that leaves is noticed; `exit` ends.
* **Restaurant.** Counting semaphores and trays must agree at every moment; a
  process that `sem_wait` let in must find what it came for. Signals may arrive
  between any two steps of `main`. Correctness: mutual exclusion, exact
  accounting, progress; nothing is left behind at shutdown.
* **Two chats on one connection.** TCP joins and splits what was sent, buffers
  fill up, a reset overtakes data, and `send` blocks with the mutex held at both
  ends at once. Correctness: what is printed is what was said; a blocked `send`
  comes back; a leave is noticed.
* **The small programs.** Servers are killed and restarted, names (ports, socket
  files, queues, shared objects) outlive processes or are removed under them,
  datagrams are lost, signals merge or come a moment too early, calls fail half
  way. Correctness: answers, tasks, values, counts and products are the right ones,
  and nobody waits for ever except where the code really lets him.
* **Producers and consumers.** Each change signals one sleeper; sleepers wake
  late or without a signal. Correctness: FIFO, no lost wakeup, termination.

## 2. Modules

| Module | What it is |
|---|---|
| `P2PNode` | the chat process: main thread, listener, receive threads; user and peers as environment |
| `ConnLifecycle` | abstract life of a connection; `P2PNode` implements it |
| `MCP2PNode` | addresses and command sets for TLC |
| `P2PNodeProofs` | proofs about `P2PNode`: life cycle, list, descriptors |
| `P2PLink` | two chat processes at the two ends of one connection, with the bytes between them |
| `Conversation` | what a connection promises its two users; `P2PLink` implements it |
| `MCP2PLink` | the two users for TLC |
| `P2PLinkProofs` | proofs about `P2PLink`: the bytes, and the refinement |
| `Restaurant` | chefs, customers, trays, semaphores |
| `Trays` | two bounded counters; `Restaurant` implements them |
| `TrayStatus` | composes `Restaurant` with the unlocked `print_tray_status` |
| `RestaurantMain` | processes and signals of `main.c` |
| `MCRestaurant`, `MCTrayStatus` | instances for TLC |
| `RestaurantProofs`, `TrayStatusProofs`, `RestaurantMainProofs` | proofs about the three modules of the restaurant |
| `BoundedBuffer` | `nConsumer.c` |
| `BoundedQueue` | abstract FIFO queue; `BoundedBuffer` and, with one place, `Handoff` implement it |
| `BoundedBufferProofs` | proofs about `BoundedBuffer`: the ring, the wakeups, the refinement |
| `EchoStream` | the stream servers and clients of S6, TCP and UNIX by a parameter |
| `EchoDatagram` | the datagram servers and clients of S6, UDP and UNIX by a parameter |
| `TaskQueue` | workers and dispatchers of S8 |
| `Handoff` | `ex3_condition_variable.c` |
| `Increments` | `ex2_race_condition_mutx.c` and `ex4_rw_lock.c` by a parameter |
| `Pipeline` | `ex1_pipe.c` |
| `SignalLoops` | the four loops of S5 by a parameter |
| `SharedProduct` | producers and consumers of S9 |
| `Exercises` | the eight modules above side by side: a behaviour picks one program, the others rest |
| `ExercisesProofs`, `EchoStreamProofs` | proofs about `Exercises`, one program after the other; the echoed text has a module of its own |

Definitions whose name has a suffix (`Lock_NoWait`, `Signal_OwnSide`, ...) are
seeded faults. No specification uses them; each stands in for the definition it
is named after to confirm that a property notices that mistake. A property that
joins several statements has one for each of them.

### `P2PNode` and the code

A connection is named by its id (`next_conn_id` only grows), and its socket has
the same name. `conns` is the list as a set: ids are unique and every scan looks
for one id or one node, so no result depends on the order. `mem` is the heap
state of each node, `fdtab` the descriptor table, `link` the kernel's view of
each socket. `mpc`, `lpc` and `rpc` are the places of the threads.

A critical section in which nothing blocks is one action, enabled when
`conn_mutex` is free. It is split where the code unlocks, joins, or calls
something that blocks. `cmd_exit` is the one place that blocks with the mutex
held, and the only reason `mutex` is a variable. Every read or write of a node
outside the mutex goes through `Touch`, which records the place when the node has
been freed (`uaf`). `malloc` may hand out the chunk of a freed node again, so a node
that has a new name here may lie where an old one was, and a stale pointer then leads to
the new node. A thread that only reads fields to print them prints the wrong ones and
goes on. One that uses a freed node in any other way (links it, joins or frees it,
creates a thread for it, passes its descriptor to `recv`) may hit anything, and so
may a join of a handle that was never stored, unless it returns an error at once: `proc`
becomes "undefined" (`Undefined`), and nothing is claimed about such a process from there
on. The history
`early` has the connections that `terminate` got before the listener had created their
receive thread.

The kernel is modelled from how the code uses it (marked external in the map):
the lowest free descriptor is handed out; `accept` reserves its number before it
blocks and a `close` from another thread does not wake it; a `recv` in progress
stays on its socket when the number is closed or reused; `send` to a connection
the peer reset raises SIGPIPE or fails once; end of input ends `main` without
`cmd_exit`. `malloc`, `socket`, `connect`, `accept` and `pthread_create` may fail
wherever the code tests for it.

`HastyUser` is TRUE when the user may type an id before the program has printed
it. Then `terminate` can race the listener's own `pthread_create`, and that race is the
only way to an undefined process (`UndefinedOnlyByHaste`). With FALSE the user names
announced connections only, and no process is ever undefined. The properties of the life
cycle and of the descriptors need the patient user; those of the list hold for any user,
as long as the process is defined.

### `P2PLink` and the code

`P2PNode` lets the peers do anything and keeps no bytes; `P2PLink` has the program at
both ends of one established connection and keeps the bytes of both directions.
What the main thread does to find, add and remove nodes is in `P2PNode`; here a
node is its three flags. A stream is a sequence of pieces; `CMD:DISCONNECT` is two,
since a `recv` may end between them, and a `recv` returns any non-empty part of what
has arrived. `send` copies as many pieces as there is room for and waits for the
rest with `conn_mutex` held; so the receive thread of that process cannot finish,
but can go on reading, which is why the two ends cannot block each other. An end
that is closed with unread bytes, or reached by bytes later, resets the connection:
what it sent last may be lost. `cmd_exit` goes on from the join of the listener
when its environment lets it (`p2p_exit_hang` is about that join).

### `Restaurant`, `TrayStatus` and the code

Each `sem_wait` and `sem_post` is one action. The loop over a tray is two, finding
the slot and writing it, because only the mutex makes them one. `Once` are callers
of `add_vegan_dish_once` / `add_nonvegan_dish_once`; the second posts the wrong
semaphore, exactly as the code does. In `TrayStatus` the main process reads one
slot of both trays per step; `held` is a history variable, the counts each tray
really had since the loop began.

### `RestaurantMain` and the code

`children[child_count++] = fork()` is three steps (increment, fork, store), the
order the build produces. `kill(0)` reaches the process group with the caller in
it, `kill(-1)` everyone. SIGINT is blocked inside its handler, so the handler is
not nested, but it may interrupt the `cleanup_all` that `main` has begun. A child
that has not yet called `signal(SIGINT, SIG_IGN)` still has the handler. `main.c`
catches SIGINT only, so any other signal from outside (SIGTERM, SIGHUP, SIGKILL) may end
the parent (`ParentShot`) or a child (`ChildShot`) at any place, with no cleanup: the
parent is then "shot", not "killed" by a signal of the program's own. What a
child does between is `Restaurant`.

### `BoundedBuffer` and the code

`pthread_cond_wait` releases the mutex and sleeps in one step (`Test`), is woken
by `Signal` or by itself (`Spurious`), and takes the mutex again (`Lock`) before
the while loop tests once more. The statements between the loop and the signal
are one step: they touch what the mutex guards, and the refinement of
`BoundedQueue` fails if the test is not repeated under it. `main` creates, joins and destroys, and both kinds of threads
read their number from one array.

### The small programs and the code

Where two programs have the same shape one module has both, and a constant of its
behaviour says which: `family` (`EchoStream`), `kind` (`EchoDatagram`), `locked`
(`Increments`), `sprog` (`SignalLoops`). The places where their code differs are
conditions on it, such as the removed socket file or the test `<= 0` of an empty
datagram. Names and things are apart: `path`, `spath`, `cpath`, `qname` and `shm` lead
to a server, a client, a queue or an object that may outlive its name, or be
replaced under it. A process may be killed at any point; a server or worker that is
started again is another process with the next number.

* `EchoStream`: sizes are scaled so that a read returns two units, a line is one or
  fills the buffer, and an answer is one longer than what it answers. Unit *n* is
  the *n*-th that a client wrote, so order and losses show. A line that begins with a zero
  byte has length 0: nothing is written, and the client waits for an answer all the same.
  A server starts in two steps, `unlink` and then `bind` with `listen`; `overtaken` has the
  servers between whose two steps another one's `bind` came.
* `EchoDatagram`: `fate` remembers why an answer will not come, `overtook` whose answers
  a UNIX client may meet on the path they share.
* `TaskQueue`: tasks are of three sizes: short, full (the terminator is written behind the
  buffer, with either outcome), and over (refused by `mq_send`).
* `Handoff` and `Increments`: one step per lock, test, access and unlock; an increment is
  a load and a store.
* `Pipeline`: `ends` has every copy of the two ends of the pipe; `ls` and `wc` are external.
* `SignalLoops`: signals of a kind merge while pending; the moment between the test and
  the sleep is a place of its own, and `missed` remembers a signal handled there.
* `SharedProduct`: a field holds the number of its writer; `quiet` are the consumers
  that nobody disturbs.

## 3. Runs that pass

| Run | Bounds | What it shows |
|---|---|---|
| `p2p_hasty` | 2 connections, 2 descriptors, backlog 1, all commands, hasty user | `TypeOK`, `UndefinedOnlyByHaste`, `NoDuplicateOutgoing`, `InactiveCollected` |
| `p2p_core` | 2 connections, 3 descriptors, patient user | `ReaderNodeLive`, `LifeInv`, `ActiveOwnsFd`, `OnlyKnownStaleReads`, `LostOnlyByReaper`, `ForeignReadOnlyWhileJoined`, refinement of `ConnLifecycle` |
| `p2p_live` | as above, commands `connect` and `terminate`, fair threads | `PeerLeaveNoticed` |
| `restaurant` | trays of 2, the five processes of `main` and one one-shot caller, fair | accounting, `SlotHolds`, `AlwaysFound`, refinement of `Trays`, `TraysServed` |
| `tray_status` | a tray of 5, one chef, two customers | `CountIsReal` |
| `restaurant_main` | 4 children, Ctrl+C any time, failing forks, parent or children killed from outside; fair | `CleanShutdown`, `StraySignals`, `NoSurvivors`, `CleanupEnds` |
| `bounded_buffer` | 2 producers of 2 items, 3 consumers, ring of 2, 2 spurious wakeups | FIFO refinement, `NoLostWakeup`, `OwnNumber`, `Termination` |
| `p2p_link` | buffers of 3 pieces, 4 pieces said in all; the first user sends, sends the command as text, terminates; the second sends, terminates, exits or ends the input; fair | refinement of `Conversation`, `SendReturns`, `LeaveNoticed` |
| `exercises` | see below; fair | `StreamEchoes`, `StreamStartsUnlessHeld`, `DgramAnswerIsOwn`, `QueueFoundUnlessRemoved`, `CondHandsOver`, `TotalsAreRight`, `SigStuckOnlyAfterMiss`, `MemoryReadsOneProduct`, `RequestsAreServed`, `ProgramsEnd` |

The bounds of `exercises`: two servers and two clients of each kind, 3 units and 2
lines per client; two workers, two dispatchers and a queue of one task; 3 values
handed over with 2 spurious wakeups; two writers and two readers with 2 increments;
3 lines through a pipe of 2; `MAX_TIME` 2, at most 4 signals raised and 2 lines typed;
two producers and two consumers of shared memory.

Why the bounds are enough for the interesting cases:

* Two connections are the least for a descriptor number to be reused, for one
  connection to be removed while another is being built, and for a scan to
  restart. With two descriptors one connection and a pending `accept` exhaust the
  table; with three, two connections and the `accept` fit. All that these two runs
  check is proved for every bound.
* Trays of two make "full", "empty" and "in between" distinct for three
  processes; the accounting is proved for every size. `tray_status` needs a longer
  tray, as a wrong count takes a dish that moves from behind the reader to before
  it: with slots filled in any order it fails, with the first free slot it holds.
* Four children leave a first, a last and two others, each in any state.
* Three pieces of buffer hold neither two notifications nor four texts, so that both
  users can fill both directions and a notification can be cut by a full buffer.
* Two processes of a kind are the least for a restart, for a second server beside
  the first, and for a name that is removed or bound again under another process.
  A queue of one task is full at once; two increments of two writers lose some or
  none; a pipe shorter than the output makes `ls` wait; two signals above `MAX_TIME`
  step over it.
* Two producers and three consumers with two items each leave one item over, fill
  the ring, and let every thread sleep.

Deadlock is checked in `restaurant`, `tray_status` and `bounded_buffer`. The chat,
`main.c` and the small programs end, or wait for a user who need not come, so their
runs switch the check off; that a thread is not stuck is what the liveness
properties are for.

### Fairness

Weak fairness of each thread or process, which is what the scheduler gives. The
user, the peers, `accept` errors, Ctrl+C and spurious wakeups are never required
to happen. `sem_wait` and `pthread_mutex_lock` promise no order, so no strong
fairness is assumed: one customer may starve in favour of another, which is why
`TraysServed` speaks of the tray and not of a customer. In `BoundedBuffer` the
bound on spurious wakeups stands for "not for ever".

In `P2PLink` main, receive thread and kernel of each end are fair; the users and the
join of the listener are not. In `Exercises` one fairness condition, that some process
of the program goes on while one can, takes the place of one per process. It asks
for less than the scheduler gives, and it is enough because, with the bounds on
what users do, every program comes to rest: "again and again" (`[]<>`) then means "in
the end". Only `ex4_select.c` does not rest, since it spins at the end of its input;
for it the delivery of pending signals is fair as well. Users, kills, timeouts of
TIME_WAIT and lost datagrams are never required to happen.

## 4. Runs that show a disagreement

Each checks one statement that a comment of the repository makes; TLC finds a run
of the code that contradicts it. The quotations are in `PROJECT.json`.

| Run | Statement | What happens |
|---|---|---|
| `p2p_exit_hang` | closing the server socket ends the listener | `accept` stays blocked, `cmd_exit` waits for ever |
| `p2p_sigpipe` | the notification is best effort | SIGPIPE ends the program |
| `restaurant_once` | the last post counts the new dish | `add_nonvegan_dish_once` posts `non_empty` |

Other weaknesses of the code are part of the models, and properties that pass say
how far they reach:

* `cmd_exit` joins receive threads with `conn_mutex` held (the comment there says
  so itself); it is a second way in which `ExitCompletes` fails.
* The listener and the reaper report a connection from a node that may have been
  freed: `OnlyKnownStaleReads` says that these two are all.
* A `terminate` typed before the connection is announced may join a handle that
  is not stored yet, and may free the node while the listener still builds it. The
  listener then starts a thread for freed memory, or frees it once more; if `malloc`
  gave the chunk to a new connection meanwhile, that connection's node is freed under
  whoever uses it. `UndefinedOnlyByHaste` says that nothing else leads there, and
  `LifeInv` that a patient user never gets there.
* `reap_connections` never closes the socket: `LostOnlyByReaper` says that every
  other path does.
* `cmd_terminate` closes the descriptor while the receive thread may be about to
  call `recv` on its number, which may have been given to a new connection by then:
  the old thread reads from a new peer. `ForeignReadOnlyWhileJoined` says that
  only a thread that the main thread is joining, or that `exit` ends, does so.
* Ctrl+C between `fork()` and the store of its result leaves a 0 in `children[]`, and
  `kill(0)` ends the parent before the segment is removed; so may a child that still has
  the handler of its parent. The children end all the same (`NoSurvivors`). A SIGTERM, SIGHUP
  or SIGKILL from outside ends the parent with no cleanup at all: the segment stays, and
  the children work on for ever. `CleanShutdown` is therefore about a parent that leaves by
  itself, and `NoSurvivors` about one that leaves or dies of the program's own signals.
* `send 1 CMD:DISCONNECT` makes the other end stop reading, although its socket stays
  open; then the sender may block in `send` for ever with `conn_mutex` held. `SendReturns`
  says that nothing else does.
* A TCP or UNIX stream client whose line fills the buffer gets an answer longer than its
  own buffer and prints the tail of it as the next answer: it stays behind for good
  (`BehindByLongLines`). TCP may do the same at any time by splitting an answer.
* The TCP server sets no `SO_REUSEADDR`: a restart may be refused for as long as
  TIME_WAIT lasts. Of two UNIX servers that are started together, both remove the file
  before either binds, and the second `bind` fails with EADDRINUSE. `StartsUnlessHeld` says
  that these two cases, and a TCP port that another server listens on, are all.
* A stream client whose line begins with a zero byte writes nothing and waits in `read` for
  ever, although its server is alive. `ClientsGoOn` says that only this, and waiting behind
  another client (`accept` is called once), keeps a client for ever.
* All UNIX datagram clients bind one path, each removing the file of the one before: the
  earlier one waits for ever, and the later one may print its answer (`AnswerIsOwn`,
  `AnswersArrive`). The UNIX server never answers an empty request; the UDP server does.
* `cleanup_and_exit` removes the name of the queue even if it leads to the queue of a
  worker that was started later (`FoundUnlessRemoved`); a task of full size makes the
  worker write one byte behind its buffer.
* `ex1_creat_run_signal.c` tests `== MAX_TIME`, which two signals in one round step over, and
  all loops of S5 may sleep on a signal that came between test and sleep
  (`StuckOnlyAfterMiss`).
* A consumer of S9 that comes before the producer has finished prints a torn product,
  or dies of SIGBUS before `ftruncate` (`ReadsOneProduct` names what it takes).
* `cleanup_all` may call `kill(-1)` after a failed fork, or signal a pid that was
  already waited for when Ctrl+C interrupts it: `StraySignals` says that it takes
  exactly that. A freshly forked child still has the handler of its parent; that
  is in `ChildInt`, and `NoSurvivors` holds all the same.

## 5. What is proved

Every safety property that a run checks is also a theorem, and so are the five
refinements. Each theorem holds for all values of the constants that satisfy the
named assumption of its module; an assumption says of what type a constant is and,
where the code needs it, that there is at least one of something. The argument is always the
same: the invariant holds initially, one step of the proof per action shows that it is
kept, and it implies the property. What differs is what has to be added to the
property to make it inductive.

### `P2PNodeProofs` (from `P2PAssumption`)

For any number of connections and descriptors, any backlog, addresses and commands.

* `TypeCorrect`: `TypeOK`, for hasty users too. It is inductive as it stands because it
  says that a pointer is not null wherever a thread goes on to use it.
* `AnyUserInvariant`: `TypeOK /\ AnyUserInv`, for any user. It is the list below with an
  exception wherever a pointer may be stale: the connections in `early`, each of which the
  listener is still building or has lost (`EarlyAreOfListener`). Main never holds one that
  the other thread is about to link, so linking stays safe. `OnlyHasteIsUndefined` is its part
  `UndefinedOnlyByHaste`.
* `LifeInvariant`: `TypeOK /\ LifeInv` for a patient user, from `AnyUserInv`, since `early`
  stays empty when only announced connections are named. That a receive thread's node
  is live is not inductive: the step that frees a node has to know that the thread was
  joined, the join has to know that the handle is valid, and the handle is valid because
  exactly one thread builds a node until it has started the thread or rolled back.
  `LifeInv` is the conjunction of these: `FreshIds`, `Handles`, `OneBuilder`,
  `ListedAreLive`, `ReaderNodeLive`, `NamedIsAnnounced`, `MainKeeps`.
  `ReadersAreSafe` is its part `ReaderNodeLive`.
* `Refinement`: `ImplementsLifecycle`, step by step from `LifeInv`, for a patient user.
* `ListInvariant`, for any user: `ListInv` adds to `NoDuplicateOutgoing` and
  `InactiveCollected` who knows a node that is not linked yet (`BuildersApart`) and that
  the answer of the test for a duplicate is still true when `cmd_connect` gets back to the
  list (`StillNoDuplicate`): only the listener adds members meanwhile, and none of those
  has an address that is dialled. `DialledOnce` and `DeadAreCollected` are the two
  properties.
* `SocketInvariant`, for a patient user: which thread or node holds each descriptor number,
  between `socket`, `accept`, the node, and every `close` (`SockInv`). That an active
  node's number stands for its own socket needs all of them at once, since a number that
  anybody closes may be given out again. From it `SocketsAreOwn` (`ActiveOwnsFd`),
  `OnlyReaperLoses` (`LostOnlyByReaper`) and `ForeignReads` (`ForeignReadOnlyWhileJoined`).
* `StaleReads`: `OnlyKnownStaleReads`, for a patient user, from `LifeInv`.

### `P2PLinkProofs` (from `LinkAssumption`)

For buffers of any size, any commands of the two users and any number of messages.

* `LinkInvariant`: `LinkInv`. What can be read from a wire begins what has not been heard
  of that end (`StreamInv`); it is all of it unless a reset overtook the rest, and a reset
  leaves something behind that nobody will hear. `EndInv` says that a stream ends exactly
  when its socket is closed.
* `LinkIsConversation`: `ImplementsConversation`. A read, however it cuts the bytes, is a
  hearing of the beginning of what was said, because of `StreamInv`.

### `RestaurantProofs` (from `RestaurantAssumption`)

For all numbers of slots, chefs and customers.

* `TypeCorrect` and `MutexHolds`: types and mutual exclusion, whoever calls what. No run
  repeats them.
* `AccountsHold`: places and dishes are accounted for exactly, provided nobody
  calls `add_nonvegan_dish_once` (`NoFaultyCaller`; `restaurant_once` shows that
  the proviso is needed). The four parts are inductive together only: that a
  process finds a slot follows from the sums, that the sums survive a write
  follows from the slot still being what was found, and that follows from mutual
  exclusion. `PlacesHold`, `DishesHold`, `SlotsKept` and `NeverMissed` state the parts
  one by one: `PlacesAddUp`, `DishesAddUp`, `SlotHolds`, `AlwaysFound`.
* `Refinement`: `ImplementsTrays`, under the same proviso.

### `TrayStatusProofs`

* `StatusHolds`: under the mutex a slot that was found stays the first of its kind
  (`FirstFound`), whoever calls what. So a dish that appears or disappears does so at
  the border of what the reader has seen, and its sum, of what it counted and what it has
  yet to read, stays between two numbers of dishes that the tray had since the loop began
  (`StatusInv`, with the history `held` and its having no gaps). Without `FirstFound`
  a dish could move from behind the reader to before it.
* `CountsAreReal`: `CountIsReal`, since nothing is left to read at the end.

### `RestaurantMainProofs` (from `MainAssumption`)

* `InvHolds`: for any number of children, with or without failing forks and early Ctrl+C.
  `Forked` relates `children[]`, `child_count` and the children, in the middle of a
  `fork` too; `Cleaning` says how far `cleanup_all` has come in `main` or in the handler: a
  parent that is still alive in the loop of `waitpid` met no 0 in its loop of `kill`.
* `ShutdownIsClean`, `StraySignalsOnlyThen`: the two safety properties.

### `BoundedBufferProofs` (from `BufferAssumption`)

For any size of the ring and any numbers of threads, items and spurious wakeups.

* `RingIsSafe`: `in` follows from `out` and `count` modulo the size, and what the while loop
  found is true when the thread acts, because it holds the mutex from one to the other. The
  lemmas `Wraps`, `RingAfterProduce` and `RingAfterConsume` are the arithmetic of the ring.
* `NumbersAreOwn`: `OwnNumber`. The array is rewritten while it is read, but each element
  only with the number it has.
* `NoWakeupIsLost`: `NoLostWakeup`. It is inductive with `IInv` once the sleepers and those
  on their way are counted as cardinalities of sets that one step changes by one thread.
* `RingImplementsQueue`: `ImplementsQueue`, with the `count` places from `out` on as the queue.

### `ExercisesProofs` and `EchoStreamProofs` (from `ExercisesAssumption`)

For any sets of processes, any lines, rounds, sizes and limits. The theorems
are about `FairSpec`, which is what the run checks; none uses its fairness.

* `SleepsOnlyAfterMiss` (`SigStuckOnlyAfterMiss`): as long as no signal was handled between
  test and sleep, a loop that is about to sleep has seen the latest (`SigInv`).
* `QueueIsFound` (`QueueFoundUnlessRemoved`): who listens has the queue of the name, unless
  another worker removed it.
* `ProductIsWhole` (`MemoryReadsOneProduct`): a producer that has an object for itself finds
  there what it wrote (`AloneInv`), nobody writes to one that is whole (`GoodInv`), and a
  consumer that nobody disturbed opened a whole one (`QuietInv`).
* `TotalsAreExact` (`TotalsAreRight`): the increments that have been done are a finite set,
  and the lemmas on its cardinality tie the counter to it: equal under the lock, not above
  it without; there the least total is 2, as the last writer's last round begins after its
  first. The lines in the pipe, counted and left to write always add up (`PipeInv`).
* `HandoffImplementsQueue` (`CondHandsOver`): the same queue as for the ring, of one place.
* `DgramAnswersAreOwn` (`DgramAnswerIsOwn`): whatever is on its way belongs to the latest line
  of its client (`LatestInv`); with UDP there is one such thing at most (`OnceInv`); with UNIX
  sockets whoever has the shared path knows whom it was taken from (`PathInv`).
* `StreamServersStart` (`StreamStartsUnlessHeld`), an action property: a UNIX server that is
  about to bind has removed the file, so if there is one another server's `bind` came in
  between (`StreamInv`).
* `EchoesAreWhole` (`StreamEchoes`), in its own module: the units that a client wrote and did
  not print yet are on the wire back, in the buffer of its server and on the wire there, in
  this order and without a gap, however reads join and split them (`TextInv`). That needs
  one server at most to have a client, in one place of one backlog (`PlaceInv`); for UNIX
  clients `LagInv` bounds how far the screen is behind by the long lines.

## 6. What is only model-checked

Liveness: `PeerLeaveNoticed`, `SendReturns`, `LeaveNoticed`, `TraysServed`, `NoSurvivors`,
`CleanupEnds`, `Termination`, `RequestsAreServed`, `ProgramsEnd`. They rest on fairness, that is on
`ENABLED`, which the prover does not handle. The statements that fail (section 4) have
no theorems, of course; the counterexamples are TLC's.

For a hasty user the life cycle, the descriptors and the stale reads are neither checked
nor proved beyond `UndefinedOnlyByHaste` and the properties of the list: a node may then
be freed while the listener builds it (section 4).

## 7. What is abstracted

Texts, parsing, the contents of messages and dishes, sleeping times and
formatting. The linked list is a set. Addresses of incoming peers are ephemeral
ports that nobody dials. `P2PNode` keeps no bytes and its sends never wait: a message
may arrive while the connection is up, and data queued before a FIN is read before
it; bytes, full buffers and lost data are the subject of `P2PLink`, for one
connection. Only `pthread_create` of the receive threads fails; in `nConsumer.c` and
the other exercises of S4, whose return values are ignored, it succeeds. Sizes of
lines, tasks and buffers in the small programs are scaled down to the cases that
the code tells apart. Calls that fail before a server or client has done anything
(`socket`, `listen`, `mmap`) only end the process, as a kill at that place does.

## 8. Not modelled, and plan

Not modelled:

* **Processes** (S3: `exec.c`, `fork.c`, `orphan.c`, `zombie.c`). A parent and a child with no
  shared state; a model would be one of the process table of Linux. Forking, waiting
  and zombies are modelled where a program depends on them (`RestaurantMain`,
  `Pipeline`).
* **Creating and joining threads** (S4 `ex1_creat_thread.c`, `fun_thread_join.c`). Two threads
  that share nothing; no order of their steps can be told from another.
* **Chat utilities** (`utils.c`). `safe_printf` holds `print_mutex` around `vprintf` only and
  takes no other lock, so it can neither deadlock nor delay for ever;
  `get_local_ip` is pure input.
* **The unit tests of the restaurant** are sequential scripts; the one-shot functions that
  they call are in `Restaurant`.
* **A second instance of the restaurant**, which would initialise the semaphores of a
  running one: nothing in the code or its documents says that this is meant to work.

Done, in this order: `P2PNode` with `ConnLifecycle`; `Restaurant` with `Trays`;
`TrayStatus`; `RestaurantMain`; `BoundedBuffer` with `BoundedQueue`; the proofs of the
first two; `P2PLink` with `Conversation`; the small programs and `Exercises`; the
theorems for all safety properties and refinements. Next:

1. `ConnList`: the singly linked list with `prev`, `cur`, `next`, refining the set
   of `P2PNode`.
2. Proofs: the steps of the liveness arguments that need no fairness, such as what can
   still keep a blocked `send` from going on in `P2PLink`; mutual exclusion and order of
   `TaskQueue` beyond the name of the queue.
