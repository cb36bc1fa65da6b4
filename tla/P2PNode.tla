------------------------------ MODULE P2PNode ------------------------------
(***************************************************************************)
(* One process of the peer-to-peer chat of S6_IPC_Socket/ex2_p2pchat: the  *)
(* main thread (command loop, reaper), the listener thread and one receive *)
(* thread per connection.  They share the connection list under            *)
(* conn_mutex, the heap the PeerConn structs live in and the descriptor    *)
(* table of the process.  The user and the remote peers are the            *)
(* environment.                                                            *)
(*                                                                         *)
(* A PeerConn is named by its id, which is unique because next_conn_id     *)
(* only grows; the socket opened for it has the same name.  malloc() may   *)
(* hand out the chunk of a freed node again, and the new node then has a   *)
(* new name: what a stale pointer to the old one refers to is up to the    *)
(* allocator.  So a thread that uses such a pointer, other than to print   *)
(* the fields behind it, ends the modelled behaviour: proc is "undefined"  *)
(* and nothing is said about what the process does next.  The linked       *)
(* list is the set conns of its members: ids are unique, so no operation   *)
(* depends on the order except that scans meet a member first.             *)
(*                                                                         *)
(* A critical section in which nothing blocks is one action, enabled when  *)
(* conn_mutex is free; only cmd_exit keeps the mutex while it blocks.      *)
(***************************************************************************)
EXTENDS Naturals

CONSTANTS
    MaxId,      \* bound: PeerConn structs created in a behaviour
    MaxFd,      \* descriptors the process may use for peer sockets (RLIMIT_NOFILE)
    MaxBacklog, \* bound: connections waiting for accept() (BACKLOG)
    Ops,        \* the commands the user gives
    Addrs,      \* addresses <ip, port> the user dials
    SelfAddrs,  \* those among them that cmd_connect recognises as its own
    Incoming,   \* the address of any accepted peer: an ephemeral port nobody dials
    HastyUser   \* TRUE: the user may name a connection before it is announced

ASSUME P2PAssumption ==
    /\ MaxId \in Nat /\ MaxFd \in Nat /\ MaxBacklog \in Nat
    /\ Ops \subseteq {"other", "list", "exit", "terminate", "send", "connect"}
    /\ SelfAddrs \subseteq Addrs
    /\ Incoming \notin Addrs
    /\ HastyUser \in BOOLEAN

None == 0                   \* the null pointer, a free descriptor
Dialing  == MaxId + 1       \* the descriptor of a socket that is not connected yet
Reserved == MaxId + 2       \* a number accept() holds back until it returns
Ids  == 1..MaxId
Fds  == 1..MaxFd

NoCmd == [op |-> "none", id |-> None, to |-> Incoming]

CommandType == [op : {"none", "other", "list", "exit", "terminate", "send", "connect"},
                id : Ids \cup {None}, to : Addrs \cup {Incoming}]

(* The lines main() can read.  "other" stands for help, myip, myport and   *)
(* every line that is rejected without touching the shared state.          *)
Commands ==
    {cmd \in CommandType :
        /\ cmd.op \in Ops
        /\ cmd.id # None <=> cmd.op \in {"terminate", "send"}
        /\ cmd.to # Incoming <=> cmd.op = "connect"}

VARIABLES
    proc,           \* the process: "running", "exited" or the way it died
    running,        \* the global flag running
    early,          \* history: connections terminated while the listener still set them up
    listening,      \* server_sock is open
    backlog,        \* connections the kernel completed and accept() has not returned
    next_conn_id,   \* the global id counter
    conns,          \* members of the list conn_head
    mem,            \* heap state of each PeerConn: "unused", "live", "freed"
    active,         \* PeerConn.active
    should_remove,  \* PeerConn.should_remove
    thread,         \* PeerConn.thread has been stored by pthread_create
    addr,           \* PeerConn.ip and PeerConn.port
    sockfd,         \* PeerConn.sockfd
    fdtab,          \* descriptor table: None, Dialing, Reserved or the socket behind it
    link,           \* each socket: "none", "up", "fin" / "rst" from the peer, "shut" here
    mutex,          \* conn_mutex: "free" or "main"
    uaf,            \* the places that touched a freed PeerConn so far
    mpc, mcur, mcmd, mfd,  \* main thread: place, pointer cur / p, command, descriptor
    lpc, lcur, lfd,        \* listener thread: place, pointer p, descriptor
    rpc, rsock             \* receive threads: place, socket recv() is blocked on

nodeVars == <<next_conn_id, conns, mem, active, should_remove, thread, addr, sockfd>>
sockVars == <<fdtab, link, backlog, listening>>
mainVars == <<mpc, mcur, mcmd, mfd>>
lisVars  == <<lpc, lcur, lfd>>
recvVars == <<rpc, rsock>>
vars == <<proc, running, early, nodeVars, sockVars, mutex, uaf, mainVars, lisVars, recvVars>>

-----------------------------------------------------------------------------
(* Helpers.                                                                *)

Unlocked == mutex = "free"

FreeFds == {f \in Fds : fdtab[f] = None}

(* POSIX hands out the lowest free descriptor.                             *)
LowestFree(f) == f \in FreeFds /\ \A g \in FreeFds : f <= g

(* What a descriptor number stored in a PeerConn refers to right now.      *)
SocketOf(c) == IF sockfd[c] \in Fds THEN fdtab[sockfd[c]] ELSE None

(* Reading or writing the fields of PeerConn c at a place of the program.  *)
Touch(c, place) == uaf' = IF mem[c] = "freed" THEN uaf \cup {place} ELSE uaf

(* The places of a thread that is setting up the node it allocated.        *)
BuildPlaces == {"insert", "create", "rollback"}

(* send() on a socket whose peer reset it raises SIGPIPE, or reports the   *)
(* pending error once; nothing in the program ignores the signal.          *)
SigPipe(s) == s \in Ids /\ link[s] = "rst"

Die(how) ==
    /\ proc' = how
    /\ UNCHANGED <<running, early, nodeVars, sockVars, mutex, uaf, mainVars, lisVars, recvVars>>

(* A node that was freed, or a thread handle that was never stored, is     *)
(* used: it may be another node by now, or memory of the allocator.        *)
Undefined(place) ==
    /\ proc' = "undefined" /\ uaf' = uaf \cup {place}
    /\ UNCHANGED <<running, early, nodeVars, sockVars, mutex, mainVars, lisVars, recvVars>>

(* The table after close() of the numbers F; a reserved one gives EBADF.   *)
Closed(F) == [f \in Fds |-> IF f \in F /\ fdtab[f] # Reserved THEN None ELSE fdtab[f]]

(* shutdown() and close() on the sockets of the connections S.             *)
CloseSockets(S) ==
    /\ link' = [s \in Ids |-> IF \E c \in S : SocketOf(c) = s THEN "shut" ELSE link[s]]
    /\ fdtab' = Closed({sockfd[c] : c \in S})

(* malloc() and the field assignments of add_connection, for a socket that *)
(* descriptor f now refers to; the list insertion is a separate step.  The *)
(* chunk may be that of a freed node: see Undefined.                       *)
NewNode(f, a) ==
    /\ next_conn_id \in Ids
    /\ next_conn_id' = next_conn_id + 1
    /\ mem' = [mem EXCEPT ![next_conn_id] = "live"]
    /\ active' = [active EXCEPT ![next_conn_id] = TRUE]
    /\ addr' = [addr EXCEPT ![next_conn_id] = a]
    /\ sockfd' = [sockfd EXCEPT ![next_conn_id] = f]
    /\ fdtab' = [fdtab EXCEPT ![f] = next_conn_id]
    /\ link' = [link EXCEPT ![next_conn_id] = "up"]
    /\ UNCHANGED <<conns, should_remove, thread>>

(* Seeded fault: the handle is not stored in the node.                     *)
StartThread_NoHandle(p) ==
    /\ rpc' = [rpc EXCEPT ![p] = "recv"]
    /\ UNCHANGED <<next_conn_id, conns, mem, active, should_remove, thread, addr, sockfd, rsock>>

(* pthread_create(&p->thread, NULL, conn_recv_thread, p).                  *)
StartThread(p) ==
    /\ thread' = [thread EXCEPT ![p] = TRUE]
    /\ rpc' = [rpc EXCEPT ![p] = "recv"]
    /\ UNCHANGED <<next_conn_id, conns, mem, active, should_remove, addr, sockfd, rsock>>

(* Seeded fault: the node is freed but stays linked.                       *)
RemoveNode_KeepLinked(c) ==
    /\ mem' = [mem EXCEPT ![c] = "freed"]
    /\ UNCHANGED <<next_conn_id, conns, active, should_remove, thread, addr, sockfd>>

(* remove_node_locked, or the hand-written unlinking of the rollbacks.     *)
RemoveNode(c) ==
    /\ conns' = conns \ {c}
    /\ mem' = [mem EXCEPT ![c] = "freed"]
    /\ UNCHANGED <<next_conn_id, active, should_remove, thread, addr, sockfd>>

-----------------------------------------------------------------------------
(* main(): the process is set up, the listener thread is created and the   *)
(* command loop is about to read its first line.                           *)
Init ==
    /\ proc = "running" /\ running = TRUE /\ early = {} /\ listening = TRUE /\ backlog = 0
    /\ next_conn_id = 1 /\ conns = {}
    /\ mem = [c \in Ids |-> "unused"]
    /\ active = [c \in Ids |-> FALSE]
    /\ should_remove = [c \in Ids |-> FALSE]
    /\ thread = [c \in Ids |-> FALSE]
    /\ addr = [c \in Ids |-> Incoming]
    /\ sockfd = [c \in Ids |-> None]
    /\ fdtab = [f \in Fds |-> None]
    /\ link = [c \in Ids |-> "none"]
    /\ mutex = "free" /\ uaf = {}
    /\ mpc = "prompt" /\ mcur = None /\ mcmd = NoCmd /\ mfd = None
    /\ lpc = "check" /\ lcur = None /\ lfd = None
    /\ rpc = [c \in Ids |-> "none"] /\ rsock = [c \in Ids |-> None]

-----------------------------------------------------------------------------
(* Main thread.                                                            *)

(* The user names a connection only once it is announced, unless hasty.    *)
Nameable(cmd) ==
    HastyUser \/ cmd.id = None \/ (cmd.id < next_conn_id /\ cmd.id # lcur)

Prompt == mpc' = "prompt" /\ mcur' = None /\ mcmd' = NoCmd /\ mfd' = None

ReadLine(cmd) ==
    /\ mpc = "prompt" /\ Nameable(cmd)
    /\ mcmd' = cmd /\ mpc' = "reap"
    /\ UNCHANGED <<proc, running, early, nodeVars, sockVars, mutex, uaf, mcur, mfd, lisVars, recvVars>>

(* fgets() returns NULL: main() returns without cmd_exit.                  *)
EndOfInput == mpc = "prompt" /\ Die("exited")

(* The scan of reap_connections over the members S: stop at a dead one, or *)
(* leave for the command that called it.                                   *)
ReapScan(S) ==
    \/ \E c \in S : should_remove[c] /\ mcur' = c /\ mpc' = "reapJoin"
                    /\ UNCHANGED <<mcmd, mfd>>
    \/ /\ \A c \in S : ~should_remove[c]
       /\ mcur' = None /\ mpc' = IF mcmd = NoCmd THEN "prompt" ELSE "dispatch"
       /\ UNCHANGED <<mcmd, mfd>>

Reap ==
    /\ mpc = "reap" /\ Unlocked
    /\ ReapScan(conns)
    /\ UNCHANGED <<proc, running, early, nodeVars, sockVars, mutex, uaf, lisVars, recvVars>>

ReapJoin ==
    /\ mpc = "reapJoin" /\ rpc[mcur] = "done"
    /\ mpc' = "reapRemove"
    /\ UNCHANGED <<proc, running, early, nodeVars, sockVars, mutex, uaf, mcur, mcmd, mfd,
                   lisVars, recvVars>>

(* The node is freed, then safe_printf reads its id; the scan restarts     *)
(* within the same critical section.  The descriptor is not closed.        *)
ReapRemove ==
    /\ mpc = "reapRemove" /\ Unlocked
    /\ IF mcur \in conns
       THEN RemoveNode(mcur) /\ uaf' = uaf \cup {"reap"}
       ELSE UNCHANGED <<nodeVars, uaf>>
    /\ ReapScan(conns \ {mcur})
    /\ UNCHANGED <<proc, running, early, sockVars, mutex, lisVars, recvVars>>

Dispatch(op) == mpc = "dispatch" /\ mcmd.op = op

CmdOther ==
    /\ Dispatch("other") /\ Prompt
    /\ UNCHANGED <<proc, running, early, nodeVars, sockVars, mutex, uaf, lisVars, recvVars>>

(* cmd_list prints under the mutex and reaps again.                        *)
CmdList ==
    /\ Dispatch("list") /\ Unlocked
    /\ mcmd' = NoCmd /\ mpc' = "reap"
    /\ UNCHANGED <<proc, running, early, nodeVars, sockVars, mutex, uaf, mcur, mfd, lisVars, recvVars>>

(* Seeded fault: the test of active is inverted.                           *)
Duplicate_Inverted(a) == \E c \in conns : ~active[c] /\ addr[c] = a

(* cmd_connect: refuse ourselves and an address that is already connected. *)
Duplicate(a) == \E c \in conns : active[c] /\ addr[c] = a

ConnectRefused ==
    /\ Dispatch("connect") /\ Unlocked
    /\ mcmd.to \in SelfAddrs \/ Duplicate(mcmd.to)
    /\ Prompt
    /\ UNCHANGED <<proc, running, early, nodeVars, sockVars, mutex, uaf, lisVars, recvVars>>

ConnectAllowed ==
    /\ Dispatch("connect") /\ Unlocked
    /\ mcmd.to \notin SelfAddrs /\ ~Duplicate(mcmd.to)
    /\ mpc' = "socket"
    /\ UNCHANGED <<proc, running, early, nodeVars, sockVars, mutex, uaf, mcur, mcmd, mfd,
                   lisVars, recvVars>>

(* socket(): takes a descriptor, or fails because none is left.            *)
OpenSocket ==
    /\ mpc = "socket"
    /\ \/ \E f \in Fds :
            /\ LowestFree(f)
            /\ fdtab' = [fdtab EXCEPT ![f] = Dialing]
            /\ mfd' = f /\ mpc' = "dial"
            /\ UNCHANGED <<mcur, mcmd>>
       \/ FreeFds = {} /\ Prompt /\ UNCHANGED fdtab
    /\ UNCHANGED <<proc, running, early, nodeVars, link, backlog, listening, mutex, uaf,
                   lisVars, recvVars>>

(* connect() succeeded and add_connection allocated the node.              *)
DialOk ==
    /\ mpc = "dial" /\ fdtab[mfd] = Dialing
    /\ NewNode(mfd, mcmd.to)
    /\ mcur' = next_conn_id /\ mpc' = "insert" /\ mfd' = None
    /\ UNCHANGED <<proc, running, early, backlog, listening, mutex, uaf, mcmd, lisVars, recvVars>>

(* connect() failed, or malloc() did: the socket is closed.                *)
DialFail ==
    /\ mpc = "dial"
    /\ fdtab' = Closed({mfd})
    /\ Prompt
    /\ UNCHANGED <<proc, running, early, nodeVars, link, backlog, listening, mutex, uaf,
                   lisVars, recvVars>>

ConnectInsert ==
    /\ mpc = "insert" /\ Unlocked
    /\ conns' = conns \cup {mcur}
    /\ mpc' = "create"
    /\ UNCHANGED <<proc, running, early, next_conn_id, mem, active, should_remove, thread, addr,
                   sockfd, sockVars, mutex, uaf, mcur, mcmd, mfd, lisVars, recvVars>>

ConnectCreate ==
    /\ mpc = "create"
    /\ StartThread(mcur) /\ Prompt
    /\ UNCHANGED <<proc, running, early, sockVars, mutex, uaf, lisVars>>

(* pthread_create() failed: close the socket, then unlink and free.        *)
ConnectCreateFail ==
    /\ mpc = "create"
    /\ fdtab' = Closed({sockfd[mcur]})
    /\ mpc' = "rollback"
    /\ UNCHANGED <<proc, running, early, nodeVars, link, backlog, listening, mutex, uaf, mcur, mcmd, mfd,
                   lisVars, recvVars>>

ConnectRollback ==
    /\ mpc = "rollback" /\ Unlocked
    /\ RemoveNode(mcur) /\ Prompt
    /\ UNCHANGED <<proc, running, early, sockVars, mutex, uaf, lisVars, recvVars>>

(* cmd_terminate looks the id up whether or not the connection is active.  *)
TerminateUnknown ==
    /\ Dispatch("terminate") /\ Unlocked
    /\ mcmd.id \notin conns
    /\ Prompt
    /\ UNCHANGED <<proc, running, early, nodeVars, sockVars, mutex, uaf, lisVars, recvVars>>

(* History only: c is listed, but the listener has not created its thread. *)
NoteEarly(c) ==
    early' = IF lpc \in {"create", "rollback"} /\ lcur = c THEN early \cup {c} ELSE early

(* Seeded fault: shutdown() without close().                               *)
TerminateClose_OnlyShutdown ==
    /\ Dispatch("terminate") /\ Unlocked
    /\ mcmd.id \in conns
    /\ link' = [s \in Ids |-> IF SocketOf(mcmd.id) = s THEN "shut" ELSE link[s]]
    /\ active' = [active EXCEPT ![mcmd.id] = FALSE]
    /\ mcur' = mcmd.id /\ mpc' = "termJoin"
    /\ NoteEarly(mcmd.id)
    /\ UNCHANGED <<proc, running, next_conn_id, conns, mem, should_remove, thread, addr, sockfd,
                   fdtab, backlog, listening, mutex, uaf, mcmd, mfd, lisVars, recvVars>>

(* Seeded fault: the connection is not marked inactive.                    *)
TerminateClose_StaysActive ==
    /\ Dispatch("terminate") /\ Unlocked
    /\ mcmd.id \in conns
    /\ CloseSockets({mcmd.id})
    /\ mcur' = mcmd.id /\ mpc' = "termJoin"
    /\ NoteEarly(mcmd.id)
    /\ UNCHANGED <<proc, running, nodeVars, backlog, listening, mutex, uaf, mcmd, mfd,
                   lisVars, recvVars>>

(* Notify the peer, shutdown, close, mark inactive; then unlock.           *)
TerminateClose ==
    /\ Dispatch("terminate") /\ Unlocked
    /\ mcmd.id \in conns
    /\ CloseSockets({mcmd.id})
    /\ active' = [active EXCEPT ![mcmd.id] = FALSE]
    /\ mcur' = mcmd.id /\ mpc' = "termJoin"
    /\ NoteEarly(mcmd.id)
    /\ UNCHANGED <<proc, running, next_conn_id, conns, mem, should_remove, thread, addr,
                   sockfd, backlog, listening, mutex, uaf, mcmd, mfd, lisVars, recvVars>>

TerminateSigPipe ==
    /\ Dispatch("terminate") /\ Unlocked
    /\ mcmd.id \in conns /\ SigPipe(SocketOf(mcmd.id))
    /\ Die("sigpipe")

(* Seeded fault: the join is missing.                                      *)
TerminateJoin_Skipped ==
    /\ mpc = "termJoin"
    /\ mpc' = "termRemove"
    /\ UNCHANGED <<proc, running, early, nodeVars, sockVars, mutex, uaf, mcur, mcmd, mfd,
                   lisVars, recvVars>>

(* pthread_join(cur->thread): waits for the thread; with a thread field    *)
(* that was never stored it may return an error at once.                   *)
TerminateJoin ==
    /\ mpc = "termJoin" /\ mem[mcur] = "live"
    /\ thread[mcur] => rpc[mcur] = "done"
    /\ mpc' = "termRemove"
    /\ UNCHANGED <<proc, running, early, nodeVars, sockVars, mutex, uaf, mcur, mcmd, mfd,
                   lisVars, recvVars>>

(* The join of a handle that was never stored, or read from a freed node.  *)
TerminateBadJoin ==
    /\ mpc = "termJoin"
    /\ ~thread[mcur] \/ mem[mcur] = "freed"
    /\ Undefined("terminate")

(* The list is searched for a pointer that the listener freed meanwhile.   *)
TerminateDangling ==
    /\ mpc = "termRemove" /\ Unlocked
    /\ mem[mcur] = "freed"
    /\ Undefined("terminate")

TerminateRemove ==
    /\ mpc = "termRemove" /\ Unlocked
    /\ mem[mcur] = "live"
    /\ IF mcur \in conns THEN RemoveNode(mcur) ELSE UNCHANGED nodeVars
    /\ Prompt
    /\ UNCHANGED <<proc, running, early, sockVars, mutex, uaf, lisVars, recvVars>>

(* cmd_send.                                                               *)
SendUnknown ==
    /\ Dispatch("send") /\ Unlocked
    /\ ~(mcmd.id \in conns /\ active[mcmd.id])
    /\ Prompt
    /\ UNCHANGED <<proc, running, early, nodeVars, sockVars, mutex, uaf, lisVars, recvVars>>

(* send() under the mutex; on success the report reads cur after unlock.   *)
SendMessage ==
    /\ Dispatch("send") /\ Unlocked
    /\ mcmd.id \in conns /\ active[mcmd.id]
    /\ \/ /\ SocketOf(mcmd.id) \in Ids /\ link[SocketOf(mcmd.id)] \in {"up", "fin"}
          /\ mcur' = mcmd.id /\ mpc' = "sendReport" /\ UNCHANGED <<mcmd, mfd>>
       \/ /\ SocketOf(mcmd.id) \in Ids => link[SocketOf(mcmd.id)] \notin {"up", "fin"}
          /\ Prompt
    /\ UNCHANGED <<proc, running, early, nodeVars, sockVars, mutex, uaf, lisVars, recvVars>>

SendSigPipe ==
    /\ Dispatch("send") /\ Unlocked
    /\ mcmd.id \in conns /\ active[mcmd.id] /\ SigPipe(SocketOf(mcmd.id))
    /\ Die("sigpipe")

SendReport ==
    /\ mpc = "sendReport"
    /\ Touch(mcur, "send") /\ Prompt
    /\ UNCHANGED <<proc, running, early, nodeVars, sockVars, mutex, lisVars, recvVars>>

(* cmd_exit, step by step.                                                 *)
ExitFlag ==
    /\ Dispatch("exit")
    /\ running' = FALSE /\ mpc' = "exitClose"
    /\ UNCHANGED <<proc, early, nodeVars, sockVars, mutex, uaf, mcur, mcmd, mfd, lisVars, recvVars>>

(* close(server_sock).  An accept() already blocked on the socket keeps it *)
(* open and keeps waiting: closing a descriptor does not wake the caller.  *)
ExitClose ==
    /\ mpc = "exitClose"
    /\ listening' = FALSE /\ mpc' = "exitSweep"
    /\ UNCHANGED <<proc, running, early, nodeVars, fdtab, link, backlog, mutex, uaf, mcur, mcmd, mfd,
                   lisVars, recvVars>>

ActiveConns == {c \in conns : active[c]}

ExitSweep ==
    /\ mpc = "exitSweep" /\ Unlocked
    /\ CloseSockets(ActiveConns)
    /\ active' = [c \in Ids |-> active[c] /\ c \notin conns]
    /\ mpc' = "exitJoinListener"
    /\ UNCHANGED <<proc, running, early, next_conn_id, conns, mem, should_remove, thread, addr, sockfd,
                   backlog, listening, mutex, uaf, mcur, mcmd, mfd, lisVars, recvVars>>

ExitSigPipe ==
    /\ mpc = "exitSweep" /\ Unlocked
    /\ \E c \in ActiveConns : SigPipe(SocketOf(c))
    /\ Die("sigpipe")

ExitJoinListener ==
    /\ mpc = "exitJoinListener" /\ lpc = "done"
    /\ mpc' = "exitLock"
    /\ UNCHANGED <<proc, running, early, nodeVars, sockVars, mutex, uaf, mcur, mcmd, mfd,
                   lisVars, recvVars>>

ExitLock ==
    /\ mpc = "exitLock" /\ Unlocked
    /\ mutex' = "main" /\ mpc' = "exitJoin"
    /\ UNCHANGED <<proc, running, early, nodeVars, sockVars, uaf, mcur, mcmd, mfd, lisVars, recvVars>>

(* Seeded fault: the member is freed without the join.                     *)
ExitJoin_Skipped(c) ==
    /\ mpc = "exitJoin" /\ c \in conns
    /\ RemoveNode(c)
    /\ UNCHANGED <<proc, running, early, sockVars, mutex, uaf, mainVars, lisVars, recvVars>>

(* pthread_join and free of one member, with the mutex held.               *)
ExitJoin(c) ==
    /\ mpc = "exitJoin" /\ c \in conns /\ rpc[c] = "done"
    /\ RemoveNode(c)
    /\ UNCHANGED <<proc, running, early, sockVars, mutex, uaf, mainVars, lisVars, recvVars>>

(* conn_head = NULL, unlock, and main() returns.                           *)
ExitReturn ==
    /\ mpc = "exitJoin" /\ conns = {}
    /\ mutex' = "free" /\ proc' = "exited"
    /\ UNCHANGED <<running, early, nodeVars, sockVars, uaf, mainVars, lisVars, recvVars>>

-----------------------------------------------------------------------------
(* Listener thread.                                                        *)

(* After a failed accept(): stop when the program is exiting.              *)
AfterAcceptError == lpc' = IF running THEN "check" ELSE "done"

ListenCheck ==
    /\ lpc = "check"
    /\ lpc' = IF running THEN "accept" ELSE "done"
    /\ UNCHANGED <<proc, running, early, nodeVars, sockVars, mutex, uaf, mainVars, lcur, lfd, recvVars>>

(* Entry of accept(): reserve a descriptor and block.                      *)
AcceptEnter ==
    /\ lpc = "accept" /\ listening
    /\ \E f \in Fds :
         /\ LowestFree(f)
         /\ fdtab' = [fdtab EXCEPT ![f] = Reserved]
         /\ lfd' = f /\ lpc' = "wait"
    /\ UNCHANGED <<proc, running, early, nodeVars, link, backlog, listening, mutex, uaf, mainVars,
                   lcur, recvVars>>

(* EBADF because server_sock is closed, or EMFILE.                         *)
AcceptRefused ==
    /\ lpc = "accept" /\ (~listening \/ FreeFds = {})
    /\ AfterAcceptError
    /\ UNCHANGED <<proc, running, early, nodeVars, sockVars, mutex, uaf, mainVars, lcur, lfd, recvVars>>

(* Seeded fault: a connection is taken although none is pending.           *)
Accept_Spurious ==
    /\ lpc = "wait"
    /\ backlog' = backlog - 1
    /\ NewNode(lfd, Incoming)
    /\ lcur' = next_conn_id /\ lfd' = None /\ lpc' = "insert"
    /\ UNCHANGED <<proc, running, early, listening, mutex, uaf, mainVars, recvVars>>

(* accept() returns a connection and add_connection allocates its node.    *)
Accept ==
    /\ lpc = "wait" /\ backlog > 0
    /\ backlog' = backlog - 1
    /\ NewNode(lfd, Incoming)
    /\ lcur' = next_conn_id /\ lfd' = None /\ lpc' = "insert"
    /\ UNCHANGED <<proc, running, early, listening, mutex, uaf, mainVars, recvVars>>

(* accept() returns one and malloc() fails: the socket is closed.          *)
AcceptNoMemory ==
    /\ lpc = "wait" /\ backlog > 0
    /\ backlog' = backlog - 1
    /\ fdtab' = [fdtab EXCEPT ![lfd] = None]
    /\ lfd' = None /\ lpc' = "check"
    /\ UNCHANGED <<proc, running, early, nodeVars, link, listening, mutex, uaf, mainVars, lcur, recvVars>>

(* accept() gives up with an error, as for an aborted connection.          *)
AcceptError ==
    /\ lpc = "wait"
    /\ fdtab' = [fdtab EXCEPT ![lfd] = None]
    /\ lfd' = None /\ AfterAcceptError
    /\ UNCHANGED <<proc, running, early, nodeVars, link, backlog, listening, mutex, uaf, mainVars,
                   lcur, recvVars>>

ListenInsert ==
    /\ lpc = "insert" /\ Unlocked
    /\ conns' = conns \cup {lcur}
    /\ lpc' = "create"
    /\ UNCHANGED <<proc, running, early, next_conn_id, mem, active, should_remove, thread, addr,
                   sockfd, sockVars, mutex, uaf, mainVars, lcur, lfd, recvVars>>

ListenCreate ==
    /\ lpc = "create"
    /\ mem[lcur] = "live"
    /\ StartThread(lcur)
    /\ lpc' = "announce"
    /\ UNCHANGED <<proc, running, early, sockVars, mutex, uaf, mainVars, lcur, lfd>>

ListenCreateFail ==
    /\ lpc = "create"
    /\ mem[lcur] = "live"
    /\ fdtab' = Closed({sockfd[lcur]})
    /\ lpc' = "rollback"
    /\ UNCHANGED <<proc, running, early, nodeVars, link, backlog, listening, mutex, uaf, mainVars,
                   lcur, lfd, recvVars>>

ListenRollback ==
    /\ lpc = "rollback" /\ Unlocked
    /\ mem[lcur] = "live"
    /\ RemoveNode(lcur)
    /\ lcur' = None /\ lpc' = "check"
    /\ UNCHANGED <<proc, running, early, sockVars, mutex, uaf, mainVars, lfd, recvVars>>

(* cmd_terminate freed the node: pthread_create() gets an address inside   *)
(* it, or the rollback frees what is there now, which may be the node that *)
(* the main thread has just allocated.                                     *)
ListenDangling ==
    /\ lpc \in {"create", "rollback"}
    /\ lpc = "rollback" => Unlocked
    /\ mem[lcur] = "freed"
    /\ Undefined("create")

(* The report of the new connection reads p without the mutex.             *)
Announce ==
    /\ lpc = "announce"
    /\ Touch(lcur, "announce")
    /\ lcur' = None /\ lpc' = "check"
    /\ UNCHANGED <<proc, running, early, nodeVars, sockVars, mutex, mainVars, lfd, recvVars>>

-----------------------------------------------------------------------------
(* Receive thread of connection c.                                         *)

(* recv(conn->sockfd): the number is looked up now; the call then stays on *)
(* that socket even if the descriptor is closed or reused.                 *)
RecvEnter(c) ==
    /\ rpc[c] = "recv"
    /\ mem[c] = "live"
    /\ IF SocketOf(c) \in Ids
       THEN /\ rsock' = [rsock EXCEPT ![c] = SocketOf(c)]
            /\ rpc' = [rpc EXCEPT ![c] = "wait"]
       ELSE rpc' = [rpc EXCEPT ![c] = "finish"] /\ UNCHANGED rsock
    /\ UNCHANGED <<proc, running, early, nodeVars, sockVars, mutex, uaf, mainVars, lisVars>>

(* A chat message (printed), or a retry after EINTR.  Bytes that were      *)
(* queued before a FIN are read before it: "fin" is the drained queue.     *)
RecvMessage(c) ==
    /\ rpc[c] = "wait" /\ link[rsock[c]] \in {"up", "shut"}
    /\ rpc' = [rpc EXCEPT ![c] = "recv"]
    /\ rsock' = [rsock EXCEPT ![c] = None]
    /\ UNCHANGED <<proc, running, early, nodeVars, sockVars, mutex, uaf, mainVars, lisVars>>

(* The receive loop breaks.                                                *)
LeaveLoop(c) ==
    /\ rpc' = [rpc EXCEPT ![c] = "finish"]
    /\ rsock' = [rsock EXCEPT ![c] = None]
    /\ UNCHANGED <<proc, running, early, nodeVars, sockVars, mutex, uaf, mainVars, lisVars>>

RecvDisconnect(c) == rpc[c] = "wait" /\ link[rsock[c]] = "up" /\ LeaveLoop(c)

(* Seeded fault: end of file does not break the loop.                      *)
RecvEnd_Ignored(c) ==
    /\ rpc[c] = "wait" /\ link[rsock[c]] # "up"
    /\ rpc' = [rpc EXCEPT ![c] = "recv"]
    /\ rsock' = [rsock EXCEPT ![c] = None]
    /\ UNCHANGED <<proc, running, early, nodeVars, sockVars, mutex, uaf, mainVars, lisVars>>

(* End of file after a FIN or a local shutdown, or an error after a RST.   *)
RecvEnd(c) == rpc[c] = "wait" /\ link[rsock[c]] # "up" /\ LeaveLoop(c)

(* Seeded fault: should_remove is not set.                                 *)
RecvFinish_NotMarked(c) ==
    /\ rpc[c] = "finish" /\ Unlocked
    /\ mem[c] = "live"
    /\ active' = [active EXCEPT ![c] = FALSE]
    /\ rpc' = [rpc EXCEPT ![c] = "done"]
    /\ UNCHANGED <<proc, running, early, next_conn_id, conns, mem, should_remove, thread, addr, sockfd,
                   sockVars, mutex, uaf, mainVars, lisVars, rsock>>

(* Under the mutex: inactive, and up for removal; then the thread ends.    *)
RecvFinish(c) ==
    /\ rpc[c] = "finish" /\ Unlocked
    /\ mem[c] = "live"
    /\ active' = [active EXCEPT ![c] = FALSE]
    /\ should_remove' = [should_remove EXCEPT ![c] = TRUE]
    /\ rpc' = [rpc EXCEPT ![c] = "done"]
    /\ UNCHANGED <<proc, running, early, next_conn_id, conns, mem, thread, addr, sockfd, sockVars,
                   mutex, uaf, mainVars, lisVars, rsock>>

(* The node is gone: conn->sockfd is read from it, or its flags written.   *)
RecvDangling(c) ==
    /\ rpc[c] \in {"recv", "finish"}
    /\ rpc[c] = "finish" => Unlocked
    /\ mem[c] = "freed"
    /\ Undefined("recv")

-----------------------------------------------------------------------------
(* Remote peers.                                                           *)

PeerConnects ==
    /\ listening \/ lpc = "wait"
    /\ backlog < MaxBacklog
    /\ backlog' = backlog + 1
    /\ UNCHANGED <<proc, running, early, nodeVars, fdtab, link, listening, mutex, uaf, mainVars,
                   lisVars, recvVars>>

(* The peer closes its end in order ("fin") or resets it ("rst").          *)
PeerCloses(s, how) ==
    /\ link[s] = "up" \/ (link[s] = "fin" /\ how = "rst")
    /\ link' = [link EXCEPT ![s] = how]
    /\ UNCHANGED <<proc, running, early, nodeVars, fdtab, backlog, listening, mutex, uaf, mainVars,
                   lisVars, recvVars>>

-----------------------------------------------------------------------------
MainStep ==
    \/ Reap \/ ReapJoin \/ ReapRemove \/ CmdOther \/ CmdList
    \/ ConnectRefused \/ ConnectAllowed \/ OpenSocket \/ DialOk \/ DialFail
    \/ ConnectInsert \/ ConnectCreate \/ ConnectCreateFail \/ ConnectRollback
    \/ TerminateUnknown \/ TerminateClose \/ TerminateSigPipe \/ TerminateJoin
    \/ TerminateBadJoin \/ TerminateRemove \/ TerminateDangling
    \/ SendUnknown \/ SendMessage \/ SendSigPipe \/ SendReport
    \/ ExitFlag \/ ExitClose \/ ExitSweep \/ ExitSigPipe \/ ExitJoinListener \/ ExitLock
    \/ (\E c \in Ids : ExitJoin(c)) \/ ExitReturn

ListenerStep ==
    \/ ListenCheck \/ AcceptEnter \/ AcceptRefused \/ Accept \/ AcceptNoMemory
    \/ ListenInsert \/ ListenCreate \/ ListenCreateFail \/ ListenRollback
    \/ ListenDangling \/ Announce

RecvStep(c) == RecvEnter(c) \/ RecvEnd(c) \/ RecvFinish(c) \/ RecvDangling(c)

(* What the user and the peers decide: never required to happen.           *)
Environment ==
    \/ (\E cmd \in Commands : ReadLine(cmd)) \/ EndOfInput
    \/ AcceptError \/ PeerConnects
    \/ \E c \in Ids : \/ RecvMessage(c) \/ RecvDisconnect(c)
                      \/ \E how \in {"fin", "rst"} : PeerCloses(c, how)

Next ==
    /\ proc = "running"
    /\ MainStep \/ ListenerStep \/ (\E c \in Ids : RecvStep(c)) \/ Environment

Spec == Init /\ [][Next]_vars

(* Every thread that can take a step takes one; the scheduler of the       *)
(* operating system gives no more than that.                               *)
Up == proc = "running"
Fairness ==
    /\ WF_vars(Up /\ MainStep)
    /\ WF_vars(Up /\ ListenerStep)
    /\ \A c \in Ids : WF_vars(Up /\ RecvStep(c))

FairSpec == Spec /\ Fairness

-----------------------------------------------------------------------------
(* Properties.                                                             *)

MainPlaces == {"prompt", "reap", "reapJoin", "reapRemove", "dispatch", "socket", "dial",
               "insert", "create", "rollback", "termJoin", "termRemove", "sendReport",
               "exitClose", "exitSweep", "exitJoinListener", "exitLock", "exitJoin"}
ListenerPlaces == {"check", "accept", "wait", "insert", "create", "rollback", "announce", "done"}
(* The places where a thread goes on to use its pointer to a node.         *)
MainDerefs == {"reapJoin", "reapRemove", "insert", "create", "rollback", "termJoin",
               "termRemove", "sendReport"}
ListenerDerefs == {"insert", "create", "rollback", "announce"}
RecvPlaces == {"none", "recv", "wait", "finish", "done"}

ProcTypes ==
    /\ proc \in {"running", "exited", "sigpipe", "undefined"}
    /\ running \in BOOLEAN
    /\ early \subseteq Ids
    /\ mutex \in {"free", "main"}
    /\ uaf \subseteq {"reap", "terminate", "send", "create", "announce", "recv"}

NodeTypes ==
    /\ next_conn_id \in 1..(MaxId + 1)
    /\ conns \subseteq Ids
    /\ mem \in [Ids -> {"unused", "live", "freed"}]
    /\ active \in [Ids -> BOOLEAN]
    /\ should_remove \in [Ids -> BOOLEAN]
    /\ thread \in [Ids -> BOOLEAN]
    /\ addr \in [Ids -> Addrs \cup {Incoming}]
    /\ sockfd \in [Ids -> Fds \cup {None}]

SockTypes ==
    /\ fdtab \in [Fds -> Ids \cup {None, Dialing, Reserved}]
    /\ link \in [Ids -> {"none", "up", "fin", "rst", "shut"}]
    /\ backlog \in 0..MaxBacklog
    /\ listening \in BOOLEAN

MainTypes ==
    /\ mpc \in MainPlaces
    /\ mcur \in Ids \cup {None}
    /\ mcmd \in CommandType
    /\ mfd \in Fds \cup {None}
    /\ mpc \in MainDerefs => mcur \in Ids
    /\ mpc = "dial" => mfd \in Fds

ListenerTypes ==
    /\ lpc \in ListenerPlaces
    /\ lcur \in Ids \cup {None}
    /\ lfd \in Fds \cup {None}
    /\ lpc \in ListenerDerefs => lcur \in Ids
    /\ lpc = "wait" => lfd \in Fds

RecvTypes ==
    /\ rpc \in [Ids -> RecvPlaces]
    /\ rsock \in [Ids -> Ids \cup {None}]
    /\ \A c \in Ids : rpc[c] = "wait" => rsock[c] \in Ids

(* Every variable of the process keeps its type: pointers name a PeerConn  *)
(* wherever a thread goes on to use them, descriptors are in the table,    *)
(* accept() never takes a connection that is not there.                    *)
TypeOK ==
    /\ ProcTypes /\ NodeTypes /\ SockTypes
    /\ MainTypes /\ ListenerTypes /\ RecvTypes

(* pthread_join, the rollbacks and cmd_exit free nodes to which another    *)
(* thread may hold a pointer.  Whatever the user types, no thread uses a   *)
(* freed node or a handle that was never stored, unless cmd_terminate got  *)
(* a connection whose receive thread the listener had not created yet.     *)
UndefinedOnlyByHaste == proc = "undefined" => early # {}

(* cmd_connect tests for a duplicate, unlocks and connects; still no two   *)
(* active connections are ever dialled to one address.                     *)
NoDuplicateOutgoing ==
    \A c, d \in conns :
        active[c] /\ active[d] /\ addr[c] = addr[d] /\ addr[c] \in Addrs => c = d

(* A listed connection that is no longer active is not forgotten: it is    *)
(* marked for reap_connections, or cmd_terminate is busy removing it, or   *)
(* cmd_exit is closing everything.                                         *)
InactiveCollected ==
    \A c \in conns :
        \/ active[c] \/ should_remove[c]
        \/ mpc \in {"termJoin", "termRemove"} /\ mcur = c
        \/ ~running

(* conn_recv_thread keeps using the PeerConn it was given after the other  *)
(* threads closed the connection; the node outlives it because every path  *)
(* that frees a node joins its thread first.                               *)
ReaderNodeLive ==
    \A c \in Ids : rpc[c] \in {"recv", "wait", "finish"} => mem[c] = "live"

(* The inductive invariant behind ReaderNodeLive and the refinement of     *)
(* ConnLifecycle.  A node is being built by the one thread that allocated  *)
(* it until that thread has created its receive thread or rolled back.     *)
MainBuilds(c) == mpc \in BuildPlaces /\ mcur = c
ListenerBuilds(c) == lpc \in BuildPlaces /\ lcur = c

FreshIds ==
    \A c \in Ids : /\ mem[c] = "unused" <=> c >= next_conn_id
                   /\ mem[c] = "unused" => rpc[c] = "none"
Handles ==
    \A c \in Ids : /\ thread[c] <=> rpc[c] # "none"
                   /\ should_remove[c] => rpc[c] = "done"
OneBuilder ==
    \A c \in Ids : /\ MainBuilds(c) \/ ListenerBuilds(c) => mem[c] = "live" /\ rpc[c] = "none"
                   /\ mem[c] = "live" /\ rpc[c] = "none" => MainBuilds(c) \/ ListenerBuilds(c)
                   /\ ~(MainBuilds(c) /\ ListenerBuilds(c))
ListedAreLive == \A c \in conns : mem[c] = "live"
NamedIsAnnounced == mcmd.id # None => mcmd.id < next_conn_id /\ ~ListenerBuilds(mcmd.id)
MainKeeps ==
    /\ mpc \in {"reapJoin", "termJoin", "sendReport"} => mcur \in conns /\ rpc[mcur] # "none"
    /\ mpc \in {"reapRemove", "termRemove"} => mcur \in conns /\ rpc[mcur] = "done"

(* Between the steps of the three kinds of threads: an id is used once,    *)
(* PeerConn.thread is valid exactly when the thread exists, and a node     *)
(* that reap_connections or cmd_terminate let go of the mutex for is still *)
(* listed when they come back.                                             *)
LifeInv ==
    /\ FreshIds /\ Handles /\ OneBuilder /\ ListedAreLive
    /\ ReaderNodeLive /\ NamedIsAnnounced /\ MainKeeps

(* The same for any user, hasty or not: what LifeInv says of a node and of *)
(* the pointers to it holds unless that node was terminated too early, so  *)
(* haste with one connection does not endanger the memory of another.      *)
OneBuilderUnlessEarly ==
    \A c \in Ids :
        /\ MainBuilds(c) \/ ListenerBuilds(c) =>
               rpc[c] = "none" /\ (mem[c] = "live" \/ c \in early)
        /\ mem[c] = "live" /\ rpc[c] = "none" => MainBuilds(c) \/ ListenerBuilds(c)
        /\ ~(MainBuilds(c) /\ ListenerBuilds(c))
        /\ lpc = "insert" /\ lcur = c => c \notin conns
EarlyAreOfListener ==
    \A c \in early : mem[c] # "unused" /\ ~MainBuilds(c) /\ ~(lpc = "insert" /\ lcur = c)
ReaderLiveUnlessEarly ==
    \A c \in Ids \ early : rpc[c] \in {"recv", "wait", "finish"} => mem[c] = "live"
MainKeepsUnlessEarly ==
    /\ mpc = "reapJoin" => mcur \in conns /\ rpc[mcur] = "done"
    /\ mpc = "reapRemove" => mcur \in conns /\ rpc[mcur] = "done"
    /\ mpc = "termJoin" /\ mcur \notin early => mcur \in conns /\ rpc[mcur] # "none"
    /\ mpc = "termRemove" /\ mcur \notin early => mcur \in conns /\ rpc[mcur] = "done"
PatientUser ==
    ~HastyUser =>
        /\ early = {} /\ NamedIsAnnounced
        /\ mpc = "sendReport" => mcur \in conns /\ rpc[mcur] # "none"

AnyUserInv ==
    /\ FreshIds /\ Handles /\ OneBuilderUnlessEarly /\ EarlyAreOfListener /\ ListedAreLive
    /\ ReaderLiveUnlessEarly /\ MainKeepsUnlessEarly /\ PatientUser
    /\ UndefinedOnlyByHaste

(* While a listed connection is active its sockfd denotes its own socket,  *)
(* so cmd_send and cmd_exit never write to another peer.  The window of a  *)
(* failed pthread_create, which closes the socket first, is excepted.      *)
RollingBack(c) == (mpc = "rollback" /\ mcur = c) \/ (lpc = "rollback" /\ lcur = c)

ActiveOwnsFd ==
    \A c \in conns : active[c] /\ ~RollingBack(c) => SocketOf(c) = c

(* A descriptor number that cmd_terminate or cmd_exit closed may be given  *)
(* to a new connection before the old conn_recv_thread calls recv() again; *)
(* the thread then takes what the new peer sends, but only while the main  *)
(* thread is joining it: on behalf of a connection that is still in use no *)
(* thread ever reads from another one.                                     *)
ForeignReadOnlyWhileJoined ==
    \A c \in Ids :
        rpc[c] = "wait" /\ rsock[c] # c =>
            ~active[c] /\ ((mpc = "termJoin" /\ mcur = c) \/ ~running)

(* With a user who waits for the announcement, the only reads of freed     *)
(* nodes are the two reports: of reap_connections after remove_node_locked *)
(* and of listener_thread after pthread_create.                            *)
OnlyKnownStaleReads == uaf \subseteq {"reap", "announce"}

(* reap_connections frees nodes without closing their sockets; every other *)
(* way to end a connection, from terminate to the rollbacks and cmd_exit,  *)
(* gives the descriptor back: one that is lost belongs to a connection     *)
(* that its peer ended and that nobody closed on this side.                *)
LostOnlyByReaper ==
    \A f \in Fds :
        fdtab[f] \in Ids /\ mem[fdtab[f]] = "freed" =>
            should_remove[fdtab[f]] /\ link[fdtab[f]] # "shut"

(* A peer that closed or reset its end is noticed: conn_recv_thread makes  *)
(* the connection inactive, unless the program is exiting by then.         *)
PeerLeaveNoticed ==
    \A c \in Ids :
        (c \in conns /\ active[c] /\ link[c] \in {"fin", "rst"})
            ~> (c \notin conns \/ ~active[c] \/ ~running \/ proc # "running")

(* The node implements ConnLifecycle: every PeerConn is created once, gets *)
(* at most one conn_recv_thread, is never active again once closed, and is *)
(* freed exactly once and only after its thread was joined.                *)
ReaderOf(c) == CASE rpc[c] = "none" -> "none"
                 [] rpc[c] = "done" -> "done"
                 [] OTHER -> "run"

Life == INSTANCE ConnLifecycle
            WITH Conns <- Ids, node <- mem, open <- active,
                 reader <- [c \in Ids |-> ReaderOf(c)]

ImplementsLifecycle == Life!Spec

(* "Close the server socket so that accept() in listener_thread is broken  *)
(* off and ends": once cmd_exit got there, the program ends.               *)
ExitCompletes == (mpc = "exitClose") ~> (proc # "running")

(* "best-effort, success not certain": notifying a peer that has gone does *)
(* not end the program.                                                    *)
NotifyIsBestEffort == proc # "sigpipe"
====
