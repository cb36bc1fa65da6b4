----------------------------- MODULE EchoStream -----------------------------
(***************************************************************************)
(* The stream echo programs of S6_IPC_Socket/ex1_4sockets: tcp_server.c    *)
(* and tcp_client.c (family "inet"), unix_socket_server_stream.c and       *)
(* unix_socket_client_stream.c (family "unix").  A server accepts one      *)
(* client, sends back whatever a read() returned behind a fixed prefix,    *)
(* and ends when that client leaves.  A client writes a line, then calls   *)
(* read() once and takes what it gets for the answer.                      *)
(*                                                                         *)
(* Sizes are scaled down: a read() returns at most two units, the prefix   *)
(* is one unit, a line is one unit or, when it fills the buffer, two.  So  *)
(* the answer to a long line does not fit into the buffer of the client.   *)
(* Unit n of a client is the n-th it wrote; the prefix is 0.               *)
(***************************************************************************)
EXTENDS Naturals, Sequences, SequencesExt, Functions

CONSTANTS
    EchoServers,    \* server processes that may be started, one after or beside the other
    EchoClients,    \* client processes
    MaxUnits        \* bound: units the clients write

NoServer == 0
NoClient == 0
Prefix == 0
BufferUnits == 2

VARIABLES
    family,     \* "inet" or "unix"
    spc,        \* servers: place
    path,       \* the server that the port or the socket file was bound by
    lingers,    \* a connection that a TCP server closed first still holds the port
    backlog,    \* servers: clients that are connected and not accepted
    serving,    \* servers: the accepted client
    got,        \* servers: what the last read() returned
    cpc,        \* clients: place
    peer,       \* clients: the server they connected to
    up, down,   \* clients: bytes on their way to the server, and back
    sgone,      \* clients: the other end: "open", or "fin", "rst", "dead" (reset and already reported)
    cgone,      \* clients: their own end, as the server finds it
    written,    \* history: units each client wrote
    long,       \* history: lines of two units among them
    overtaken,  \* history: servers before whose bind() came that of another, after their unlink()
    shown       \* history: the last unit each client printed

serverVars == <<spc, path, lingers, backlog, serving, got>>
clientVars == <<cpc, peer>>
wireVars == <<up, down, sgone, cgone>>
history == <<written, long, shown, overtaken>>
streamVars == <<family, serverVars, clientVars, wireVars, history>>

Running(s) == spc[s] \in {"accept", "read", "write"}

StreamInit ==
    /\ family \in {"inet", "unix"}
    /\ spc = [s \in EchoServers |-> "off"]
    /\ path = NoServer /\ lingers = FALSE
    /\ backlog = [s \in EchoServers |-> <<>>]
    /\ serving = [s \in EchoServers |-> NoClient]
    /\ got = [s \in EchoServers |-> <<>>]
    /\ cpc = [c \in EchoClients |-> "off"]
    /\ peer = [c \in EchoClients |-> NoServer]
    /\ up = [c \in EchoClients |-> <<>>] /\ down = [c \in EchoClients |-> <<>>]
    /\ sgone = [c \in EchoClients |-> "open"] /\ cgone = [c \in EchoClients |-> "open"]
    /\ written = [c \in EchoClients |-> 0]
    /\ long = [c \in EchoClients |-> 0]
    /\ shown = [c \in EchoClients |-> 0]
    /\ overtaken = {}

-----------------------------------------------------------------------------
(* The kernel.                                                             *)

(* How many of n available units one read() returns: TCP may deliver a     *)
(* part first, a UNIX socket gives what there is.                          *)
Returned(n) ==
    LET most == IF n < BufferUnits THEN n ELSE BufferUnits
    IN  IF family = "inet" THEN 1 .. most ELSE {most}

(* Writing to an end that is gone raises SIGPIPE; TCP learns of it only    *)
(* from the answer to a first write.                                       *)
Breaks(end) == end = "dead" \/ (end # "open" /\ family = "unix")

(* What the writer finds the next time.                                    *)
AfterWrite(end) ==
    CASE end = "open" -> {"open"}
      [] end = "fin"  -> {"fin", "dead"}
      [] OTHER        -> {"dead"}

(* Closing with unread bytes resets the connection.                        *)
Closed(end, unread) ==
    IF end # "open" THEN end ELSE IF unread = <<>> THEN "fin" ELSE "rst"

(* The server closes an orderly connection before its client does.         *)
LeavesFirst(s) ==
    /\ family = "inet" /\ serving[s] # NoClient
    /\ cgone[serving[s]] = "open" /\ up[serving[s]] = <<>>

(* The descriptors of a server are closed: its client sees the end, those  *)
(* it has not accepted are reset.                                          *)
ServerCloses(s) ==
    /\ spc' = [spc EXCEPT ![s] = "ended"]
    /\ sgone' = [c \in EchoClients |->
                    IF c = serving[s] THEN Closed(sgone[c], up[c])
                    ELSE IF Contains(backlog[s], c) THEN Closed(sgone[c], <<Prefix>>)
                    ELSE sgone[c]]
    /\ lingers' = (lingers \/ LeavesFirst(s))
    /\ backlog' = [backlog EXCEPT ![s] = <<>>]
    /\ serving' = [serving EXCEPT ![s] = NoClient]
    /\ got' = [got EXCEPT ![s] = <<>>]
    /\ UNCHANGED <<family, clientVars, up, down, cgone, history>>

(* A port is free again when its process is gone; a socket file stays.     *)
PathLeft(s) == IF family = "inet" /\ path = s THEN NoServer ELSE path

-----------------------------------------------------------------------------
(* The servers.                                                            *)

(* A TCP port is in use.                                                   *)
PortHeld(s) == family = "inet" /\ (lingers \/ \E t \in EchoServers \ {s} : Running(t))

(* bind() fails; the address of a UNIX server is its file.                 *)
Taken(s) == PortHeld(s) \/ (family = "unix" /\ path # NoServer)

(* Seeded fault: a socket file that was left behind is not removed.        *)
StartServer_KeepsFile(s) ==
    /\ spc[s] = "off"
    /\ spc' = [spc EXCEPT ![s] = "bind"]
    /\ UNCHANGED <<family, path, lingers, backlog, serving, got, clientVars, wireVars, history>>

(* The UNIX server removes the file, whoever bound it.                     *)
StartServer(s) ==
    /\ spc[s] = "off"
    /\ spc' = [spc EXCEPT ![s] = "bind"]
    /\ path' = (IF family = "unix" THEN NoServer ELSE path)
    /\ UNCHANGED <<family, lingers, backlog, serving, got, clientVars, wireVars, history>>

(* bind() and listen().  Another UNIX server may have bound the file since *)
(* this one removed it.                                                    *)
BindServer(s) ==
    /\ spc[s] = "bind"
    /\ IF Taken(s)
       THEN spc' = [spc EXCEPT ![s] = "refused"] /\ UNCHANGED <<path, overtaken>>
       ELSE /\ spc' = [spc EXCEPT ![s] = "accept"] /\ path' = s
            /\ overtaken' = overtaken \cup {t \in EchoServers \ {s} : spc[t] = "bind"}
    /\ UNCHANGED <<family, lingers, backlog, serving, got, clientVars, wireVars, written, long, shown>>

AcceptClient(s) ==
    /\ spc[s] = "accept" /\ backlog[s] # <<>>
    /\ serving' = [serving EXCEPT ![s] = Head(backlog[s])]
    /\ backlog' = [backlog EXCEPT ![s] = Tail(@)]
    /\ spc' = [spc EXCEPT ![s] = "read"]
    /\ UNCHANGED <<family, path, lingers, got, clientVars, wireVars, history>>

ServerRead(s) ==
    /\ spc[s] = "read"
    /\ LET c == serving[s] IN
         /\ up[c] # <<>>
         /\ \E n \in Returned(Len(up[c])) :
              /\ got' = [got EXCEPT ![s] = SubSeq(up[c], 1, n)]
              /\ up' = [up EXCEPT ![c] = SubSeq(@, n + 1, Len(@))]
    /\ spc' = [spc EXCEPT ![s] = "write"]
    /\ UNCHANGED <<family, path, lingers, backlog, serving, clientVars, down, sgone, cgone, history>>

(* Seeded fault: the text is not terminated, so the tail of a longer one   *)
(* that was in the buffer before is sent with it.                          *)
Response_NoTerminator(s) ==
    LET u == got[s] IN
    <<Prefix>> \o u \o (IF Len(u) < BufferUnits /\ u[1] > 1 /\ long[serving[s]] > 0
                        THEN <<u[1] - 1>> ELSE <<>>)

(* Seeded fault: a read that is not a full buffer is not answered.         *)
Response_FullOnly(s) == IF Len(got[s]) < BufferUnits THEN <<>> ELSE <<Prefix>> \o got[s]

(* Seeded fault: the prefix is put before each half of the text.           *)
Response_Twice(s) == IF Len(got[s]) = 1 THEN <<Prefix, Prefix>> \o got[s] ELSE <<Prefix>> \o got[s]

Response(s) == <<Prefix>> \o got[s]

(* The result of write() is not looked at.                                 *)
ServerWrite(s) ==
    /\ spc[s] = "write"
    /\ LET c == serving[s] IN
         /\ ~Breaks(cgone[c])
         /\ \E end \in AfterWrite(cgone[c]) : cgone' = [cgone EXCEPT ![c] = end]
         /\ down' = [down EXCEPT ![c] = IF cgone[c] = "open" THEN @ \o Response(s) ELSE @]
    /\ spc' = [spc EXCEPT ![s] = "read"]
    /\ got' = [got EXCEPT ![s] = <<>>]
    /\ UNCHANGED <<family, path, lingers, backlog, serving, clientVars, up, sgone, history>>

(* read() returned 0 or an error: everything is closed and the file is     *)
(* removed, whoever bound it last.                                         *)
ServerEnds(s) ==
    /\ spc[s] = "read" /\ up[serving[s]] = <<>> /\ cgone[serving[s]] # "open"
    /\ path' = (IF family = "unix" THEN NoServer ELSE PathLeft(s))
    /\ ServerCloses(s)

SigPipeServer(s) ==
    /\ spc[s] = "write" /\ Breaks(cgone[serving[s]])
    /\ path' = PathLeft(s)
    /\ ServerCloses(s)

(* TIME_WAIT is over.                                                      *)
PortFreed == lingers /\ lingers' = FALSE
             /\ UNCHANGED <<family, spc, path, backlog, serving, got, clientVars, wireVars, history>>

(* Ctrl+C, or accept() failed.                                             *)
KillServer(s) ==
    /\ spc[s] = "bind" \/ Running(s)
    /\ path' = PathLeft(s) /\ ServerCloses(s)

-----------------------------------------------------------------------------
(* The clients.                                                            *)

ClientConnects(c) ==
    /\ cpc[c] = "off"
    /\ IF path # NoServer /\ Running(path)
       THEN /\ peer' = [peer EXCEPT ![c] = path]
            /\ backlog' = [backlog EXCEPT ![path] = Append(@, c)]
            /\ cpc' = [cpc EXCEPT ![c] = "prompt"]
       ELSE /\ cpc' = [cpc EXCEPT ![c] = "ended"]
            /\ UNCHANGED <<peer, backlog>>
    /\ UNCHANGED <<family, spc, path, lingers, serving, got, wireVars, history>>

ClientCloses(c) ==
    /\ cpc' = [cpc EXCEPT ![c] = "ended"]
    /\ cgone' = [cgone EXCEPT ![c] = Closed(@, down[c])]
    /\ down' = [down EXCEPT ![c] = <<>>]
    /\ UNCHANGED <<family, serverVars, peer, up, sgone, history>>

(* A line is typed and written; nobody looks at the result of write().     *)
ClientWrites(c, n) ==
    /\ cpc[c] = "prompt" /\ ~Breaks(sgone[c])
    /\ FoldFunction(+, n, written) <= MaxUnits
    /\ \E end \in AfterWrite(sgone[c]) : sgone' = [sgone EXCEPT ![c] = end]
    /\ up' = [up EXCEPT ![c] = IF sgone[c] = "open"
                               THEN @ \o [i \in 1 .. n |-> written[c] + i] ELSE @]
    /\ written' = [written EXCEPT ![c] = IF sgone[c] = "open" THEN @ + n ELSE @]
    /\ long' = [long EXCEPT ![c] = IF n > 1 THEN @ + 1 ELSE @]
    /\ cpc' = [cpc EXCEPT ![c] = "recv"]
    /\ UNCHANGED <<family, serverVars, peer, down, cgone, shown, overtaken>>

(* A line that begins with a zero byte has strlen() 0: the client writes   *)
(* nothing and waits for the answer all the same.                          *)
ClientWritesNothing(c) ==
    /\ cpc[c] = "prompt" /\ ~Breaks(sgone[c])
    /\ sgone' = [sgone EXCEPT ![c] = IF @ = "rst" THEN "dead" ELSE @]
    /\ cpc' = [cpc EXCEPT ![c] = "recv"]
    /\ UNCHANGED <<family, serverVars, peer, up, down, cgone, history>>

(* A line is typed and the server is gone.                                 *)
SigPipeClient(c) == cpc[c] = "prompt" /\ Breaks(sgone[c]) /\ ClientCloses(c)

(* One read() is taken for the answer.                                     *)
ClientReads(c) ==
    /\ cpc[c] = "recv" /\ down[c] # <<>>
    /\ \E n \in Returned(Len(down[c])) :
         /\ down' = [down EXCEPT ![c] = SubSeq(@, n + 1, Len(@))]
         /\ LET units == {down[c][i] : i \in 1 .. n} \ {Prefix} IN
              shown' = [shown EXCEPT ![c] =
                          IF units = {} THEN @ ELSE CHOOSE u \in units : \A v \in units : v <= u]
    /\ cpc' = [cpc EXCEPT ![c] = "prompt"]
    /\ UNCHANGED <<family, serverVars, peer, up, sgone, cgone, written, long, overtaken>>

(* The server closed the connection.                                       *)
ClientEnds(c) ==
    /\ cpc[c] = "recv" /\ down[c] = <<>> /\ sgone[c] # "open"
    /\ ClientCloses(c)

(* Ctrl+D at the prompt.                                                   *)
EndOfLines(c) == cpc[c] = "prompt" /\ ClientCloses(c)

-----------------------------------------------------------------------------
ServerStep(s) ==
    AcceptClient(s) \/ ServerRead(s) \/ ServerWrite(s) \/ ServerEnds(s) \/ SigPipeServer(s)

ClientStep(c) == ClientReads(c) \/ ClientEnds(c)

StreamNext ==
    \/ \E s \in EchoServers : ServerStep(s) \/ StartServer(s) \/ BindServer(s) \/ KillServer(s)
    \/ PortFreed
    \/ \E c \in EchoClients :
         \/ ClientStep(c) \/ ClientConnects(c) \/ SigPipeClient(c) \/ EndOfLines(c)
         \/ ClientWritesNothing(c)
         \/ \E n \in 1 .. BufferUnits : ClientWrites(c, n)

(* The processes go on; users and Ctrl+C come when they like.              *)
StreamGoes ==
    \/ \E s \in EchoServers : BindServer(s) \/ ServerStep(s)
    \/ \E c \in EchoClients : ClientStep(c)

-----------------------------------------------------------------------------
(* What read() of the server returned and it has not sent back yet.        *)
BeingEchoed(c) ==
    IF \E s \in EchoServers : serving[s] = c
    THEN got[CHOOSE s \in EchoServers : serving[s] = c] ELSE <<>>

(* However the bytes are joined and split, and whenever another client or  *)
(* server comes and goes: while both ends are open the text comes back     *)
(* once, complete and in order (the echo loops of both servers, the buffer *)
(* and its terminator).                                                    *)
EchoInOrder ==
    \A c \in EchoClients : sgone[c] = "open" /\ cgone[c] = "open" =>
        LET back == down[c] \o BeingEchoed(c) \o up[c]
            text == {i \in DOMAIN back : back[i] # Prefix}
        IN  /\ {back[i] : i \in text} = (shown[c] + 1) .. written[c]
            /\ \A i, j \in text : i < j => back[i] < back[j]

(* A UNIX client is in step with its server at the prompt, except that     *)
(* each line which filled the buffer may leave it one unit behind for the  *)
(* rest of the session: the answer was longer than its buffer, and the     *)
(* next read() finds the rest of it (receive_message in main).             *)
BehindByLongLines ==
    \A c \in EchoClients :
        family = "unix" /\ cpc[c] = "prompt" /\ sgone[c] = "open" => written[c] - shown[c] <= long[c]

(* A server that is started gets its address, whatever a killed one left   *)
(* behind.  A TCP port is refused that another server listens on, or that  *)
(* a connection the killed one closed first still holds; a socket file     *)
(* only if another server was started beside this one and did its bind()   *)
(* between the unlink() and the bind() of this one (init_server_socket     *)
(* removes the file; create_server_socket sets no SO_REUSEADDR).           *)
StartsUnlessHeld ==
    [][\A s \in EchoServers : spc[s] # "refused" /\ spc'[s] = "refused" =>
           PortHeld(s) \/ (family = "unix" /\ s \in overtaken)]_streamVars

Queued(c) == \E s \in EchoServers : Running(s) /\ Contains(backlog[s], c)

(* The server owes nothing: the client has printed all it wrote.  In a     *)
(* client that waits this is so only after a line with nothing in it.      *)
AllPrinted(c) == sgone[c] = "open" /\ written[c] = shown[c]

(* No client waits for ever for an answer, be it out of step, or its       *)
(* server killed: it only waits while the server is busy with another      *)
(* client (accept_client is called once), or after it sent a line with     *)
(* nothing in it and has printed every unit it ever wrote (send_message    *)
(* writes strlen(msg) bytes, receive_message waits for an answer).         *)
ClientsGoOn == []<>(\A c \in EchoClients : cpc[c] = "recv" => Queued(c) \/ AllPrinted(c))
=============================================================================
