---------------------------- MODULE EchoDatagram ----------------------------
(***************************************************************************)
(* The datagram echo programs of S6_IPC_Socket/ex1_4sockets: udp_server.c  *)
(* and udp_client.c (kind "udp"), unix_socket_server_dgram.c and           *)
(* unix_socket_client_dgram.c (kind "unix").  A server answers every       *)
(* datagram to the address it came from, for ever.  A client sends one     *)
(* line and waits for one datagram, for ever: nothing is sent again.       *)
(*                                                                         *)
(* A UDP client has a port of its own.  All UNIX clients bind CLIENT_PATH, *)
(* each after removing the file, so an answer reaches the one that bound   *)
(* it last.                                                                *)
(***************************************************************************)
EXTENDS Naturals, Sequences

CONSTANTS
    DgramServers,   \* server processes that may be started
    DgramClients,   \* client processes
    MaxLines        \* bound: lines one client sends

Nobody == 0
NoRequest == [from |-> Nobody, line |-> 0]

VARIABLES
    kind,       \* "udp" or "unix"
    dspc,       \* servers: place
    spath,      \* the server that the port or SERVER_PATH was bound by
    inbox,      \* servers: requests queued at the socket
    handling,   \* servers: the request being answered
    dcpc,       \* clients: place
    cpath,      \* the client that CLIENT_PATH was bound by
    answers,    \* clients: answers queued at the socket
    line,       \* clients: lines sent
    fate,       \* history: why no answer will come to the last line
    overtook,   \* history: clients not answered yet when this one bound CLIENT_PATH
    printed     \* history: the last answer a client printed

dserverVars == <<dspc, spath, inbox, handling>>
dclientVars == <<dcpc, cpath, answers, line>>
dhistory == <<fate, overtook, printed>>
dgramVars == <<kind, dserverVars, dclientVars, dhistory>>

Up(s) == s # Nobody /\ dspc[s] \in {"recv", "send"}
Open(c) == c # Nobody /\ dcpc[c] \in {"prompt", "recv"}

DgramInit ==
    /\ kind \in {"udp", "unix"}
    /\ dspc = [s \in DgramServers |-> "off"] /\ spath = Nobody
    /\ inbox = [s \in DgramServers |-> <<>>]
    /\ handling = [s \in DgramServers |-> NoRequest]
    /\ dcpc = [c \in DgramClients |-> "off"] /\ cpath = Nobody
    /\ answers = [c \in DgramClients |-> <<>>]
    /\ line = [c \in DgramClients |-> 0]
    /\ fate = [c \in DgramClients |-> "none"]
    /\ overtook = [c \in DgramClients |-> {}]
    /\ printed = [c \in DgramClients |-> NoRequest]

-----------------------------------------------------------------------------
(* The servers.                                                            *)

(* The UNIX server removes the file, so bind() succeeds.                   *)
DgramStart(s) ==
    /\ dspc[s] = "off"
    /\ IF kind = "udp" /\ \E t \in DgramServers : Up(t)
       THEN dspc' = [dspc EXCEPT ![s] = "ended"] /\ UNCHANGED spath
       ELSE dspc' = [dspc EXCEPT ![s] = "recv"] /\ spath' = s
    /\ UNCHANGED <<kind, inbox, handling, dclientVars, dhistory>>

(* Seeded fault: both servers go on after a datagram of no bytes.          *)
Skips_Both(r) == r.text = "empty"

(* recv_len <= 0 in the UNIX server, bytes_received < 0 in the UDP one.    *)
Skips(r) == kind = "unix" /\ r.text = "empty"

DgramReceive(s) ==
    /\ dspc[s] = "recv" /\ inbox[s] # <<>>
    /\ LET r == Head(inbox[s]) IN
         IF Skips(r)
         THEN /\ fate' = [fate EXCEPT ![r.from] = IF kind = "unix" THEN "empty" ELSE @]
              /\ UNCHANGED <<dspc, handling>>
         ELSE /\ handling' = [handling EXCEPT ![s] = [from |-> r.from, line |-> r.line]]
              /\ dspc' = [dspc EXCEPT ![s] = "send"]
              /\ UNCHANGED fate
    /\ inbox' = [inbox EXCEPT ![s] = Tail(@)]
    /\ UNCHANGED <<kind, spath, dclientVars, overtook, printed>>

(* Seeded fault: the answer goes to the sender of the next request.        *)
Addressee_Next(s) ==
    IF kind = "unix" THEN cpath
    ELSE IF inbox[s] # <<>> THEN Head(inbox[s]).from ELSE handling[s].from

(* Who holds the address the request came from.                            *)
Addressee(s) == IF kind = "unix" THEN cpath ELSE handling[s].from

(* sendto() fails when nobody holds the address, which nobody looks at;    *)
(* UDP may drop the datagram.                                              *)
DgramRespond(s) ==
    /\ dspc[s] = "send"
    /\ LET to == Addressee(s)
           c  == handling[s].from
       IN  \/ /\ Open(to)
              /\ answers' = [answers EXCEPT ![to] = Append(@, handling[s])]
              /\ fate' = [fate EXCEPT ![c] = IF to = c THEN @ ELSE "misled"]
           \/ /\ kind = "udp" \/ ~Open(to)
              /\ fate' = [fate EXCEPT ![c] = IF kind = "udp" THEN "dropped" ELSE "misled"]
              /\ UNCHANGED answers
    /\ dspc' = [dspc EXCEPT ![s] = "recv"]
    /\ handling' = [handling EXCEPT ![s] = NoRequest]
    /\ UNCHANGED <<kind, spath, inbox, dcpc, cpath, line, overtook, printed>>

(* Ctrl+C: what is queued is lost; the file stays.                         *)
DgramKill(s) ==
    /\ Up(s)
    /\ dspc' = [dspc EXCEPT ![s] = "ended"]
    /\ fate' = [c \in DgramClients |->
                  IF c = handling[s].from \/ \E i \in DOMAIN inbox[s] : inbox[s][i].from = c
                  THEN "killed" ELSE fate[c]]
    /\ inbox' = [inbox EXCEPT ![s] = <<>>]
    /\ handling' = [handling EXCEPT ![s] = NoRequest]
    /\ UNCHANGED <<kind, spath, dclientVars, overtook, printed>>

-----------------------------------------------------------------------------
(* The clients.                                                            *)

(* A request or an answer of client c is still on its way.                 *)
Pending(c) ==
    \/ \E s \in DgramServers :
         handling[s].from = c \/ \E i \in DOMAIN inbox[s] : inbox[s][i].from = c
    \/ \E d \in DgramClients : \E i \in DOMAIN answers[d] : answers[d][i].from = c

DgramOpen(c) ==
    /\ dcpc[c] = "off"
    /\ dcpc' = [dcpc EXCEPT ![c] = "prompt"]
    /\ cpath' = (IF kind = "unix" THEN c ELSE cpath)
    /\ overtook' = [overtook EXCEPT ![c] = {d \in DgramClients \ {c} : Open(d) \/ Pending(d)}]
    /\ UNCHANGED <<kind, dserverVars, answers, line, fate, printed>>

(* A line; it is empty when the user of the UNIX client typed nothing, or  *)
(* a line of the UDP client begins with a zero byte.  At the end of its    *)
(* input the UNIX client sends whatever its buffer held.  No error is      *)
(* looked at.                                                              *)
DgramSend(c, text) ==
    /\ dcpc[c] = "prompt" /\ line[c] < MaxLines
    /\ line' = [line EXCEPT ![c] = @ + 1]
    /\ dcpc' = [dcpc EXCEPT ![c] = "recv"]
    /\ \/ /\ Up(spath)
          /\ inbox' = [inbox EXCEPT ![spath] =
                         Append(@, [from |-> c, line |-> line[c] + 1, text |-> text])]
          /\ fate' = [fate EXCEPT ![c] = "none"]
       \/ /\ kind = "udp" \/ ~Up(spath)
          /\ fate' = [fate EXCEPT ![c] = IF Up(spath) THEN "dropped" ELSE "absent"]
          /\ UNCHANGED inbox
    /\ UNCHANGED <<kind, dspc, spath, handling, cpath, answers, overtook, printed>>

(* The socket is closed with what is queued; CLIENT_PATH is removed when   *)
(* main() comes to its end, whoever bound it last.                         *)
DgramClose(c, unlinks) ==
    /\ dcpc' = [dcpc EXCEPT ![c] = "ended"]
    /\ cpath' = (IF kind = "unix" /\ unlinks THEN Nobody ELSE cpath)

(* The UDP client goes on with the next line, the UNIX client ends.        *)
DgramPrint(c) ==
    /\ dcpc[c] = "recv" /\ answers[c] # <<>>
    /\ printed' = [printed EXCEPT ![c] = Head(answers[c])]
    /\ answers' = [answers EXCEPT ![c] = IF kind = "udp" THEN Tail(@) ELSE <<>>]
    /\ IF kind = "udp" THEN dcpc' = [dcpc EXCEPT ![c] = "prompt"] /\ UNCHANGED cpath
                       ELSE DgramClose(c, TRUE)
    /\ UNCHANGED <<kind, dserverVars, line, fate, overtook>>

(* Ctrl+D at the prompt of the UDP client; Ctrl+C anywhere.                *)
DgramLeave(c) ==
    /\ Open(c)
    /\ DgramClose(c, FALSE)
    /\ answers' = [answers EXCEPT ![c] = <<>>]
    /\ UNCHANGED <<kind, dserverVars, line, dhistory>>

-----------------------------------------------------------------------------
DgramServerStep(s) == DgramReceive(s) \/ DgramRespond(s)

DgramNext ==
    \/ \E s \in DgramServers : DgramServerStep(s) \/ DgramStart(s) \/ DgramKill(s)
    \/ \E c \in DgramClients :
         \/ DgramOpen(c) \/ DgramPrint(c) \/ DgramLeave(c)
         \/ \E text \in {"text", "empty"} : DgramSend(c, text)

DgramGoes ==
    (\E s \in DgramServers : DgramServerStep(s)) \/ \E c \in DgramClients : DgramPrint(c)

-----------------------------------------------------------------------------
(* A UDP client that prints an answer prints the one to its latest line,   *)
(* although lines and answers are lost and the server is restarted.  A     *)
(* UNIX client may print the answer to another client, but only one that   *)
(* had none yet, killed perhaps, when this client took CLIENT_PATH         *)
(* (init_client_socket).                                                   *)
AnswerIsOwn ==
    [][\A c \in DgramClients : printed'[c] # printed[c] =>
         \/ printed'[c] = [from |-> c, line |-> line[c]]
         \/ kind = "unix" /\ printed'[c].from \in overtook[c]]_dgramVars

(* The ways to wait for ever: a UDP client whose request or answer was     *)
(* dropped, a UNIX client that sent an empty line or whose answer went     *)
(* elsewhere, and both when the server was absent or killed.  Every other  *)
(* request is answered (the loops of both servers).                        *)
WaitsForEver(c) ==
    fate[c] \in {"absent", "killed"} \cup (IF kind = "udp" THEN {"dropped"} ELSE {"empty", "misled"})

AnswersArrive == []<>(\A c \in DgramClients : dcpc[c] = "recv" => WaitsForEver(c))
=============================================================================
