------------------------------ MODULE P2PLink ------------------------------
(***************************************************************************)
(* Two processes of the peer-to-peer chat at the two ends of one TCP       *)
(* connection.  P2PNode has one process with every thread and lets its     *)
(* peers do anything; here both ends run the program and the bytes between *)
(* them are kept: TCP joins and splits what was sent, the buffers fill up, *)
(* and send() blocks in cmd_send with conn_mutex held.                     *)
(*                                                                         *)
(* A byte stream is a sequence of pieces.  The 14 bytes CMD:DISCONNECT are *)
(* two pieces, since a read may end between them; any other text is one.   *)
(***************************************************************************)
EXTENDS Naturals, Sequences

CONSTANTS
    Buffer,     \* pieces the kernels hold for one direction (send and receive buffer)
    Ops,        \* what the user of each end does: commands, or "eof"
    MaxSaid     \* bound: pieces of text the two users send

Sides == {1, 2}
Other(s) == 3 - s

(* "send" is a chat message; "sendcmd" is one whose text the user began    *)
(* with CMD:DISCONNECT.                                                    *)
Commands == {"send", "sendcmd", "terminate", "exit"}

ASSUME LinkAssumption ==
    /\ Buffer \in Nat \ {0} /\ MaxSaid \in Nat
    /\ Ops \in [Sides -> SUBSET (Commands \cup {"eof"})]

Command == <<"CMD:", "DISCONNECT">>
Pieces  == {"text", "CMD:", "DISCONNECT"}

(* What a command passes to send().                                        *)
Bytes(cmd) == IF cmd = "send" THEN <<"text">> ELSE Command

VARIABLES
    up,                             \* the process exists
    mpc, mcmd, out,                 \* main thread: place, command, what send() has not copied yet
    listed, active, should_remove,  \* the PeerConn of this connection
    rpc,                            \* receive thread: place
    sock,                           \* "open", or "closed" by this process
    wire,                           \* sent by this end and not yet read by the other
    eof,                            \* what follows it: "no", "fin", "rst", or "dead", a reset already reported
    unheard,                        \* history: sent by this end and not printed by the other
    spent                           \* pieces of text the users have sent, for the bound

mainVars == <<mpc, mcmd, out>>
nodeVars == <<listed, active, should_remove>>
sockVars == <<sock, wire, eof>>
vars == <<up, mainVars, nodeVars, rpc, sockVars, unheard, spent>>

-----------------------------------------------------------------------------
(* conn_mutex is free unless main blocks with it held: in send(), or in    *)
(* the joins of cmd_exit.                                                  *)
Holding(s) == mpc[s] \in {"sending", "exitJoin"}

Set(f, s, x) == [f EXCEPT ![s] = x]

Beyond(seq, n) == SubSeq(seq, n + 1, Len(seq))

Goto(s, place) == mpc' = Set(mpc, s, place)

Prompt(s) == Goto(s, "prompt") /\ mcmd' = Set(mcmd, s, "none") /\ out' = Set(out, s, <<>>)

(* The kernel closes an end: a FIN goes out behind what is on the wire.    *)
CloseSocket(s) ==
    /\ sock' = Set(sock, s, "closed")
    /\ eof' = Set(eof, s, IF eof[s] = "no" THEN "fin" ELSE eof[s])
    /\ UNCHANGED wire

(* The process ends; the kernel closes what it left open.                  *)
Ends(s) ==
    /\ up' = Set(up, s, FALSE)
    /\ CloseSocket(s)
    /\ Goto(s, "ended") /\ mcmd' = Set(mcmd, s, "none") /\ out' = Set(out, s, <<>>)
    /\ listed' = Set(listed, s, FALSE) /\ active' = Set(active, s, FALSE)
    /\ should_remove' = Set(should_remove, s, FALSE)
    /\ rpc' = Set(rpc, s, "done")
    /\ UNCHANGED <<unheard, spent>>

Init ==
    /\ up = [s \in Sides |-> TRUE]
    /\ mpc = [s \in Sides |-> "prompt"]
    /\ mcmd = [s \in Sides |-> "none"]
    /\ out = [s \in Sides |-> <<>>]
    /\ listed = [s \in Sides |-> TRUE]
    /\ active = [s \in Sides |-> TRUE]
    /\ should_remove = [s \in Sides |-> FALSE]
    /\ rpc = [s \in Sides |-> "recv"]
    /\ sock = [s \in Sides |-> "open"]
    /\ wire = [s \in Sides |-> <<>>]
    /\ eof = [s \in Sides |-> "no"]
    /\ unheard = [s \in Sides |-> <<>>]
    /\ spent = 0

-----------------------------------------------------------------------------
(* The main thread of end s.                                               *)

(* reap_connections: the thread of a marked node has ended, so the join    *)
(* returns at once; the socket is not closed.                              *)
Reap(s) == listed' = Set(listed, s, listed[s] /\ ~should_remove[s])

(* A command was read; the loop reaps before it looks at it.               *)
ReadLine(s, cmd) ==
    /\ mpc[s] = "prompt"
    /\ IF cmd \in {"send", "sendcmd"}
       THEN spent' = spent + Len(Bytes(cmd)) /\ spent' <= MaxSaid
       ELSE UNCHANGED spent
    /\ mcmd' = Set(mcmd, s, cmd)
    /\ Reap(s) /\ Goto(s, "dispatch")
    /\ UNCHANGED <<up, out, active, should_remove, rpc, sockVars, unheard>>

EndOfInput(s) == mpc[s] = "prompt" /\ "eof" \in Ops[s] /\ Ends(s)

(* The command takes the mutex and finds somebody to send to.              *)
Finds(s) == listed[s] /\ (mcmd[s] = "terminate" \/ active[s])

(* cmd_send, cmd_terminate and cmd_exit enter send() with the mutex held.  *)
SendBegin(s) ==
    /\ mpc[s] = "dispatch" /\ Finds(s)
    /\ out' = Set(out, s, Bytes(mcmd[s])) /\ Goto(s, "sending")
    /\ UNCHANGED <<up, mcmd, nodeVars, rpc, sockVars, unheard, spent>>

(* "not found", or nobody left for cmd_exit to notify.                     *)
NobodyFound(s) ==
    /\ mpc[s] = "dispatch" /\ ~Finds(s)
    /\ IF mcmd[s] = "exit" THEN Goto(s, "exitListener") /\ UNCHANGED <<mcmd, out>>
                           ELSE Prompt(s)
    /\ UNCHANGED <<up, nodeVars, rpc, sockVars, unheard, spent>>

Room(s) == Buffer - Len(wire[s])

Copied(s) == IF Len(out[s]) <= Room(s) THEN Len(out[s]) ELSE Room(s)

(* send() copies as much as there is room for, and waits for the rest.     *)
Copy(s) ==
    /\ mpc[s] = "sending" /\ eof[Other(s)] \in {"no", "fin"} /\ Copied(s) > 0
    /\ LET n == Copied(s) IN
         /\ wire' = Set(wire, s, wire[s] \o SubSeq(out[s], 1, n))
         /\ unheard' = Set(unheard, s, unheard[s] \o SubSeq(out[s], 1, n))
         /\ out' = Set(out, s, Beyond(out[s], n))
    /\ UNCHANGED <<up, mpc, mcmd, nodeVars, rpc, sock, eof, spent>>

(* The other end reset the connection.  A short count, which nobody looks  *)
(* at, if some was copied; otherwise an error, once, or SIGPIPE.           *)
SendFails(s) ==
    /\ mpc[s] = "sending" /\ out[s] # <<>> /\ eof[Other(s)] = "rst"
    /\ out' = Set(out, s, <<>>)
    /\ eof' = IF out[s] = Bytes(mcmd[s]) THEN Set(eof, Other(s), "dead") ELSE eof
    /\ UNCHANGED <<up, mpc, mcmd, nodeVars, rpc, sock, wire, unheard, spent>>

SigPipe(s) ==
    /\ mpc[s] = "sending" /\ out[s] = Bytes(mcmd[s]) /\ eof[Other(s)] \in {"rst", "dead"}
    /\ Ends(s)

Sent(s) == mpc[s] = "sending" /\ out[s] = <<>>

(* cmd_send unlocks and reports.                                           *)
SendDone(s) ==
    /\ Sent(s) /\ mcmd[s] \in {"send", "sendcmd"}
    /\ Prompt(s)
    /\ UNCHANGED <<up, nodeVars, rpc, sockVars, unheard, spent>>

(* cmd_terminate and cmd_exit: shutdown, close, mark inactive, unlock.     *)
NotifyDone(s) ==
    /\ Sent(s) /\ mcmd[s] \in {"terminate", "exit"}
    /\ CloseSocket(s)
    /\ active' = Set(active, s, FALSE)
    /\ Goto(s, IF mcmd[s] = "exit" THEN "exitListener" ELSE "termJoin")
    /\ UNCHANGED <<up, mcmd, out, listed, should_remove, rpc, unheard, spent>>

TerminateRemove(s) ==
    /\ mpc[s] = "termJoin" /\ rpc[s] = "done"
    /\ listed' = Set(listed, s, FALSE)
    /\ Prompt(s)
    /\ UNCHANGED <<up, active, should_remove, rpc, sockVars, unheard, spent>>

(* cmd_exit has joined the listener (if that returns) and locks again.     *)
ExitLock(s) ==
    /\ mpc[s] = "exitListener"
    /\ Goto(s, "exitJoin")
    /\ UNCHANGED <<up, mcmd, out, nodeVars, rpc, sockVars, unheard, spent>>

(* It joins the receive thread if the node is listed, and main returns.    *)
ExitReturn(s) ==
    /\ mpc[s] = "exitJoin"
    /\ listed[s] => rpc[s] = "done"
    /\ Ends(s)

-----------------------------------------------------------------------------
(* The receive thread of end s.                                            *)

(* The next call of recv(): on a closed descriptor it fails at once.       *)
Again(s) == IF sock[s] = "open" THEN "recv" ELSE "finish"

(* Seeded fault: the command is looked for anywhere in the buffer.         *)
IsDisconnect_Anywhere(buf) == \E k \in 1..(Len(buf) - 1) : SubSeq(buf, k, k + 1) = Command

(* strncmp(buf, "CMD:DISCONNECT", 14) == 0                                 *)
IsDisconnect(buf) == Len(buf) >= 2 /\ SubSeq(buf, 1, 2) = Command

(* Seeded fault: the loop takes conn_mutex around recv().                  *)
Read_Locked(s) ==
    /\ rpc[s] = "recv" /\ ~Holding(s)
    /\ LET w == wire[Other(s)] IN
       \E n \in 1..Len(w) :
         /\ wire' = Set(wire, Other(s), Beyond(w, n))
         /\ IF IsDisconnect(SubSeq(w, 1, n))
            THEN rpc' = Set(rpc, s, "finish") /\ UNCHANGED unheard
            ELSE rpc' = Set(rpc, s, Again(s))
                 /\ unheard' = Set(unheard, Other(s), Beyond(unheard[Other(s)], n))
    /\ UNCHANGED <<up, mainVars, nodeVars, sock, eof, spent>>

(* recv() returns some of what has arrived: the command, or a message.     *)
Read(s) ==
    /\ rpc[s] = "recv"
    /\ LET w == wire[Other(s)] IN
       \E n \in 1..Len(w) :
         /\ wire' = Set(wire, Other(s), Beyond(w, n))
         /\ IF IsDisconnect(SubSeq(w, 1, n))
            THEN rpc' = Set(rpc, s, "finish") /\ UNCHANGED unheard
            ELSE rpc' = Set(rpc, s, Again(s))
                 /\ unheard' = Set(unheard, Other(s), Beyond(unheard[Other(s)], n))
    /\ UNCHANGED <<up, mainVars, nodeVars, sock, eof, spent>>

(* Seeded fault: the end of the stream does not end the loop.              *)
RecvEnd_Ignored(s) ==
    /\ rpc[s] = "recv"
    /\ sock[s] = "closed" \/ (wire[Other(s)] = <<>> /\ eof[Other(s)] # "no")
    /\ rpc' = Set(rpc, s, "recv")
    /\ UNCHANGED <<up, mainVars, nodeVars, sockVars, unheard, spent>>

(* End of the stream, an error, or this process shut the socket down; then *)
(* something that had arrived may still be read before.                    *)
RecvEnd(s) ==
    /\ rpc[s] = "recv"
    /\ sock[s] = "closed" \/ (wire[Other(s)] = <<>> /\ eof[Other(s)] # "no")
    /\ rpc' = Set(rpc, s, "finish")
    /\ UNCHANGED <<up, mainVars, nodeVars, sockVars, unheard, spent>>

RecvFinish(s) ==
    /\ rpc[s] = "finish" /\ ~Holding(s)
    /\ active' = Set(active, s, FALSE)
    /\ should_remove' = Set(should_remove, s, TRUE)
    /\ rpc' = Set(rpc, s, "done")
    /\ UNCHANGED <<up, mainVars, listed, sockVars, unheard, spent>>

-----------------------------------------------------------------------------
(* Bytes reach the closed end s: its kernel answers with a reset, which    *)
(* overtakes what s has sent; only what had arrived can still be read.     *)
Reset(s) ==
    /\ sock[s] = "closed" /\ wire[Other(s)] # <<>>
    /\ \E n \in 0..Len(wire[s]) :
         wire' = [wire EXCEPT ![s] = SubSeq(wire[s], 1, n), ![Other(s)] = <<>>]
    /\ eof' = Set(eof, s, "rst")
    /\ UNCHANGED <<up, mainVars, nodeVars, rpc, sock, unheard, spent>>

-----------------------------------------------------------------------------
MainStep(s) ==
    \/ SendBegin(s) \/ NobodyFound(s)
    \/ Copy(s) \/ SendFails(s) \/ SigPipe(s) \/ SendDone(s) \/ NotifyDone(s)
    \/ TerminateRemove(s) \/ ExitReturn(s)

RecvStep(s) == Read(s) \/ RecvEnd(s) \/ RecvFinish(s)

(* The user, and whether the listener thread lets itself be joined.        *)
UserStep(s) == (\E cmd \in Ops[s] \cap Commands : ReadLine(s, cmd)) \/ EndOfInput(s) \/ ExitLock(s)

Next ==
    \E s \in Sides :
        \/ up[s] /\ (MainStep(s) \/ RecvStep(s) \/ UserStep(s))
        \/ Reset(s)

Spec == Init /\ [][Next]_vars

(* Both threads of each process are scheduled, and the kernels deliver.    *)
FairSpec ==
    /\ Spec
    /\ \A s \in Sides : /\ WF_vars(up[s] /\ MainStep(s))
                        /\ WF_vars(up[s] /\ RecvStep(s))
                        /\ WF_vars(Reset(s))

-----------------------------------------------------------------------------
(* Properties.                                                             *)

(* The receive thread has ended but the process keeps the socket open:     *)
(* nobody reads this direction any more.                                   *)
Deaf(s) == up[s] /\ sock[s] = "open" /\ rpc[s] \in {"finish", "done"}

(* cmd_send, cmd_terminate and cmd_exit block in send() with conn_mutex    *)
(* held; they come back, also when both ends send at once and all buffers  *)
(* are full, unless the other end has gone deaf (a user who types          *)
(* "send 1 CMD:DISCONNECT" makes it so, and may then block for ever).      *)
SendReturns ==
    \A s \in Sides :
        (up[s] /\ mpc[s] = "sending") ~> (~up[s] \/ mpc[s] # "sending" \/ Deaf(Other(s)))

(* An end that was closed, by terminate, exit, or because the process      *)
(* ended, is noticed by the other: its connection becomes inactive even if *)
(* CMD:DISCONNECT was swallowed as text, and even if its main thread was   *)
(* blocked in send() with the mutex held.                                  *)
LeaveNoticed ==
    \A s \in Sides : (sock[s] = "closed") ~> (~up[Other(s)] \/ ~active[Other(s)])

(* However TCP joins and splits the stream: what is printed is what was    *)
(* sent, in order and without gaps, and conn_recv_thread stops listening   *)
(* only on CMD:DISCONNECT, or when the other end left and all it had sent  *)
(* was printed, or when that one left with something unread.               *)
StateOf(s) == CASE sock[s] = "closed" -> "left"
                [] sock[s] = "open" /\ rpc[s] \in {"finish", "done"} -> "noticed"
                [] OTHER -> "talking"

Talk == INSTANCE Conversation WITH
    Parties <- Sides, Parts <- {Command} \cup {<<p>> : p \in Pieces},
    state <- [s \in Sides |-> StateOf(s)]

ImplementsConversation == Talk!Spec
====
