--------------------------- MODULE ConnLifecycle ---------------------------
(***************************************************************************)
(* What the connection list of the chat promises about each PeerConn: it   *)
(* is created once, gets at most one receive thread, stops being active    *)
(* for good, and is freed once, never while its thread is running.         *)
(***************************************************************************)
CONSTANT Conns

VARIABLES
    node,    \* heap state of each connection: "unused", "live", "freed"
    open,    \* the connection is active
    reader   \* its receive thread: "none", "run", "done"

lvars == <<node, open, reader>>

Init ==
    /\ node = [c \in Conns |-> "unused"]
    /\ open = [c \in Conns |-> FALSE]
    /\ reader = [c \in Conns |-> "none"]

Create(c) ==
    /\ node[c] = "unused"
    /\ node' = [node EXCEPT ![c] = "live"]
    /\ open' = [open EXCEPT ![c] = TRUE]
    /\ UNCHANGED reader

Start(c) ==
    /\ node[c] = "live" /\ reader[c] = "none"
    /\ reader' = [reader EXCEPT ![c] = "run"]
    /\ UNCHANGED <<node, open>>

(* Some connections are closed from this side.                             *)
Close(S) ==
    /\ \A c \in S : node[c] = "live"
    /\ open' = [c \in Conns |-> open[c] /\ c \notin S]
    /\ UNCHANGED <<node, reader>>

(* The receive thread ends; it writes to the node, which must still exist. *)
Finish(c) ==
    /\ node[c] = "live" /\ reader[c] = "run"
    /\ open' = [open EXCEPT ![c] = FALSE]
    /\ reader' = [reader EXCEPT ![c] = "done"]
    /\ UNCHANGED node

Free(c) ==
    /\ node[c] = "live" /\ reader[c] # "run"
    /\ node' = [node EXCEPT ![c] = "freed"]
    /\ UNCHANGED <<open, reader>>

Next ==
    \/ \E c \in Conns : Create(c) \/ Start(c) \/ Finish(c) \/ Free(c)
    \/ \E S \in SUBSET Conns : Close(S)

Spec == Init /\ [][Next]_lvars
====
