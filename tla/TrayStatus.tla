----------------------------- MODULE TrayStatus -----------------------------
(***************************************************************************)
(* The restaurant together with its main process, which every ten seconds  *)
(* counts the dishes on the trays (print_tray_status) without taking a     *)
(* mutex: chefs and customers go on between two reads of its loop.         *)
(***************************************************************************)
EXTENDS Restaurant

VARIABLES
    next,    \* for each tray, the slot the loop reads next; 0: not counting
    seen,    \* vegan_count and non_count
    held     \* for each tray, the numbers of dishes it has held since the loop began

status == <<next, seen, held>>

Count(t) == Cardinality(Dishes(t))

StatusInit ==
    /\ Init
    /\ next = 0
    /\ seen = [t \in Kinds |-> 0]
    /\ held = [t \in Kinds |-> {}]

(* A step of a chef or a customer.                                         *)
Others ==
    /\ Next
    /\ held' = [t \in Kinds |-> IF next = 0 THEN {} ELSE held[t] \cup {Count(t)'}]
    /\ UNCHANGED <<next, seen>>

Begin ==
    /\ next = 0 /\ next' = 1
    /\ seen' = [t \in Kinds |-> 0]
    /\ held' = [t \in Kinds |-> {Count(t)}]
    /\ UNCHANGED vars

(* One round of the loop reads the same slot of both trays.                *)
Read ==
    /\ next \in Slots /\ next' = next + 1
    /\ seen' = [t \in Kinds |-> IF tray[t][next] # EMPTY THEN seen[t] + 1 ELSE seen[t]]
    /\ UNCHANGED <<vars, held>>

Report ==
    /\ next = TRAY_SIZE + 1 /\ next' = 0
    /\ seen' = [t \in Kinds |-> 0] /\ held' = [t \in Kinds |-> {}]
    /\ UNCHANGED vars

StatusNext == Others \/ Begin \/ Read \/ Report

StatusSpec == StatusInit /\ [][StatusNext]_<<vars, status>>

(* The count that print_tray_status prints is one that the tray really had *)
(* at some moment of the loop, although it reads without the mutex: chefs  *)
(* fill, and customers empty, always the first slot they can.              *)
CountIsReal == next = TRAY_SIZE + 1 => \A t \in Kinds : seen[t] \in held[t]
====
